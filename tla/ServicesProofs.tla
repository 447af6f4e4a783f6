----------------------------- MODULE ServicesProofs -----------------------------
(***************************************************************************)
(* Proofs about the components that keep their state in one API process,   *)
(* for every value of their constants: the in-memory job store, the        *)
(* package download, the approved folder, the access checks, the guard of  *)
(* the remediations, the software monitor, the rate limiter and the        *)
(* in-memory enrollment store; at the end, about all of them together.     *)
(***************************************************************************)
EXTENDS Services, SequenceTheorems, FiniteSetTheorems, TLAPS

-----------------------------------------------------------------------------
(* The in-memory job store implements JobStore. *)

\* What no call can change: a job that waits was never leased, as a lease that
\* ran out is never returned; every job is of a device and has a place in the
\* order of insertion.
JobInv(j) ==
  /\ store[j].status \in {"absent", "pending", "expired"} => store[j].attempts = 0
  /\ store[j].status # "absent" => /\ store[j].dev \in Devices
                                   /\ \E p \in DOMAIN order : order[p] = j

MemoryInv ==
  /\ store \in [JobIds -> Row]
  /\ order \in Seq(JobIds)
  /\ clock \in Nat
  /\ \A j \in JobIds : JobInv(j)

(***************************************************************************)
(* The invariant.                                                          *)
(***************************************************************************)

LEMMA MemoryInitInv == MemoryJobsInit /\ ClockInit => MemoryInv
BY DEF MemoryJobsInit, ClockInit, MemoryInv, JobInv, NoRow, Row, Statuses

\* Rows of the store change, and the order stays.
LEMMA RowsChange ==
  ASSUME MemoryInv, store' \in [JobIds -> Row], UNCHANGED <<order, clock>>,
         \A j \in JobIds :
           /\ store'[j].status \in {"absent", "pending", "expired"} => store'[j].attempts = 0
           /\ store'[j].status # "absent" => store[j].status # "absent"
           /\ store'[j].dev = store[j].dev
  PROVE  MemoryInv'
BY DEF MemoryInv, JobInv

LEMMA VisitedRow ==
  ASSUME NEW row \in Row, NEW t \in Nat, row.status = "pending", row.attempts = 0
  PROVE  /\ Visited(row, t) \in Row
         /\ Visited(row, t).dev = row.dev
         /\ row.expires <= t => Visited(row, t) = [row EXCEPT !.status = "expired"]
         /\ row.expires <= t => Visited(row, t).status = "expired" /\ Visited(row, t).attempts = 0
         /\ ~ (row.expires <= t) => Visited(row, t) = Leased(row, t)
         /\ ~ (row.expires <= t) => Visited(row, t).status = "claimed"
<1>1. ~ (row.attempts >= MaxAttempts)
  BY ConstantsAssumption
<1>2. row.attempts + 1 \in Nat /\ t + Lease \in Nat
  BY ConstantsAssumption DEF Row
<1>3. CASE row.expires <= t
  BY <1>3 DEF Visited, Row, Statuses
<1>4. CASE ~ (row.expires <= t)
  BY <1>1, <1>2, <1>4 DEF Visited, Leased, Row, Statuses
<1> QED
  BY <1>3, <1>4

LEMMA CreateInv ==
  ASSUME MemoryInv, NEW o \in Orgs, NEW d \in Devices, NEW k \in Keys, NEW ttl \in TTLs,
         NEW t \in 0 .. clock, NEW j \in JobIds, MemoryCreate(o, d, k, ttl, t, j)
  PROVE  MemoryInv'
<1>1. NewRow(o, d, k, ttl, t) \in Row
  <2>1. t \in Nat /\ t + ttl \in Nat
    BY ConstantsAssumption DEF MemoryInv
  <2> QED
    BY <2>1 DEF NewRow, Row, Statuses
<1>2. store' \in [JobIds -> Row] /\ order' \in Seq(JobIds) /\ clock' = clock
  BY <1>1 DEF MemoryCreate, MemoryInv
<1>3. /\ Len(order') = Len(order) + 1 /\ order'[Len(order) + 1] = j
      /\ \A p \in DOMAIN order : p \in DOMAIN order' /\ order'[p] = order[p]
      /\ Len(order) + 1 \in DOMAIN order'
  BY DEF MemoryCreate, MemoryInv
<1>4. ASSUME NEW i \in JobIds
      PROVE  JobInv(i)'
  <2>1. CASE i = j
    BY <1>3, <2>1 DEF MemoryCreate, MemoryInv, JobInv, NewRow
  <2>2. CASE i # j
    BY <1>3, <2>2 DEF MemoryCreate, MemoryInv, JobInv
  <2> QED
    BY <2>1, <2>2
<1> QED
  BY <1>2, <1>4 DEF MemoryInv

\* What a claim does to one row.
LEMMA ClaimRow ==
  ASSUME MemoryInv, NEW d \in Devices, NEW t \in 0 .. clock, MemoryClaim(d, t), NEW j \in JobIds
  PROVE  \/ store'[j] = store[j]
         \/ /\ store[j] \in Row /\ store[j].status = "pending" /\ store[j].attempts = 0
            /\ store[j].dev = d /\ t \in Nat
            /\ store'[j] = Visited(store[j], t)
BY DEF MemoryClaim, MemoryInv, JobInv, PendingOf

LEMMA ClaimInv ==
  ASSUME MemoryInv, NEW d \in Devices, NEW t \in 0 .. clock, MemoryClaim(d, t)
  PROVE  MemoryInv'
<1>1. UNCHANGED <<order, clock>> /\ DOMAIN store' = JobIds
  BY DEF MemoryClaim
<1>2. ASSUME NEW j \in JobIds
      PROVE  /\ store'[j] \in Row
             /\ store'[j].status \in {"absent", "pending", "expired"} => store'[j].attempts = 0
             /\ store'[j].status # "absent" => store[j].status # "absent"
             /\ store'[j].dev = store[j].dev
  <2>1. CASE store'[j] = store[j]
    BY <2>1 DEF MemoryInv, JobInv
  <2>2. CASE store'[j] # store[j]
    BY <2>2, ClaimRow, VisitedRow
  <2> QED
    BY <2>1, <2>2
<1>3. store' \in [JobIds -> Row]
  BY <1>1, <1>2 DEF MemoryClaim
<1> QED
  BY <1>1, <1>2, <1>3, RowsChange

LEMMA FinishInv ==
  ASSUME MemoryInv, NEW j \in JobIds, NEW outcome \in Outcomes, NEW t \in 0 .. clock,
         MemoryFinish(j, outcome, t)
  PROVE  MemoryInv'
<1>1. Finished(store[j], outcome, t) \in Row
  <2>1. store[j] \in Row /\ t \in Nat /\ outcome \in Statuses
    BY DEF MemoryInv, Statuses
  <2> QED
    BY <2>1 DEF Finished, Row
<1>2. /\ Finished(store[j], outcome, t).status = outcome
      /\ Finished(store[j], outcome, t).dev = store[j].dev
  BY DEF MemoryInv, Finished, Row
<1>3. store' \in [JobIds -> Row] /\ UNCHANGED <<order, clock>>
  BY <1>1 DEF MemoryFinish, MemoryInv
<1>4. ASSUME NEW i \in JobIds
      PROVE  /\ store'[i].status \in {"absent", "pending", "expired"} => store'[i].attempts = 0
             /\ store'[i].status # "absent" => store[i].status # "absent"
             /\ store'[i].dev = store[i].dev
  BY <1>2 DEF MemoryFinish, MemoryInv, JobInv, Outcomes
<1> QED
  BY <1>3, <1>4, RowsChange

LEMMA MemoryNextInv == MemoryInv /\ [MemoryJobsNext]_memoryJobsVars => MemoryInv'
<1> SUFFICES ASSUME MemoryInv, [MemoryJobsNext]_memoryJobsVars PROVE MemoryInv'
  OBVIOUS
<1>1. CASE Advance /\ UNCHANGED <<store, order>>
  BY <1>1 DEF Advance, MemoryInv, JobInv
<1>2. CASE UNCHANGED memoryJobsVars
  BY <1>2 DEF memoryJobsVars, MemoryInv, JobInv
<1> QED
  BY <1>1, <1>2, CreateInv, ClaimInv, FinishInv DEF MemoryJobsNext

(***************************************************************************)
(* The table that the store represents, row by row.                        *)
(***************************************************************************)

TableJobs == [j \in JobIds |-> TableRow(store[j])]
TableAudit == [j \in JobIds |-> TrailOf(store[j])]

\* One event of a row is one more entry of its kind.
LEMMA TrailCreated ==
  ASSUME NEW row \in Row, NEW next \in Row, row.status = "absent", next.status = "pending",
         next.attempts = row.attempts
  PROVE  TrailOf(next) = [TrailOf(row) EXCEPT !["created"] = @ + 1]
<1> DEFINE after == [a \in {"created", "claimed"} \cup Outcomes |->
                     IF a = "claimed" THEN row.attempts ELSE IF a = "created" THEN 1 ELSE 0]
<1>1. TrailOf(row) = [a \in {"created", "claimed"} \cup Outcomes |->
                        IF a = "claimed" THEN row.attempts ELSE 0]
  BY DEF TrailOf, Outcomes
<1>2. TrailOf(next) = after
  BY DEF TrailOf, Outcomes
<1>3. [TrailOf(row) EXCEPT !["created"] = @ + 1] = after
  <2>1. TrailOf(row)["created"] + 1 = 1
    BY <1>1
  <2>2. [TrailOf(row) EXCEPT !["created"] = 1] = after
    BY <1>1
  <2> QED
    BY <2>1, <2>2
<1> QED
  BY <1>2, <1>3

LEMMA TrailClaimed ==
  ASSUME NEW row \in Row, NEW next \in Row, row.status = "pending", next.status = "claimed",
         next.attempts = row.attempts + 1
  PROVE  TrailOf(next) = [TrailOf(row) EXCEPT !["claimed"] = @ + 1]
BY DEF TrailOf, Outcomes, Row

LEMMA TrailExpired ==
  ASSUME NEW row \in Row, NEW next \in Row, row.status = "pending", next.status = "expired",
         next.attempts = row.attempts
  PROVE  TrailOf(next) = TrailOf(row)
BY DEF TrailOf, Outcomes, Row

LEMMA TrailFinished ==
  ASSUME NEW row \in Row, NEW next \in Row, NEW outcome \in Outcomes,
         row.status = "claimed", next.status = outcome, next.attempts = row.attempts
  PROVE  TrailOf(next) = [TrailOf(row) EXCEPT ![outcome] = @ + 1]
BY DEF TrailOf, Outcomes, Row

LEMMA TableInit == MemoryJobsInit /\ ClockInit => Table!Init
<1> SUFFICES ASSUME MemoryJobsInit, ClockInit PROVE Table!Init
  OBVIOUS
<1>1. TableRow(NoRow) = NoRow
  BY DEF TableRow, NoRow
<1>2. TrailOf(NoRow) = [a \in Table!AuditActions |-> 0]
  BY DEF TrailOf, NoRow, Table!AuditActions, Outcomes, Table!Outcomes
<1> QED
  BY <1>1, <1>2 DEF MemoryJobsInit, ClockInit, Table!Init, NoRow, Table!NoRow

LEMMA TableCreate ==
  ASSUME MemoryInv, NEW o \in Orgs, NEW d \in Devices, NEW k \in Keys, NEW ttl \in TTLs,
         NEW t \in 0 .. clock, NEW j \in JobIds, MemoryCreate(o, d, k, ttl, t, j)
  PROVE  Table!Create(o, d, k, ttl, t, j)
<1>1. TableJobs[j].status = "absent" /\ ~ Table!KeyTaken(TableJobs, o, d, k)
  BY DEF MemoryCreate, MemoryInv, TableJobs, TableRow, Row, KeyTaken, Table!KeyTaken
<1>2. TableRow(NewRow(o, d, k, ttl, t)) = Table!NewRow(o, d, k, ttl, t)
  BY DEF TableRow, NewRow, Table!NewRow
<1>3. TableJobs' = [TableJobs EXCEPT ![j] = Table!NewRow(o, d, k, ttl, t)]
  BY <1>2 DEF MemoryCreate, MemoryInv, TableJobs
<1>4. TrailOf(NewRow(o, d, k, ttl, t)) = [TrailOf(store[j]) EXCEPT !["created"] = @ + 1]
  <2>1. /\ store[j].status = "absent" /\ store[j].attempts = 0
        /\ NewRow(o, d, k, ttl, t).status = "pending" /\ NewRow(o, d, k, ttl, t).attempts = 0
    BY DEF MemoryCreate, MemoryInv, JobInv, NewRow
  <2>2. store[j] \in Row /\ NewRow(o, d, k, ttl, t) \in Row
    <3>1. t \in Nat /\ t + ttl \in Nat
      BY ConstantsAssumption DEF MemoryInv
    <3> QED
      BY <3>1 DEF MemoryInv, NewRow, Row, Statuses
  <2> QED
    BY <2>1, <2>2, TrailCreated
<1>5. TableAudit' = [TableAudit EXCEPT ![j]["created"] = @ + 1]
  BY <1>4 DEF MemoryCreate, MemoryInv, TableAudit
<1> QED
  BY <1>1, <1>3, <1>5
     DEF Table!Create, Table!Audited, TableJobs, TableAudit, MemoryCreate

LEMMA TableClaim ==
  ASSUME MemoryInv, NEW d \in Devices, NEW t \in 0 .. clock, MemoryClaim(d, t)
  PROVE  \/ UNCHANGED <<TableJobs, TableAudit, clock>>
         \/ \E j \in JobIds : Table!ClaimJob(d, t, j)
<1> DEFINE free == {j \in PendingOf(d) : store[j].expires > t /\ store[j].attempts < MaxAttempts}
           reached == {j \in PendingOf(d) : \A i \in free : ~ Earlier(i, j)}
<1>1. /\ store' = [j \in JobIds |-> IF j \in reached THEN Visited(store[j], t) ELSE store[j]]
      /\ UNCHANGED <<order, clock>>
  BY DEF MemoryClaim
<1>2. ASSUME NEW j \in reached
      PROVE  /\ store[j] \in Row /\ store[j].status = "pending" /\ store[j].attempts = 0
             /\ store[j].dev = d /\ t \in Nat /\ j \in JobIds
             /\ j \in free <=> ~ (store[j].expires <= t)
  BY ConstantsAssumption DEF MemoryInv, JobInv, PendingOf, Row
\* The loop stops at the first job it can lease.
<1>3. ASSUME NEW i \in reached \cap free, NEW j \in reached \cap free
      PROVE  i = j
  <2>1. ~ Earlier(i, j) /\ ~ Earlier(j, i)
    OBVIOUS
  <2>2. store[i].created \in Nat /\ store[j].created \in Nat
    BY <1>2 DEF Row
  <2>3. PICK p \in DOMAIN order, q \in DOMAIN order : order[p] = i /\ order[q] = j
    BY <1>2 DEF MemoryInv, JobInv
  <2>4. p \in Nat /\ q \in Nat
    BY <2>3 DEF MemoryInv
  <2>5. p = q
    BY <2>1, <2>2, <2>3, <2>4 DEF Earlier
  <2> QED
    BY <2>3, <2>5
\* A job that expired stays as it is in the table.
<1>4. ASSUME NEW j \in JobIds, j \notin reached \cap free
      PROVE  TableRow(store'[j]) = TableRow(store[j]) /\ TrailOf(store'[j]) = TrailOf(store[j])
  <2>1. CASE j \in reached
    <3>1. /\ store'[j] = [store[j] EXCEPT !.status = "expired"]
          /\ store[j] \in Row /\ store[j].status = "pending"
      BY <1>1, <1>2, <1>4, <2>1, VisitedRow
    <3>2. TableRow(store'[j]) = TableRow(store[j])
      BY <3>1 DEF TableRow, Row
    <3>3. /\ store'[j] \in Row
          /\ store'[j].status = "expired" /\ store'[j].attempts = store[j].attempts
      BY <3>1 DEF Row, Statuses
    <3> QED
      BY <3>1, <3>2, <3>3, TrailExpired
  <2>2. CASE j \notin reached
    BY <1>1, <2>2
  <2> QED
    BY <2>1, <2>2
<1>5. CASE reached \cap free = {}
  BY <1>1, <1>4, <1>5 DEF TableJobs, TableAudit
<1>6. ASSUME NEW j \in reached \cap free
      PROVE  Table!ClaimJob(d, t, j)
  <2>1. /\ store[j] \in Row /\ store[j].status = "pending" /\ store[j].attempts = 0
        /\ store[j].dev = d /\ t \in Nat /\ j \in JobIds /\ store[j].expires > t
        /\ store[j].attempts < MaxAttempts
        /\ store'[j] = Leased(store[j], t) /\ store'[j] \in Row
        /\ store'[j].status = "claimed" /\ store'[j].attempts = store[j].attempts + 1
    <3>1. /\ store[j] \in Row /\ store[j].status = "pending" /\ store[j].attempts = 0
          /\ store[j].dev = d /\ t \in Nat /\ j \in JobIds /\ ~ (store[j].expires <= t)
      BY <1>2, <1>6
    <3>2. store[j].expires > t /\ store[j].attempts < MaxAttempts
      BY <1>6
    <3>3. /\ Visited(store[j], t) = Leased(store[j], t)
          /\ Visited(store[j], t) \in Row /\ Visited(store[j], t).status = "claimed"
      BY <3>1, VisitedRow
    <3>4. Leased(store[j], t).attempts = store[j].attempts + 1
      BY <3>1 DEF Leased, Row
    <3>5. store'[j] = Visited(store[j], t)
      BY <1>1, <1>6, <3>1
    <3> QED
      BY <3>1, <3>2, <3>3, <3>4, <3>5
  <2>2. TableRow(store[j]) = store[j] /\ TableRow(store'[j]) = store'[j]
    BY <2>1 DEF TableRow
  <2>3. \A i \in JobIds : i # j => TableRow(store'[i]) = TableRow(store[i])
                                     /\ TrailOf(store'[i]) = TrailOf(store[i])
    BY <1>3, <1>4, <1>6
  <2>4. TableJobs' = [TableJobs EXCEPT ![j] = Table!Leased(@, t)]
    BY <2>1, <2>2, <2>3 DEF TableJobs, Leased, Table!Leased
  <2>5. TrailOf(store'[j]) = [TrailOf(store[j]) EXCEPT !["claimed"] = @ + 1]
    BY <2>1, TrailClaimed
  <2>6. TableAudit' = [TableAudit EXCEPT ![j]["claimed"] = @ + 1]
    BY <2>1, <2>3, <2>5 DEF TableAudit
  <2>7. Table!Swept({}) = TableJobs
    BY DEF Table!Swept, TableJobs
  <2>8. Table!Claimable(Table!Swept({})[j], d, t)
    BY <2>1, <2>2, <2>7 DEF TableJobs, Table!Claimable
  <2>9. Table!ActiveSince(d, t) /\ Table!Audited(j, "claimed")
    BY <2>6 DEF Table!ActiveSince, Table!Audited, TableAudit
  <2>10. [Table!Swept({}) EXCEPT ![j] = Table!Leased(@, t)] = TableJobs'
    BY <2>4, <2>7
  <2> QED
    BY <1>1, <2>8, <2>9, <2>10 DEF Table!ClaimJob, TableJobs
<1> QED
  BY <1>2, <1>5, <1>6

LEMMA TableFinish ==
  ASSUME MemoryInv, NEW j \in JobIds, NEW outcome \in Outcomes, NEW t \in 0 .. clock,
         MemoryFinish(j, outcome, t)
  PROVE  \E d \in Devices : Table!Finish(d, j, outcome, t)
<1>1. /\ store[j].status = "claimed" /\ store[j] \in Row /\ store[j].dev \in Devices
      /\ store' = [store EXCEPT ![j] = Finished(store[j], outcome, t)]
      /\ UNCHANGED clock
  BY DEF MemoryFinish, MemoryInv, JobInv
<1>2. /\ Finished(store[j], outcome, t).status = outcome
      /\ Finished(store[j], outcome, t).attempts = store[j].attempts
      /\ outcome # "expired" /\ outcome # "absent" /\ outcome # "claimed"
  BY <1>1 DEF Finished, Row, Outcomes
<1>3. /\ TableRow(store[j]) = store[j]
      /\ TableRow(Finished(store[j], outcome, t)) = Table!Finished(store[j], outcome, t)
  BY <1>1, <1>2 DEF TableRow, Finished, Table!Finished
<1>4. TableJobs' = [TableJobs EXCEPT ![j] = Table!Finished(@, outcome, t)]
  BY <1>1, <1>3 DEF TableJobs, MemoryInv
<1>5. TrailOf(Finished(store[j], outcome, t)) = [TrailOf(store[j]) EXCEPT ![outcome] = @ + 1]
  <2>1. Finished(store[j], outcome, t) \in Row
    <3>1. t \in Nat /\ outcome \in Statuses
      BY DEF MemoryInv, Statuses
    <3> QED
      BY <1>1, <3>1 DEF Finished, Row
  <2> QED
    BY <1>1, <1>2, <2>1, TrailFinished
<1>6. TableAudit' = [TableAudit EXCEPT ![j][outcome] = @ + 1]
  BY <1>1, <1>5 DEF TableAudit, MemoryInv
<1>7. TableJobs[j].dev = store[j].dev /\ TableJobs[j].status = "claimed"
  BY <1>1, <1>3 DEF TableJobs
<1>8. Table!Finish(store[j].dev, j, outcome, t)
  BY <1>1, <1>4, <1>6, <1>7
     DEF Table!Finish, Table!ActiveSince, Table!Audited, TableJobs, TableAudit
<1> QED
  BY <1>1, <1>8

LEMMA TableStep ==
  ASSUME MemoryInv, [MemoryJobsNext]_memoryJobsVars
  PROVE  [Table!Next]_<<TableJobs, [d \in Devices |-> None], TableAudit, clock>>
<1>1. ASSUME NEW o \in Orgs, NEW d \in Devices, NEW k \in Keys, NEW ttl \in TTLs,
             NEW t \in 0 .. clock, NEW j \in JobIds, MemoryCreate(o, d, k, ttl, t, j)
      PROVE  Table!Next
  BY <1>1, TableCreate DEF Table!Next
<1>2. ASSUME NEW d \in Devices, NEW t \in 0 .. clock, MemoryClaim(d, t)
      PROVE  Table!Next \/ UNCHANGED <<TableJobs, TableAudit, clock>>
  BY <1>2, TableClaim DEF Table!Next
<1>3. ASSUME NEW j \in JobIds, NEW outcome \in Outcomes, NEW t \in 0 .. clock,
             MemoryFinish(j, outcome, t)
      PROVE  Table!Next
  BY <1>3, TableFinish DEF Table!Next, Outcomes, Table!Outcomes
<1>4. CASE Advance /\ UNCHANGED <<store, order>>
  BY <1>4 DEF Advance, Table!Next, Table!Tick
<1>5. CASE UNCHANGED memoryJobsVars
  BY <1>5 DEF memoryJobsVars, TableJobs, TableAudit
<1> QED
  BY <1>1, <1>2, <1>3, <1>4, <1>5 DEF MemoryJobsNext

\* Every call of the in-memory store is a call of the job repository, or changes
\* nothing there: the promises proved of JobStore hold of it.
THEOREM MemoryStoreKeepsPromises == MemoryJobsSpec => MemoryImplementsJobStore
<1>1. MemoryInv /\ [MemoryJobsNext]_memoryJobsVars => [Table!Next]_Table!vars
  BY TableStep DEF Table!vars, TableJobs, TableAudit
<1> QED
  BY <1>1, MemoryInitInv, MemoryNextInv, TableInit, PTL
     DEF MemoryJobsSpec, MemoryImplementsJobStore, Table!Spec

-----------------------------------------------------------------------------
(* Package downloads. *)

Stream == [step : {"new", "refused", "open", "broken", "complete"},
           sent : Seq(Chunks), verified : BOOLEAN]

\* What was checked before anything is read still holds when it is handed out,
\* as nothing changes the record.
CheckedInv ==
  stream.step \in {"open", "complete"} \/ stream.sent # <<>>
    => package.approved /\ (NeedsVerifier => stream.verified)

PackageInv ==
  /\ package \in Package /\ drive \in Contents /\ stream \in Stream
  /\ stream.step = "complete" => stream.sent = package.expected
  /\ ~ TooLong(Len(stream.sent))
  /\ CheckedInv

\* The contents of files are sequences of chunks.
LEMMA ContentsAreSequences == Contents \subseteq Seq(Chunks)
<1> SUFFICES ASSUME NEW n \in 0 .. MaxChunks, NEW c \in [1 .. n -> Chunks]
             PROVE  c \in Seq(Chunks)
  BY DEF Contents
<1> QED
  BY LengthAssumption

LEMMA PackageInitInv == PackageInit => PackageInv
<1> SUFFICES ASSUME PackageInit PROVE PackageInv
  OBVIOUS
<1>1. package \in Package /\ drive \in Contents /\ stream \in Stream
  BY DEF PackageInit, Stream
<1>2. Len(package.expected) \in Nat
  BY <1>1, ContentsAreSequences DEF Package
<1>3. ~ TooLong(Len(stream.sent))
  BY <1>2, LengthAssumption DEF PackageInit, TooLong
<1> QED
  BY <1>1, <1>3 DEF PackageInit, PackageInv, CheckedInv

LEMMA PackageNextInv == PackageInv /\ [PackageNext]_packageVars => PackageInv'
<1> SUFFICES ASSUME PackageInv, [PackageNext]_packageVars PROVE PackageInv'
  OBVIOUS
<1>1. ASSUME NEW valid \in BOOLEAN, Open(valid)
      PROVE  PackageInv'
  BY <1>1 DEF Open, Approved, PackageInv, Stream, CheckedInv, NeedsVerifier, TooLong
<1>2. CASE PassChunk
  <2>1. drive[Len(stream.sent) + 1] \in Chunks
    <3>1. drive \in Seq(Chunks) /\ stream.sent \in Seq(Chunks)
      BY ContentsAreSequences DEF PackageInv, Stream
    <3> QED
      BY <1>2, <3>1 DEF PassChunk
  <2>2. CASE TooLong(Len(stream.sent) + 1)
    BY <1>2, <2>2 DEF PassChunk, PackageInv, Stream, CheckedInv, NeedsVerifier, TooLong
  <2>3. CASE ~ TooLong(Len(stream.sent) + 1)
    <3>1. stream' = [stream EXCEPT !.sent = Append(@, drive[Len(stream.sent) + 1])]
      BY <1>2, <2>3 DEF PassChunk
    <3>2. /\ stream' \in Stream
          /\ Len(stream'.sent) = Len(stream.sent) + 1
          /\ stream'.step = "open" /\ stream.step = "open"
          /\ stream'.verified = stream.verified
      BY <1>2, <2>1, <3>1 DEF PassChunk, PackageInv, Stream
    <3> QED
      BY <1>2, <2>3, <3>2 DEF PassChunk, PackageInv, CheckedInv, NeedsVerifier, TooLong
  <2> QED
    BY <2>2, <2>3
<1>3. CASE EndStream
  BY <1>3 DEF EndStream, EndOf, Matches, PackageInv, Stream, CheckedInv, NeedsVerifier, TooLong
<1>4. CASE BreakStream
  BY <1>4 DEF BreakStream, PackageInv, Stream, CheckedInv, NeedsVerifier, TooLong
<1>5. ASSUME NEW content \in Contents, ChangeDrive(content)
      PROVE  PackageInv'
  BY <1>5 DEF ChangeDrive, PackageInv, Stream, CheckedInv, NeedsVerifier, TooLong
<1>6. CASE UNCHANGED packageVars
  BY <1>6 DEF packageVars, PackageInv, Stream, CheckedInv, NeedsVerifier, TooLong
<1> QED
  BY <1>1, <1>2, <1>3, <1>4, <1>5, <1>6 DEF PackageNext

\* A stream that ended normally gave exactly the content of the record, and no
\* stream gave more than the limits or anything of a package that was not
\* approved, however the file on the drive changed meanwhile.
THEOREM StreamsAreExact == PackageSpec => []CompleteStreamsAreExact
<1>1. PackageInv => CompleteStreamsAreExact
  BY DEF PackageInv, CheckedInv, CompleteStreamsAreExact
<1> QED
  BY <1>1, PackageInitInv, PackageNextInv, PTL DEF PackageSpec

-----------------------------------------------------------------------------
(* Approved folders. *)

Upload == [step : {"new", "writing", "done", "failed"}, path : Paths \cup {Nil}, size : Nat]
Download == [step : {"new", "reading", "done"}, file : Uploads \cup {Nil}, got : Nat]
Delete == [step : {"new", "found", "done"}, path : Paths \cup {Nil}]

FolderTypes ==
  /\ named \in [Paths -> Uploads \cup {Nil}]
  /\ written \in [Uploads -> Nat]
  /\ upload \in [Uploads -> Upload]
  /\ download \in [Downloads -> Download]
  /\ delete \in [Deletes -> Delete]
  /\ quarantine \in SUBSET ((Deletes \X Paths) \X Uploads)

\* A file grows to its size, which the limit allows, while only its upload knows it.
WrittenInv(u) ==
  /\ written[u] <= MaxSize
  /\ upload[u].step = "new" => written[u] = 0
  /\ upload[u].step = "writing" => written[u] <= upload[u].size
  /\ upload[u].step = "done" => written[u] = upload[u].size
  /\ upload[u].step \in {"writing", "done"} => upload[u].path \in Paths

\* Only complete files have a name, that of their upload.
NamedInv(p) ==
  named[p] # Nil => upload[named[p]].step = "done" /\ upload[named[p]].path = p

\* Files are read by their own identity and only once they are complete.
DownloadInv(r) ==
  download[r].step # "new" =>
    /\ download[r].file \in Uploads
    /\ upload[download[r].file].step = "done"
    /\ download[r].got <= written[download[r].file]
    /\ download[r].step = "done" => download[r].got = written[download[r].file]

AccountedInv(u) ==
  upload[u].step = "done" =>
    \/ named[upload[u].path] = u
    \/ \E e \in quarantine : e[2] = u
    \/ u \in replaced

\* The name a quarantine will use is not in use.
DeleteInv(q) ==
  /\ delete[q].step = "found" => delete[q].path \in Paths
  /\ delete[q].step # "done" => \A e \in quarantine : e[1][1] # q

FolderInv ==
  /\ FolderTypes
  /\ \A u \in Uploads : WrittenInv(u) /\ AccountedInv(u)
  /\ \A p \in Paths : NamedInv(p)
  /\ \A r \in Downloads : DownloadInv(r)
  /\ \A q \in Deletes : DeleteInv(q)

LEMMA FolderInitInv == FolderInit => FolderInv
BY FolderAssumption
   DEF FolderInit, Idle, FolderInv, FolderTypes, Upload, Download, Delete, WrittenInv, AccountedInv,
       NamedInv, DownloadInv, DeleteInv

(***************************************************************************)
(* A step that changes upload u only, before it is complete.               *)
(***************************************************************************)
LEMMA UnfinishedUpload ==
  ASSUME FolderInv, NEW u \in Uploads, NEW row \in Upload, NEW n \in Nat,
         upload' = [upload EXCEPT ![u] = row], written' = [written EXCEPT ![u] = n],
         upload[u].step # "done", row.step # "done", row.step # "new",
         n <= MaxSize,
         row.step = "writing" => n <= row.size /\ row.path \in Paths,
         UNCHANGED <<named, quarantine, download, delete, replaced>>
  PROVE  FolderInv'
<1>1. FolderTypes'
  BY DEF FolderInv, FolderTypes
<1>2. ASSUME NEW v \in Uploads
      PROVE  (WrittenInv(v) /\ AccountedInv(v))'
  BY DEF FolderInv, FolderTypes, WrittenInv, AccountedInv
<1>3. ASSUME NEW p \in Paths
      PROVE  NamedInv(p)'
  <2>1. named[p] # Nil => named[p] \in Uploads /\ named[p] # u
    BY DEF FolderInv, FolderTypes, NamedInv
  <2> QED
    BY <2>1 DEF FolderInv, FolderTypes, NamedInv
<1>4. ASSUME NEW r \in Downloads
      PROVE  DownloadInv(r)'
  <2>1. download[r].step # "new" => download[r].file \in Uploads /\ download[r].file # u
    BY DEF FolderInv, DownloadInv
  <2> QED
    BY <2>1 DEF FolderInv, FolderTypes, DownloadInv
<1>5. ASSUME NEW q \in Deletes
      PROVE  DeleteInv(q)'
  BY DEF FolderInv, DeleteInv
<1> QED
  BY <1>1, <1>2, <1>3, <1>4, <1>5 DEF FolderInv

LEMMA OpenTemporaryInv ==
  ASSUME FolderInv, NEW u \in Uploads, NEW p \in Paths, NEW size \in Sizes,
         OpenTemporary(u, p, size)
  PROVE  FolderInv'
<1>0. [step |-> "writing", path |-> p, size |-> size] \in Upload
  BY FolderAssumption DEF Upload
<1> PICK row \in Upload : row = [step |-> "writing", path |-> p, size |-> size]
  BY <1>0
<1>1. upload' = [upload EXCEPT ![u] = row]
  BY DEF OpenTemporary
<1>2. /\ written[u] = 0 /\ written[u] \in Nat /\ upload[u].step = "new"
      /\ written' = [written EXCEPT ![u] = written[u]]
      /\ UNCHANGED <<named, quarantine, download, delete, replaced>>
  BY DEF OpenTemporary, FolderInv, FolderTypes, WrittenInv
<1>3. /\ row.step = "writing" /\ row.path \in Paths
      /\ written[u] <= row.size /\ written[u] <= MaxSize
  BY <1>0, <1>2, FolderAssumption DEF Upload
<1> QED
  BY <1>1, <1>2, <1>3, UnfinishedUpload

LEMMA WriteChunkInv ==
  ASSUME FolderInv, NEW u \in Uploads, WriteChunk(u)
  PROVE  FolderInv'
<1>1. /\ upload[u] \in Upload /\ upload[u].step = "writing" /\ written[u] \in Nat
      /\ WrittenInv(u)
  BY DEF WriteChunk, FolderInv, FolderTypes
<1>2. CASE written[u] + 1 > MaxSize
  <2> DEFINE row == [upload[u] EXCEPT !.step = "failed"]
  <2>1. row \in Upload /\ row.step = "failed" /\ upload' = [upload EXCEPT ![u] = row]
    BY <1>1, <1>2 DEF WriteChunk, Upload
  <2>2. written' = [written EXCEPT ![u] = written[u]]
    BY <1>2 DEF WriteChunk, FolderInv, FolderTypes
  <2> QED
    BY <1>1, <2>1, <2>2, UnfinishedUpload DEF WriteChunk, WrittenInv
<1>3. CASE ~ (written[u] + 1 > MaxSize)
  <2>1. upload' = [upload EXCEPT ![u] = upload[u]]
    BY <1>3 DEF WriteChunk, FolderInv, FolderTypes
  <2>2. /\ written[u] + 1 \in Nat /\ written[u] + 1 <= MaxSize
        /\ written[u] + 1 <= upload[u].size
        /\ written' = [written EXCEPT ![u] = written[u] + 1]
    BY <1>1, <1>3, FolderAssumption DEF WriteChunk, Upload
  <2> QED
    BY <1>1, <2>1, <2>2, UnfinishedUpload DEF WriteChunk, WrittenInv
<1> QED
  BY <1>2, <1>3

LEMMA BreakUploadInv ==
  ASSUME FolderInv, NEW u \in Uploads, BreakUpload(u)
  PROVE  FolderInv'
<1> DEFINE row == [upload[u] EXCEPT !.step = "failed"]
<1>1. /\ upload[u] \in Upload /\ upload[u].step = "writing" /\ written[u] \in Nat
      /\ WrittenInv(u)
  BY DEF BreakUpload, FolderInv, FolderTypes
<1>2. row \in Upload /\ row.step = "failed" /\ upload' = [upload EXCEPT ![u] = row]
  BY <1>1 DEF BreakUpload, Upload
<1>3. written' = [written EXCEPT ![u] = written[u]]
  BY DEF BreakUpload, FolderInv, FolderTypes
<1> QED
  BY <1>1, <1>2, <1>3, UnfinishedUpload DEF BreakUpload, WrittenInv

(***************************************************************************)
(* The rename: the file that loses its name is recorded as replaced.       *)
(***************************************************************************)
LEMMA ReplaceInv ==
  ASSUME FolderInv, NEW u \in Uploads, Replace(u)
  PROVE  FolderInv'
<1> DEFINE p == upload[u].path
<1>1. /\ p \in Paths /\ upload[u].step = "writing" /\ upload[u] \in Upload
      /\ written[u] = upload[u].size
  BY DEF Replace, FolderInv, FolderTypes, WrittenInv
<1>2. /\ upload' = [upload EXCEPT ![u] = [upload[u] EXCEPT !.step = "done"]]
      /\ named' = [named EXCEPT ![p] = u]
      /\ named[p] # Nil => named[p] \in replaced'
      /\ replaced \subseteq replaced'
      /\ UNCHANGED <<quarantine, written, download, delete>>
  BY DEF Replace
<1>3. /\ upload'[u] \in Upload /\ upload'[u].step = "done" /\ upload'[u].path = p
      /\ upload'[u].size = upload[u].size
      /\ \A v \in Uploads : v # u => upload'[v] = upload[v]
  BY <1>1, <1>2 DEF FolderInv, FolderTypes, Upload
<1>4. FolderTypes'
  BY <1>1, <1>2, <1>3 DEF FolderInv, FolderTypes
<1>5. ASSUME NEW v \in Uploads
      PROVE  WrittenInv(v)'
  BY <1>1, <1>2, <1>3 DEF FolderInv, WrittenInv
<1>6. ASSUME NEW v \in Uploads
      PROVE  AccountedInv(v)'
  <2>1. CASE v = u
    BY <1>1, <1>2, <1>3, <2>1 DEF FolderInv, FolderTypes, AccountedInv
  <2>2. CASE v # u /\ upload[v].step = "done"
    <3>1. upload'[v] = upload[v] /\ upload[v].path \in Paths
      BY <1>3, <2>2 DEF FolderInv, WrittenInv
    <3>2. CASE upload[v].path = p /\ named[p] = v
      BY <1>1, <1>2, <2>2, <3>1, <3>2, FolderAssumption DEF AccountedInv
    <3>3. CASE ~ (upload[v].path = p /\ named[p] = v)
      BY <1>1, <1>2, <2>2, <3>1, <3>3 DEF FolderInv, FolderTypes, AccountedInv
    <3> QED
      BY <3>2, <3>3
  <2>3. CASE v # u /\ upload[v].step # "done"
    BY <1>3, <2>3 DEF AccountedInv
  <2> QED
    BY <2>1, <2>2, <2>3
<1>7. ASSUME NEW n \in Paths
      PROVE  NamedInv(n)'
  BY <1>1, <1>2, <1>3 DEF FolderInv, FolderTypes, NamedInv
<1>8. ASSUME NEW r \in Downloads
      PROVE  DownloadInv(r)'
  BY <1>2, <1>3 DEF FolderInv, DownloadInv
<1>9. ASSUME NEW q \in Deletes
      PROVE  DeleteInv(q)'
  BY <1>2 DEF FolderInv, DeleteInv
<1> QED
  BY <1>4, <1>5, <1>6, <1>7, <1>8, <1>9 DEF FolderInv

LEMMA UnlinkInv ==
  ASSUME FolderInv, NEW u \in Uploads, Unlink(u)
  PROVE  FolderInv'
BY DEF Unlink, FolderInv, FolderTypes, WrittenInv, AccountedInv, NamedInv, DownloadInv, DeleteInv

(***************************************************************************)
(* Downloads and quarantines.                                              *)
(***************************************************************************)
LEMMA DownloadStep ==
  ASSUME FolderInv, NEW r \in Downloads, NEW row \in Download,
         download' = [download EXCEPT ![r] = row],
         row.step # "new" =>
           /\ row.file \in Uploads
           /\ upload[row.file].step = "done"
           /\ row.got <= written[row.file]
           /\ row.step = "done" => row.got = written[row.file],
         UNCHANGED <<named, quarantine, written, upload, delete, replaced>>
  PROVE  FolderInv'
<1>1. FolderTypes'
  BY DEF FolderInv, FolderTypes
<1>2. ASSUME NEW s \in Downloads
      PROVE  DownloadInv(s)'
  BY DEF FolderInv, FolderTypes, DownloadInv
<1> QED
  BY <1>1, <1>2 DEF FolderInv, WrittenInv, AccountedInv, NamedInv, DeleteInv

LEMMA OpenDownloadInv ==
  ASSUME FolderInv, NEW r \in Downloads, NEW p \in Paths, OpenDownload(r, p)
  PROVE  FolderInv'
<1> DEFINE row == [step |-> "reading", file |-> named[p], got |-> 0]
<1>1. /\ row \in Download /\ row.file \in Uploads /\ upload[row.file].step = "done"
      /\ written[row.file] \in Nat
  BY DEF OpenDownload, FolderInv, FolderTypes, NamedInv, Download
<1>2. row.got <= written[row.file]
  BY <1>1
<1> QED
  BY <1>1, <1>2, DownloadStep DEF OpenDownload

LEMMA ReadChunkInv ==
  ASSUME FolderInv, NEW r \in Downloads, ReadChunk(r)
  PROVE  FolderInv'
<1> DEFINE file == download[r].file
<1>1. /\ download[r] \in Download /\ file \in Uploads /\ upload[file].step = "done"
      /\ download[r].got <= written[file] /\ written[file] \in Nat /\ download[r].got \in Nat
      /\ download[r].step = "reading"
      /\ UNCHANGED <<named, quarantine, written, upload, delete, replaced>>
  BY DEF ReadChunk, FolderInv, FolderTypes, DownloadInv, Download
<1>2. CASE download[r].got < written[file]
  <2>1. [download[r] EXCEPT !.got = download[r].got + 1] \in Download
    BY <1>1 DEF Download
  <2>2. PICK row \in Download : row = [download[r] EXCEPT !.got = download[r].got + 1]
    BY <2>1
  <2>3. /\ row.file = file /\ row.step = "reading"
        /\ row.got = download[r].got + 1 /\ row.got <= written[file]
    BY <1>1, <1>2, <2>2 DEF Download
  <2>4. download' = [download EXCEPT ![r] = row]
    BY <1>2, <2>2 DEF ReadChunk
  <2> QED
    BY <1>1, <2>3, <2>4, DownloadStep
<1>3. CASE ~ (download[r].got < written[file])
  <2>1. [download[r] EXCEPT !.step = "done"] \in Download
    BY <1>1 DEF Download
  <2>2. PICK row \in Download : row = [download[r] EXCEPT !.step = "done"]
    BY <2>1
  <2>3. /\ row.file = file /\ row.step = "done"
        /\ row.got = written[file] /\ row.got <= written[file]
    BY <1>1, <1>3, <2>2 DEF Download
  <2>4. download' = [download EXCEPT ![r] = row]
    BY <1>3, <2>2 DEF ReadChunk
  <2> QED
    BY <1>1, <2>3, <2>4, DownloadStep
<1> QED
  BY <1>2, <1>3

LEMMA FindFileInv ==
  ASSUME FolderInv, NEW q \in Deletes, NEW p \in Paths, FindFile(q, p)
  PROVE  FolderInv'
<1>1. FolderTypes'
  BY DEF FindFile, FolderInv, FolderTypes, Delete
<1>2. ASSUME NEW s \in Deletes
      PROVE  DeleteInv(s)'
  BY DEF FindFile, FolderInv, FolderTypes, DeleteInv
<1> QED
  BY <1>1, <1>2 DEF FindFile, FolderInv, WrittenInv, AccountedInv, NamedInv, DownloadInv

LEMMA MoveInv ==
  ASSUME FolderInv, NEW q \in Deletes, Move(q)
  PROVE  FolderInv'
<1> DEFINE p == delete[q].path
           moved == <<QuarantineName(q, p), named[p]>>
<1>1. p \in Paths /\ delete[q].step = "found" /\ delete[q] \in Delete
  BY DEF Move, FolderInv, FolderTypes, DeleteInv
<1>2. /\ delete' = [delete EXCEPT ![q] = [delete[q] EXCEPT !.step = "done"]]
      /\ UNCHANGED <<written, upload, download, replaced>>
  BY DEF Move
<1>3. /\ delete'[q] \in Delete /\ delete'[q].step = "done"
      /\ \A s \in Deletes : s # q => delete'[s] = delete[s]
      /\ delete' \in [Deletes -> Delete]
  BY <1>1, <1>2 DEF FolderInv, FolderTypes, Delete
<1>4. CASE named[p] = Nil
  <2>1. UNCHANGED <<named, quarantine>>
    BY <1>4 DEF Move
  <2> QED
    BY <1>2, <1>3, <2>1
       DEF FolderInv, FolderTypes, WrittenInv, AccountedInv, NamedInv, DownloadInv, DeleteInv
<1>5. CASE named[p] # Nil
  <2>1. named' = [named EXCEPT ![p] = Nil]
    BY <1>5 DEF Move
  <2>2. quarantine' = quarantine \cup {moved}
    <3>1. ASSUME NEW e \in quarantine
          PROVE  e[1] # QuarantineName(q, p)
      BY <1>1 DEF FolderInv, FolderTypes, DeleteInv, QuarantineName
    <3>2. quarantine' = {e \in quarantine : e[1] # QuarantineName(q, p)} \cup {moved}
      BY <1>5 DEF Move
    <3> QED
      BY <3>1, <3>2
  <2>3. named[p] \in Uploads /\ moved \in (Deletes \X Paths) \X Uploads
    BY <1>1, <1>5 DEF FolderInv, FolderTypes, QuarantineName
  <2>4. FolderTypes'
    BY <1>2, <1>3, <2>1, <2>2, <2>3 DEF FolderInv, FolderTypes
  <2>5. ASSUME NEW u \in Uploads
        PROVE  AccountedInv(u)'
    <3>1. CASE upload[u].step = "done" /\ upload[u].path = p /\ named[p] = u
      <4>1. moved \in quarantine' /\ moved[2] = u
        BY <2>2, <3>1
      <4> QED
        BY <4>1 DEF AccountedInv
    <3>2. CASE upload[u].step = "done" /\ ~ (upload[u].path = p /\ named[p] = u)
      <4>1. upload[u].path \in Paths
        BY <3>2 DEF FolderInv, WrittenInv
      <4> QED
        BY <1>1, <1>2, <2>1, <2>2, <3>2, <4>1 DEF FolderInv, FolderTypes, AccountedInv
    <3>3. CASE upload[u].step # "done"
      BY <1>2, <3>3 DEF AccountedInv
    <3> QED
      BY <3>1, <3>2, <3>3
  <2>6. ASSUME NEW n \in Paths
        PROVE  NamedInv(n)'
    BY <1>2, <2>1 DEF FolderInv, FolderTypes, NamedInv
  <2>7. ASSUME NEW s \in Deletes
        PROVE  DeleteInv(s)'
    BY <1>3, <2>2 DEF FolderInv, DeleteInv, QuarantineName
  <2> QED
    BY <1>2, <2>4, <2>5, <2>6, <2>7 DEF FolderInv, WrittenInv, DownloadInv
<1> QED
  BY <1>4, <1>5

LEMMA FolderNextInv == FolderInv /\ [FolderNext]_folderVars => FolderInv'
<1> SUFFICES ASSUME FolderInv, [FolderNext]_folderVars PROVE FolderInv'
  OBVIOUS
<1>1. CASE UNCHANGED folderVars
  BY <1>1
     DEF folderVars, FolderInv, FolderTypes, WrittenInv, AccountedInv, NamedInv, DownloadInv, DeleteInv
<1> QED
  BY <1>1, OpenTemporaryInv, WriteChunkInv, BreakUploadInv, ReplaceInv, UnlinkInv,
     OpenDownloadInv, ReadChunkInv, FindFileInv, MoveInv
     DEF FolderNext

LEMMA FolderInvHolds == FolderSpec => []FolderInv
BY FolderInitInv, FolderNextInv, PTL DEF FolderSpec

\* What a download gave is one uploaded content in full, however the names of
\* files moved while it was read, and within the limit of the policy.
THEOREM FilesAreReadWhole == FolderSpec => []DownloadsAreWhole
<1>1. FolderInv => DownloadsAreWhole
  BY DEF FolderInv, DownloadInv, WrittenInv, DownloadsAreWhole
<1> QED
  BY <1>1, FolderInvHolds, PTL

\* No acknowledged upload disappears: a later one took its name or it is in the
\* quarantine, under a name no other move uses.
THEOREM FilesAreNotLost == FolderSpec => []UploadsAreAccountedFor
<1>1. FolderInv => UploadsAreAccountedFor
  BY DEF FolderInv, AccountedInv, UploadsAreAccountedFor
<1> QED
  BY <1>1, FolderInvHolds, PTL

-----------------------------------------------------------------------------
(* Access checks. *)

Call == [step : {"new", "verified", "resolved", "accepted", "refused"},
         user : Users \cup {Nil}, org : Organizations \cup {Nil},
         role : AppRole \cup {Nil}, body : Body \cup {Nil}]

AccessTypes ==
  /\ database \in BOOLEAN
  /\ members \in [Users -> Seq(Membership)]
  /\ call \in [Calls -> Call]
  /\ DOMAIN held = Calls

\* While a request is handled, its history has what its user may command now.
\* The role it got was one of those at the time, and it keeps that role although
\* the membership may be gone.
CallInv(c) ==
  /\ call[c].step \in {"verified", "resolved"} =>
       /\ call[c].user \in Users
       /\ CommandedBy(members[call[c].user]) \subseteq held[c]
  /\ call[c].step = "resolved" /\ database /\ call[c].role \in {"owner", "administrator"}
       => call[c].org \in held[c]
  /\ call[c].step = "accepted" => call[c].org \in held[c] /\ Valid(call[c].body)

AccessInv == AccessTypes /\ \A c \in Calls : CallInv(c)

(***************************************************************************)
(* Lists of memberships.                                                   *)
(***************************************************************************)

LEMMA FirstCommands ==
  ASSUME NEW s \in Seq(Membership), s # <<>>, s[1].role \in {"owner", "administrator"}
  PROVE  s[1].org \in CommandedBy(s)
<1>1. 1 \in DOMAIN s
  OBVIOUS
<1> QED
  BY <1>1 DEF CommandedBy

LEMMA AlteredType ==
  ASSUME NEW s \in Seq(Membership), NEW t \in Altered(s)
  PROVE  t \in Seq(Membership)
<1>1. ASSUME NEW m \in Membership
      PROVE  Append(s, m) \in Seq(Membership)
  OBVIOUS
<1>2. ASSUME NEW i \in DOMAIN s
      PROVE  SubSeq(s, 1, i - 1) \o SubSeq(s, i + 1, Len(s)) \in Seq(Membership)
  <2>1. /\ SubSeq(s, 1, i - 1) \in Seq(Membership)
        /\ SubSeq(s, i + 1, Len(s)) \in Seq(Membership)
    OBVIOUS
  <2> QED
    BY <2>1
<1>3. ASSUME NEW i \in DOMAIN s, NEW r \in AppRole
      PROVE  [s EXCEPT ![i].role = r] \in Seq(Membership)
  <2>1. s[i] \in Membership
    OBVIOUS
  <2>2. [s[i] EXCEPT !.role = r] \in Membership
    BY <2>1 DEF Membership
  <2> QED
    BY <2>2
<1>4. CASE t \in Added(s)
  BY <1>1, <1>4 DEF Added
<1>5. CASE t \in Removed(s)
  BY <1>2, <1>5 DEF Removed
<1>6. CASE t \in Changed(s)
  BY <1>3, <1>6 DEF Changed
<1> QED
  BY <1>4, <1>5, <1>6 DEF Altered

(***************************************************************************)
(* The invariant.                                                          *)
(***************************************************************************)

LEMMA AccessInitInv == AccessInit => AccessInv
BY DEF AccessInit, AccessInv, AccessTypes, CallInv, Call, NoCall

LEMMA VerifyInv ==
  ASSUME AccessInv, NEW c \in Calls, NEW claims \in Claims, NEW body \in Body \cup {Nil},
         Verify(c, claims, body)
  PROVE  AccessInv'
<1>1. AccessTypes'
  BY DEF Verify, Claims, AccessInv, AccessTypes, Call
<1>2. ASSUME NEW e \in Calls
      PROVE  CallInv(e)'
  <2>1. CASE e = c
    BY <2>1 DEF Verify, Claims, AccessInv, AccessTypes, CallInv, CommandedBy
  <2>2. CASE e # c
    BY <2>2 DEF Verify, AccessInv, AccessTypes, CallInv, CommandedBy, Valid
  <2> QED
    BY <2>1, <2>2
<1> QED
  BY <1>1, <1>2 DEF AccessInv

LEMMA RefusedInv ==
  ASSUME AccessInv, NEW c \in Calls, call' = Refused(c),
         UNCHANGED <<database, members, held>>
  PROVE  AccessInv'
<1>1. AccessTypes'
  BY DEF Refused, AccessInv, AccessTypes, Call
<1>2. ASSUME NEW e \in Calls
      PROVE  CallInv(e)'
  <2>1. CASE e = c
    BY <2>1 DEF Refused, AccessInv, AccessTypes, CallInv
  <2>2. CASE e # c
    BY <2>2 DEF Refused, AccessInv, AccessTypes, CallInv, CommandedBy, Valid
  <2> QED
    BY <2>1, <2>2
<1> QED
  BY <1>1, <1>2 DEF AccessInv

LEMMA CurrentUserInv ==
  ASSUME AccessInv, NEW c \in Calls, CurrentUser(c)
  PROVE  AccessInv'
<1> DEFINE user == call[c].user
<1>1. user \in Users /\ CommandedBy(members[user]) \subseteq held[c]
  BY DEF CurrentUser, AccessInv, CallInv
<1>2. CASE call' = Refused(c)
  BY <1>2, RefusedInv DEF CurrentUser
<1>3. CASE /\ ~ database
           /\ call' = [call EXCEPT ![c].step = "resolved"]
  <2>1. AccessTypes'
    BY <1>3 DEF CurrentUser, AccessInv, AccessTypes, Call
  <2>2. ASSUME NEW e \in Calls
        PROVE  CallInv(e)'
    <3>1. CASE e = c
      BY <1>1, <1>3, <3>1 DEF CurrentUser, AccessInv, AccessTypes, CallInv, CommandedBy
    <3>2. CASE e # c
      BY <1>3, <3>2 DEF CurrentUser, AccessInv, AccessTypes, CallInv, CommandedBy, Valid
    <3> QED
      BY <3>1, <3>2
  <2> QED
    BY <2>1, <2>2 DEF AccessInv
<1>4. CASE /\ members[user] # <<>>
           /\ call' = [call EXCEPT ![c].step = "resolved", ![c].org = members[user][1].org,
                                   ![c].role = members[user][1].role]
  <2>1. members[user] \in Seq(Membership) /\ members[user][1] \in Membership
    BY <1>1, <1>4 DEF AccessInv, AccessTypes
  <2>2. AccessTypes'
    BY <1>4, <2>1 DEF CurrentUser, AccessInv, AccessTypes, Call, Membership
  <2>3. /\ call'[c].step = "resolved" /\ call'[c].user = user
        /\ call'[c].org = members[user][1].org /\ call'[c].role = members[user][1].role
        /\ \A e \in Calls \ {c} : call'[e] = call[e]
        /\ UNCHANGED <<database, members, held>>
    BY <1>4 DEF CurrentUser, AccessInv, AccessTypes, Call
  <2>4. members[user][1].role \in {"owner", "administrator"}
          => members[user][1].org \in held[c]
    BY <1>1, <1>4, <2>1, FirstCommands
  <2>5. ASSUME NEW e \in Calls
        PROVE  CallInv(e)'
    <3>1. CASE e = c
      BY <1>1, <2>3, <2>4, <3>1 DEF CallInv, CommandedBy
    <3>2. CASE e # c
      BY <2>3, <3>2 DEF AccessInv, CallInv, CommandedBy, Valid
    <3> QED
      BY <3>1, <3>2
  <2> QED
    BY <2>2, <2>5 DEF AccessInv
<1> QED
  BY <1>2, <1>3, <1>4 DEF CurrentUser, Resolved

LEMMA HandleInv ==
  ASSUME AccessInv, NEW c \in Calls, Handle(c)
  PROVE  AccessInv'
<1>1. CASE call' = Refused(c)
  BY <1>1, RefusedInv DEF Handle
<1>2. CASE Permitted(c) /\ call' = [call EXCEPT ![c].step = "accepted"]
  <2>1. AccessTypes'
    <3>1. [call[c] EXCEPT !.step = "accepted"] \in Call
      BY DEF AccessInv, AccessTypes, Call
    <3> QED
      BY <1>2, <3>1 DEF Handle, AccessInv, AccessTypes
  <2>2. ASSUME NEW e \in Calls
        PROVE  CallInv(e)'
    <3>1. CASE e = c
      BY <1>2, <3>1 DEF Handle, Permitted, AccessInv, AccessTypes, CallInv, Valid
    <3>2. CASE e # c
      BY <1>2, <3>2 DEF Handle, AccessInv, AccessTypes, CallInv, CommandedBy, Valid
    <3> QED
      BY <3>1, <3>2
  <2> QED
    BY <2>1, <2>2 DEF AccessInv
<1> QED
  BY <1>1, <1>2 DEF Handle

LEMMA ChangeMembersInv ==
  ASSUME AccessInv, NEW u \in Users, NEW s \in Altered(members[u]), ChangeMembers(u, s)
  PROVE  AccessInv'
<1>1. s \in Seq(Membership)
  BY AlteredType DEF AccessInv, AccessTypes
<1>2. AccessTypes'
  BY <1>1 DEF ChangeMembers, AccessInv, AccessTypes
<1>3. ASSUME NEW c \in Calls
      PROVE  CallInv(c)'
  <2>1. held[c] \subseteq held'[c]
    BY DEF ChangeMembers, AccessInv, AccessTypes
  <2>2. CASE call[c].user = u /\ call[c].step # "accepted"
    <3>1. members'[u] = s /\ CommandedBy(s) \subseteq held'[c]
      BY <2>2 DEF ChangeMembers, AccessInv, AccessTypes
    <3> QED
      BY <2>1, <2>2, <3>1 DEF ChangeMembers, AccessInv, CallInv, CommandedBy
  <2>3. CASE call[c].step = "accepted"
    BY <2>1, <2>3 DEF ChangeMembers, AccessInv, CallInv, Valid
  <2>4. CASE call[c].user # u
    BY <2>1, <2>4 DEF ChangeMembers, AccessInv, AccessTypes, CallInv, CommandedBy, Valid
  <2> QED
    BY <2>2, <2>3, <2>4
<1> QED
  BY <1>2, <1>3 DEF AccessInv

LEMMA AccessNextInv == AccessInv /\ [AccessNext]_accessVars => AccessInv'
<1> SUFFICES ASSUME AccessInv, [AccessNext]_accessVars PROVE AccessInv'
  OBVIOUS
<1>1. ASSUME NEW c \in Calls, Reject(c)
      PROVE  AccessInv'
  BY <1>1, RefusedInv DEF Reject, Refused
<1>2. CASE UNCHANGED accessVars
  BY <1>2 DEF accessVars, AccessInv, AccessTypes, CallInv, CommandedBy, Valid
<1> QED
  BY <1>1, <1>2, VerifyInv, CurrentUserInv, HandleInv, ChangeMembersInv DEF AccessNext

\* Commands come from somebody who was an owner or administrator of the
\* organization while the request was handled, however memberships changed.
THEOREM CommandsAreAuthorized == AccessSpec => []CommandsNeedMembership
<1>1. AccessInv => CommandsNeedMembership
  BY DEF AccessInv, CallInv, Valid, CommandsNeedMembership
<1> QED
  BY <1>1, AccessInitInv, AccessNextInv, PTL DEF AccessSpec

-----------------------------------------------------------------------------
(* The in-memory enrollment store implements DeviceRegistry. *)

Enrollment == [token : MTokens, device : MDevices, at : Nat]
Beat == [device : MDevices, observed : Nat]

\* A token that is not sold names no device; one that was never issued has no
\* lifetime.
TokenInv(tk) ==
  /\ tokenOf[tk].state = "unknown" => tokenOf[tk].expires = 0
  /\ tokenOf[tk].state # "sold" => tokenOf[tk].device = Nil

\* An enrollment that is half done has a token no other call can consume, and a
\* device id no other call uses.
EnrollmentInv(e) ==
  /\ tokenOf[e.token].state = "sold"
  /\ tokenOf[e.token].device = Nil
  /\ tokenOf[e.token].expires > e.at
  /\ e.at <= clock
  /\ deviceOf[e.device].status = "unknown"

BeatInv(b) ==
  /\ deviceOf[b.device].status = "online"
  /\ b.observed <= clock + MSkew

EnrollingInv ==
  /\ tokenOf \in [MTokens -> MToken]
  /\ deviceOf \in [MDevices -> MDevice]
  /\ enrolling \subseteq Enrollment
  /\ beating \subseteq Beat
  /\ clock \in Nat
  /\ \A tk \in MTokens : TokenInv(tk)
  /\ \A e \in enrolling : EnrollmentInv(e)
  /\ \A e, f \in enrolling : e.token = f.token \/ e.device = f.device => e = f
  /\ \A b \in beating : BeatInv(b)

LEMMA EnrollingInitInv ==
  MemoryEnrollmentInit /\ ClockInit => EnrollingInv /\ Registry!Init
<1> SUFFICES ASSUME MemoryEnrollmentInit, ClockInit PROVE EnrollingInv /\ Registry!Init
  OBVIOUS
<1>1. /\ tokenOf = [tk \in MTokens |-> [state |-> "unknown", expires |-> 0, device |-> Nil]]
      /\ deviceOf = [d \in MDevices |-> [status |-> "unknown", seen |-> 0]]
      /\ enrolling = {} /\ beating = {} /\ clock = 0
  BY DEF MemoryEnrollmentInit, ClockInit
<1>2. EnrollingInv
  <2>1. tokenOf \in [MTokens -> MToken] /\ deviceOf \in [MDevices -> MDevice]
    BY <1>1 DEF MToken, MDevice
  <2>2. \A tk \in MTokens : TokenInv(tk)
    BY <1>1 DEF TokenInv
  <2> QED
    BY <1>1, <2>1, <2>2 DEF EnrollingInv
<1>3. Registry!Init
  BY <1>1 DEF Registry!Init, Registry!NoDevice
<1> QED
  BY <1>2, <1>3

\* The rows of the tokens and devices a step does not name stay.
LEMMA AddTokenStep ==
  ASSUME EnrollingInv, NEW tk \in MTokens, NEW ttl \in MTTLs, AddToken(tk, ttl)
  PROVE  EnrollingInv' /\ Registry!IssueToken(tk, ttl)
<1> DEFINE row == [state |-> "valid", expires |-> clock + ttl, device |-> Nil]
<1>1. /\ tokenOf[tk].state = "unknown" /\ tokenOf[tk].expires = 0 /\ tokenOf[tk].device = Nil
      /\ tokenOf[tk] \in MToken /\ clock + ttl \in Nat
      /\ UNCHANGED <<deviceOf, enrolling, beating, clock>>
  BY MemoryEnrollmentAssumption DEF AddToken, EnrollingInv, TokenInv
<1>2. tokenOf' = [tokenOf EXCEPT ![tk] = row]
  <2>1. /\ tokenOf \in [MTokens -> MToken]
        /\ tokenOf' = [tokenOf EXCEPT ![tk].state = "valid", ![tk].expires = clock + ttl]
    BY DEF AddToken, EnrollingInv
  <2>2. tokenOf'[tk] \in MToken
    BY <1>1, <2>1 DEF MToken
  <2>3. /\ tokenOf'[tk].state = "valid" /\ tokenOf'[tk].expires = clock + ttl
        /\ tokenOf'[tk].device = Nil
    BY <1>1, <2>1 DEF MToken
  <2>4. tokenOf'[tk] = row
    BY <2>2, <2>3 DEF MToken
  <2>5. \A k \in MTokens \ {tk} : tokenOf'[k] = tokenOf[k]
    BY <2>1
  <2>6. tokenOf' = [k \in MTokens |-> tokenOf'[k]] /\ tokenOf = [k \in MTokens |-> tokenOf[k]]
    BY <2>1
  <2> HIDE DEF row
  <2> QED
    BY <2>4, <2>5, <2>6
<1>3. row \in MToken
  BY <1>1 DEF MToken
<1> HIDE DEF row
<1>4. /\ tokenOf' \in [MTokens -> MToken] /\ tokenOf'[tk] = row
      /\ \A other \in MTokens \ {tk} : tokenOf'[other] = tokenOf[other]
  BY <1>2, <1>3 DEF EnrollingInv
<1>5. row.state = "valid" /\ row.expires = clock + ttl /\ row.device = Nil
  BY DEF row
<1>6. \A e \in enrolling : e.token # tk /\ e.token \in MTokens
  BY <1>1 DEF EnrollingInv, EnrollmentInv, Enrollment
<1>7. EnrollingInv'
  BY <1>1, <1>4, <1>5, <1>6 DEF EnrollingInv, TokenInv, EnrollmentInv, BeatInv
<1>8. Registry!IssueToken(tk, ttl)
  <2> DEFINE rows == [k \in MTokens |-> [expires |-> tokenOf[k].expires, usedBy |-> tokenOf[k].device]]
  <2>1. rows' = [rows EXCEPT ![tk].expires = clock + ttl]
    <3>1. rows'[tk] = [expires |-> clock + ttl, usedBy |-> Nil]
      BY <1>4, <1>5
    <3>2. rows[tk] = [expires |-> 0, usedBy |-> Nil]
      BY <1>1
    <3>3. \A k \in MTokens \ {tk} : rows'[k] = rows[k]
      BY <1>4
    <3>4. DOMAIN rows = MTokens /\ DOMAIN rows' = MTokens
      OBVIOUS
    <3>5. [rows[tk] EXCEPT !.expires = clock + ttl] = rows'[tk]
      BY <3>1, <3>2
    <3>6. rows = [k \in MTokens |-> rows[k]] /\ rows' = [k \in MTokens |-> rows'[k]]
      OBVIOUS
    <3> HIDE DEF rows
    <3> QED
      BY <3>3, <3>4, <3>5, <3>6
  <2> QED
    BY <1>1, <2>1 DEF Registry!IssueToken
<1> QED
  BY <1>7, <1>8

LEMMA ConsumeTokenStep ==
  ASSUME EnrollingInv, NEW tk \in MTokens, NEW t \in 0 .. clock, NEW d \in MDevices,
         ConsumeToken(tk, t, d)
  PROVE  EnrollingInv' /\ UNCHANGED Registry!vars
<1> DEFINE row == [state |-> "sold", expires |-> tokenOf[tk].expires, device |-> Nil]
           enrollment == [token |-> tk, device |-> d, at |-> t]
<1>1. /\ tokenOf[tk].state = "valid" /\ tokenOf[tk].expires > t /\ tokenOf[tk].device = Nil
      /\ tokenOf[tk] \in MToken /\ deviceOf[d].status = "unknown"
      /\ \A e \in enrolling : e.device # d
      /\ enrolling' = enrolling \cup {enrollment}
      /\ UNCHANGED <<deviceOf, beating, clock>>
      /\ t \in Nat /\ t <= clock
  BY DEF ConsumeToken, EnrollingInv, TokenInv
<1>2. tokenOf' = [tokenOf EXCEPT ![tk] = row]
  <2>1. /\ tokenOf \in [MTokens -> MToken]
        /\ tokenOf' = [tokenOf EXCEPT ![tk].state = "sold"]
    BY DEF ConsumeToken, EnrollingInv
  <2>2. [tokenOf[tk] EXCEPT !.state = "sold"] = row
    BY <1>1 DEF MToken
  <2> HIDE DEF row
  <2> QED
    BY <2>1, <2>2
<1>3. row \in MToken
  BY <1>1 DEF MToken
<1>4. row.state = "sold" /\ row.expires = tokenOf[tk].expires /\ row.device = Nil
  OBVIOUS
<1>5. /\ enrollment \in Enrollment
      /\ enrollment.token = tk /\ enrollment.device = d /\ enrollment.at = t
  BY <1>1 DEF Enrollment
<1> HIDE DEF row, enrollment
<1>6. /\ tokenOf' \in [MTokens -> MToken] /\ tokenOf'[tk] = row
      /\ \A other \in MTokens \ {tk} : tokenOf'[other] = tokenOf[other]
  BY <1>2, <1>3 DEF EnrollingInv
<1>7. \A e \in enrolling : e.token # tk /\ e.token \in MTokens
  BY <1>1 DEF EnrollingInv, EnrollmentInv, Enrollment
<1>8. EnrollingInv'
  <2>1. \A k \in MTokens : TokenInv(k)'
    BY <1>4, <1>6 DEF EnrollingInv, TokenInv
  <2>2. \A e \in enrolling : EnrollmentInv(e)'
    BY <1>1, <1>6, <1>7 DEF EnrollingInv, EnrollmentInv
  <2>3. EnrollmentInv(enrollment)'
    BY <1>1, <1>4, <1>5, <1>6 DEF EnrollmentInv
  <2>4. \A e, f \in enrolling' : e.token = f.token \/ e.device = f.device => e = f
    BY <1>1, <1>5, <1>7 DEF EnrollingInv
  <2>5. \A b \in beating : BeatInv(b)'
    BY <1>1 DEF EnrollingInv, BeatInv
  <2> QED
    BY <1>1, <1>5, <1>6, <2>1, <2>2, <2>3, <2>4, <2>5 DEF EnrollingInv
<1>9. \A k \in MTokens : tokenOf'[k].expires = tokenOf[k].expires
                       /\ tokenOf'[k].device = tokenOf[k].device
  BY <1>1, <1>4, <1>6
<1> QED
  BY <1>1, <1>8, <1>9 DEF Registry!vars

LEMMA AddDeviceStep ==
  ASSUME EnrollingInv, NEW e \in enrolling, AddDevice(e)
  PROVE  /\ EnrollingInv'
         /\ e.token \in MTokens /\ e.at \in 0 .. clock /\ e.device \in MDevices
         /\ Registry!Enroll(e.token, Nil, e.at, e.device)
<1> DEFINE tk == e.token
           d == e.device
           row == [state |-> "sold", expires |-> tokenOf[tk].expires, device |-> d]
           added == [status |-> "online", seen |-> e.at]
<1>1. /\ tokenOf[tk].state = "sold" /\ tokenOf[tk].device = Nil /\ tokenOf[tk].expires > e.at
      /\ e.at <= clock /\ deviceOf[d].status = "unknown"
      /\ e \in Enrollment /\ tk \in MTokens /\ d \in MDevices /\ e.at \in 0 .. clock
      /\ tokenOf[tk] \in MToken
  BY DEF EnrollingInv, EnrollmentInv, Enrollment
<1>2. /\ enrolling' = enrolling \ {e} /\ UNCHANGED <<beating, clock>>
      /\ deviceOf' = [deviceOf EXCEPT ![d] = added]
      /\ tokenOf' = [tokenOf EXCEPT ![tk].device = d]
  BY DEF AddDevice
<1>3. tokenOf' = [tokenOf EXCEPT ![tk] = row]
  <2>1. tokenOf \in [MTokens -> MToken]
    BY DEF EnrollingInv
  <2>2. [tokenOf[tk] EXCEPT !.device = d] = row
    BY <1>1 DEF MToken
  <2> HIDE DEF row, tk, d
  <2> QED
    BY <1>2, <2>1, <2>2
<1>4. row \in MToken /\ added \in MDevice
  BY <1>1 DEF MToken, MDevice
<1>5. /\ row.state = "sold" /\ row.expires = tokenOf[tk].expires /\ row.device = d
      /\ added.status = "online" /\ added.seen = e.at
  OBVIOUS
<1> HIDE DEF row, added, tk, d
<1>6. /\ tokenOf' \in [MTokens -> MToken] /\ tokenOf'[tk] = row
      /\ \A other \in MTokens \ {tk} : tokenOf'[other] = tokenOf[other]
      /\ deviceOf' \in [MDevices -> MDevice] /\ deviceOf'[d] = added
      /\ \A other \in MDevices \ {d} : deviceOf'[other] = deviceOf[other]
  BY <1>1, <1>2, <1>3, <1>4 DEF EnrollingInv
<1>7. \A f \in enrolling' : f \in enrolling /\ f.token # tk /\ f.device # d
                         /\ f.token \in MTokens /\ f.device \in MDevices
  BY <1>2 DEF EnrollingInv, Enrollment, tk, d
<1>8. \A b \in beating : b.device # d /\ b.device \in MDevices
  BY <1>1 DEF EnrollingInv, BeatInv, Beat
<1>9. EnrollingInv'
  <2>1. \A k \in MTokens : TokenInv(k)'
    BY <1>5, <1>6 DEF EnrollingInv, TokenInv
  <2>2. \A f \in enrolling' : EnrollmentInv(f)'
    BY <1>2, <1>6, <1>7 DEF EnrollingInv, EnrollmentInv
  <2>3. \A b \in beating' : BeatInv(b)'
    BY <1>2, <1>6, <1>8 DEF EnrollingInv, BeatInv
  <2> QED
    BY <1>2, <1>6, <1>7, <2>1, <2>2, <2>3 DEF EnrollingInv
<1> DEFINE rows == [k \in MTokens |-> [expires |-> tokenOf[k].expires, usedBy |-> tokenOf[k].device]]
           devs == [k \in MDevices |-> [enrolled |-> deviceOf[k].status # "unknown", serial |-> Nil,
                                        seen |-> deviceOf[k].seen, revoked |-> Nil]]
           paid == [expires |-> tokenOf[tk].expires, usedBy |-> d]
<1>10. rows' = [rows EXCEPT ![tk].usedBy = d]
  <2>1. rows'[tk] = paid
    BY <1>1, <1>5, <1>6
  <2>2. rows[tk] = [expires |-> tokenOf[tk].expires, usedBy |-> Nil]
    BY <1>1
  <2>3. \A k \in MTokens \ {tk} : rows'[k] = rows[k]
    BY <1>6
  <2>4. [rows[tk] EXCEPT !.usedBy = d] = rows'[tk]
    <3> HIDE DEF rows
    <3> QED
      BY <2>1, <2>2
  <2>5. rows = [k \in MTokens |-> rows[k]] /\ rows' = [k \in MTokens |-> rows'[k]]
    OBVIOUS
  <2> HIDE DEF rows
  <2> QED
    BY <2>3, <2>4, <2>5
<1>11. devs' = [devs EXCEPT ![d] = Registry!NewDevice(Nil, e.at)]
  <2>1. devs'[d] = Registry!NewDevice(Nil, e.at)
    BY <1>1, <1>5, <1>6 DEF Registry!NewDevice
  <2>2. \A k \in MDevices \ {d} : devs'[k] = devs[k]
    BY <1>6
  <2>3. devs = [k \in MDevices |-> devs[k]] /\ devs' = [k \in MDevices |-> devs'[k]]
    OBVIOUS
  <2> HIDE DEF devs
  <2> QED
    BY <2>1, <2>2, <2>3
<1>12. Registry!ValidToken(tk, e.at) /\ ~ devs[d].enrolled /\ ~ Registry!SerialTaken(Nil)
  BY <1>1 DEF Registry!ValidToken, Registry!SerialTaken
<1>13. Registry!Enroll(tk, Nil, e.at, d)
  BY <1>2, <1>10, <1>11, <1>12 DEF Registry!Enroll
<1> QED
  BY <1>1, <1>9, <1>13 DEF tk, d

LEMMA AuthenticateStep ==
  ASSUME EnrollingInv, NEW d \in MDevices, NEW t \in 0 .. clock,
         NEW observed \in 0 .. clock + MSkew, Authenticate(d, observed, t)
  PROVE  EnrollingInv' /\ UNCHANGED Registry!vars
<1> DEFINE beat == [device |-> d, observed |-> observed]
<1>1. /\ deviceOf[d].status = "online" /\ observed \in Nat /\ observed <= clock + MSkew
      /\ beating' = beating \cup {beat}
      /\ UNCHANGED <<tokenOf, deviceOf, enrolling, clock>>
  BY MemoryEnrollmentAssumption DEF Authenticate, EnrollingInv
<1>2. beat \in Beat /\ beat.device = d /\ beat.observed = observed
  BY <1>1 DEF Beat
<1> HIDE DEF beat
<1>3. BeatInv(beat)'
  BY <1>1, <1>2 DEF BeatInv
<1>4. EnrollingInv'
  BY <1>1, <1>2, <1>3 DEF EnrollingInv, TokenInv, EnrollmentInv, BeatInv
<1> QED
  BY <1>1, <1>4 DEF Registry!vars

LEMMA UpdateHeartbeatStep ==
  ASSUME EnrollingInv, NEW b \in beating, UpdateHeartbeat(b)
  PROVE  /\ EnrollingInv'
         /\ b.device \in MDevices /\ b.observed \in 0 .. clock + MSkew
         /\ Registry!Heartbeat(b.device, b.observed)
<1> DEFINE d == b.device
           row == [status |-> "online", seen |-> b.observed]
<1>1. /\ deviceOf[d].status = "online" /\ d \in MDevices
      /\ b.observed \in Nat /\ b.observed \in 0 .. clock + MSkew
      /\ deviceOf[d] \in MDevice
  BY MemoryEnrollmentAssumption DEF EnrollingInv, BeatInv, Beat
<1>2. /\ beating' = beating \ {b} /\ UNCHANGED <<tokenOf, enrolling, clock>>
      /\ deviceOf' = [deviceOf EXCEPT ![d] = row]
  <2>1. /\ deviceOf \in [MDevices -> MDevice]
        /\ deviceOf' = [deviceOf EXCEPT ![d].seen = b.observed, ![d].status = "online"]
    BY DEF UpdateHeartbeat, EnrollingInv
  <2> HIDE DEF d
  <2>2. deviceOf'[d] \in MDevice
    BY <1>1, <2>1 DEF MDevice
  <2>3. deviceOf'[d].status = "online" /\ deviceOf'[d].seen = b.observed
    BY <1>1, <2>1 DEF MDevice
  <2>4. deviceOf'[d] = row
    BY <2>2, <2>3 DEF MDevice
  <2>5. \A k \in MDevices \ {d} : deviceOf'[k] = deviceOf[k]
    BY <2>1
  <2>6. deviceOf' = [k \in MDevices |-> deviceOf'[k]] /\ deviceOf = [k \in MDevices |-> deviceOf[k]]
    BY <2>1
  <2>7. deviceOf' = [deviceOf EXCEPT ![d] = row]
    <3> HIDE DEF row
    <3> QED
      BY <2>4, <2>5, <2>6
  <2> QED
    BY <2>7 DEF UpdateHeartbeat
<1>3. row \in MDevice /\ row.status = "online" /\ row.seen = b.observed
  BY <1>1 DEF MDevice
<1> HIDE DEF row, d
<1>4. /\ deviceOf' \in [MDevices -> MDevice] /\ deviceOf'[d] = row
      /\ \A other \in MDevices \ {d} : deviceOf'[other] = deviceOf[other]
  BY <1>1, <1>2, <1>3 DEF EnrollingInv
<1>5. EnrollingInv'
  <2>1. \A e \in enrolling : EnrollmentInv(e)'
    <3>1. \A e \in enrolling : e.device # d /\ e.device \in MDevices
      BY <1>1 DEF EnrollingInv, EnrollmentInv, Enrollment
    <3> QED
      BY <1>2, <1>4, <3>1 DEF EnrollingInv, EnrollmentInv
  <2>2. \A o \in beating' : BeatInv(o)'
    BY <1>2, <1>3, <1>4 DEF EnrollingInv, BeatInv, Beat
  <2> QED
    BY <1>2, <1>4, <2>1, <2>2 DEF EnrollingInv, TokenInv
<1> DEFINE devs == [k \in MDevices |-> [enrolled |-> deviceOf[k].status # "unknown", serial |-> Nil,
                                        seen |-> deviceOf[k].seen, revoked |-> Nil]]
<1>6. devs' = [devs EXCEPT ![d].seen = b.observed]
  <2>1. devs'[d] = [enrolled |-> TRUE, serial |-> Nil, seen |-> b.observed, revoked |-> Nil]
    BY <1>1, <1>3, <1>4
  <2>2. devs[d] = [enrolled |-> TRUE, serial |-> Nil, seen |-> deviceOf[d].seen, revoked |-> Nil]
    BY <1>1
  <2>3. \A k \in MDevices \ {d} : devs'[k] = devs[k]
    BY <1>4
  <2>4. devs'[d] = [devs[d] EXCEPT !.seen = b.observed]
    <3> DEFINE at(on, seen) == [enrolled |-> on, serial |-> Nil, seen |-> seen, revoked |-> Nil]
    <3>1. \A on, old, new : at(on, new) = [at(on, old) EXCEPT !.seen = new]
      OBVIOUS
    <3>2. PICK on : on = TRUE
      OBVIOUS
    <3>3. devs'[d] = at(on, b.observed) /\ devs[d] = at(on, deviceOf[d].seen)
      BY <2>1, <2>2, <3>2, Zenon
    <3> HIDE DEF devs, at
    <3> QED
      BY <3>1, <3>3
  <2>5. devs = [k \in MDevices |-> devs[k]] /\ devs' = [k \in MDevices |-> devs'[k]]
    OBVIOUS
  <2> HIDE DEF devs
  <2> QED
    BY <2>3, <2>4, <2>5
<1>7. devs[d].enrolled /\ devs[d].revoked = Nil
  BY <1>1
<1>8. Registry!Heartbeat(d, b.observed)
  BY <1>2, <1>6, <1>7 DEF Registry!Heartbeat
<1> QED
  BY <1>1, <1>5, <1>8 DEF d

LEMMA AdvanceStep ==
  ASSUME EnrollingInv, Advance, UNCHANGED <<tokenOf, deviceOf, enrolling, beating>>
  PROVE  EnrollingInv' /\ Registry!Tick
<1>1. /\ clock \in Nat /\ clock' = clock + 1 /\ clock < Horizon
      /\ UNCHANGED <<tokenOf, deviceOf, enrolling, beating>>
  BY DEF Advance, EnrollingInv
<1>2. \A e \in enrolling : EnrollmentInv(e)'
  BY <1>1 DEF EnrollingInv, EnrollmentInv, Enrollment
<1>3. \A b \in beating : BeatInv(b)'
  BY <1>1, MemoryEnrollmentAssumption DEF EnrollingInv, BeatInv, Beat
<1>4. EnrollingInv'
  BY <1>1, <1>2, <1>3 DEF EnrollingInv, TokenInv
<1>5. Registry!Tick
  BY <1>1 DEF Registry!Tick
<1> QED
  BY <1>4, <1>5

LEMMA EnrollingNextInv ==
  EnrollingInv /\ [MemoryEnrollmentNext]_memoryEnrollmentVars
    => EnrollingInv' /\ [Registry!Next]_(Registry!vars)
<1> SUFFICES ASSUME EnrollingInv, [MemoryEnrollmentNext]_memoryEnrollmentVars
             PROVE  EnrollingInv' /\ [Registry!Next]_(Registry!vars)
  OBVIOUS
<1>1. CASE UNCHANGED memoryEnrollmentVars
  BY <1>1 DEF memoryEnrollmentVars, EnrollingInv, TokenInv, EnrollmentInv, BeatInv, Registry!vars
<1>2. ASSUME NEW tk \in MTokens, NEW ttl \in MTTLs, AddToken(tk, ttl)
      PROVE  EnrollingInv' /\ Registry!Next
  BY <1>2, AddTokenStep DEF Registry!Next
<1>3. ASSUME NEW tk \in MTokens, NEW t \in 0 .. clock, NEW d \in MDevices, ConsumeToken(tk, t, d)
      PROVE  EnrollingInv' /\ UNCHANGED Registry!vars
  BY <1>3, ConsumeTokenStep
<1>4. ASSUME NEW e \in enrolling, AddDevice(e)
      PROVE  EnrollingInv' /\ Registry!Next
  BY <1>4, AddDeviceStep DEF Registry!Next
<1>5. ASSUME NEW d \in MDevices, NEW t \in 0 .. clock, NEW observed \in 0 .. clock + MSkew,
             Authenticate(d, observed, t)
      PROVE  EnrollingInv' /\ UNCHANGED Registry!vars
  BY <1>5, AuthenticateStep
<1>6. ASSUME NEW b \in beating, UpdateHeartbeat(b)
      PROVE  EnrollingInv' /\ Registry!Next
  BY <1>6, UpdateHeartbeatStep DEF Registry!Next
<1>7. ASSUME Advance, UNCHANGED <<tokenOf, deviceOf, enrolling, beating>>
      PROVE  EnrollingInv' /\ Registry!Next
  BY <1>7, AdvanceStep DEF Registry!Next
<1> QED
  BY <1>1, <1>2, <1>3, <1>4, <1>5, <1>6, <1>7 DEF MemoryEnrollmentNext

\* EnrollmentService keeps the promises of the device repository although it
\* takes the lock of its store twice in a call (enroll, heartbeat).
THEOREM MemoryEnrollmentIsRegistry == MemoryEnrollmentSpec => MemoryImplementsDeviceRegistry
BY EnrollingInitInv, EnrollingNextInv, PTL
   DEF MemoryEnrollmentSpec, MemoryImplementsDeviceRegistry, Registry!Spec

-----------------------------------------------------------------------------
(* Remediations are spaced. *)

Asked == [evidence : EvidenceKeys, policy : Policies, at : Nat, submit : BOOLEAN]

\* What a result of the last evaluation looks like.
ResultInv(r) ==
  /\ r.policy \in Policies /\ r.policy.enabled
  /\ r.observed \in Values
  /\ r.passed <=> Fold[r.observed] = Fold[r.policy.expected]

\* The guard remembers the last submission for every piece of evidence.
MemoryOfGuard(k) ==
  /\ \A i \in DOMAIN asked :
       asked[i].submit /\ asked[i].evidence = k =>
         attempts[k] # Nil /\ asked[i].at <= attempts[k]
  /\ attempts[k] # Nil =>
       \E i \in DOMAIN asked : /\ asked[i].submit /\ asked[i].evidence = k
                               /\ asked[i].at = attempts[k]

ComplianceInv ==
  /\ clock \in Nat
  /\ attempts \in [EvidenceKeys -> Nat \cup {Nil}]
  /\ asked \in Seq(Asked)
  /\ evaluation.device \in Assessed \cup {Nil}
  /\ evaluation.results # {} => evaluation.device \in Assessed
  /\ \A r \in evaluation.results : ResultInv(r)
  /\ \A i \in DOMAIN asked : asked[i].at <= clock
  /\ \A k \in EvidenceKeys : MemoryOfGuard(k)
  /\ RemediationsAreSpaced

LEMMA AskedAt ==
  ASSUME ComplianceInv
  PROVE  \A i \in DOMAIN asked : asked[i].at \in Nat /\ asked[i].at <= clock
<1>1. \A i \in DOMAIN asked : asked[i] \in Asked
  BY DEF ComplianceInv
<1> QED
  BY <1>1 DEF ComplianceInv, Asked

LEMMA ComplianceInitInv == ComplianceInit /\ ClockInit => ComplianceInv
BY DEF ComplianceInit, ClockInit, ComplianceInv, RemediationsAreSpaced, MemoryOfGuard

LEMMA EvaluateInv ==
  ASSUME ComplianceInv, NEW d \in Assessed, NEW policies \in SUBSET Policies,
         NEW posture \in [Fields -> Values], Evaluate(d, policies, posture)
  PROVE  ComplianceInv'
<1>1. /\ evaluation' = [device |-> d, results |-> {Result(p, posture) : p \in Enabled(policies)}]
      /\ UNCHANGED <<attempts, asked, clock>>
  BY DEF Evaluate
<1>2. ASSUME NEW p \in Enabled(policies)
      PROVE  ResultInv(Result(p, posture))
  <2>1. p \in Policies /\ p.enabled /\ p.field \in Fields
    BY ComplianceAssumption DEF Enabled, Policy
  <2> QED
    BY <2>1 DEF Result, ResultInv, Passes
<1>3. \A r \in evaluation'.results : ResultInv(r)
  BY <1>1, <1>2
<1>4. \A r : ResultInv(r) <=> ResultInv(r)'
  BY DEF ResultInv
<1>5. RemediationsAreSpaced' /\ \A k \in EvidenceKeys : MemoryOfGuard(k)'
  BY <1>1 DEF ComplianceInv, RemediationsAreSpaced, MemoryOfGuard, CoolingAt
<1> QED
  BY <1>1, <1>3, <1>4, <1>5 DEF ComplianceInv

\* The evidence of a result is one the guard can remember, and holds the value that
\* was observed.
LEMMA EvidenceIsKnown ==
  ASSUME ComplianceInv, NEW r \in evaluation.results
  PROVE  /\ Evidence(evaluation.device, r) \in EvidenceKeys
         /\ Evidence(evaluation.device, r)[4] = r.observed
BY DEF ComplianceInv, ResultInv, Evidence, EvidenceKeys

\* A submission was made within the cooldown exactly if the last one was.
LEMMA CoolingIsExact ==
  ASSUME ComplianceInv, NEW k \in EvidenceKeys
  PROVE  (attempts[k] # Nil /\ clock - attempts[k] < Cooldown)
           <=> \E j \in DOMAIN asked : /\ asked[j].submit /\ asked[j].evidence = k
                                       /\ clock - asked[j].at < Cooldown
<1>1. /\ attempts[k] \in Nat \cup {Nil} /\ clock \in Nat /\ MemoryOfGuard(k)
      /\ \A j \in DOMAIN asked : asked[j].at \in Nat /\ asked[j].at <= clock
  BY AskedAt DEF ComplianceInv
<1>2. CASE attempts[k] = Nil
  BY <1>1, <1>2 DEF MemoryOfGuard
<1>3. CASE attempts[k] # Nil
  <2>1. PICK i \in DOMAIN asked : /\ asked[i].submit /\ asked[i].evidence = k
                                  /\ asked[i].at = attempts[k]
    BY <1>1, <1>3 DEF MemoryOfGuard
  <2>2. ASSUME NEW j \in DOMAIN asked, asked[j].submit, asked[j].evidence = k,
               clock - asked[j].at < Cooldown
        PROVE  clock - attempts[k] < Cooldown
    <3>1. asked[j].at <= attempts[k]
      BY <1>1, <2>2 DEF MemoryOfGuard
    <3> QED
      BY <1>1, <1>3, <2>2, <3>1, ComplianceAssumption
  <2> QED
    BY <1>3, <2>1, <2>2
<1> QED
  BY <1>2, <1>3

LEMMA AskGuardInv ==
  ASSUME ComplianceInv, NEW r \in evaluation.results, AskGuard(r)
  PROVE  ComplianceInv'
<1> DEFINE k == Evidence(evaluation.device, r)
           submit == /\ r.policy.automatic /\ ~ r.passed
                     /\ ~ (attempts[k] # Nil /\ clock - attempts[k] < Cooldown)
           question == [evidence |-> k, policy |-> r.policy, at |-> clock, submit |-> submit]
<1> PICK n \in Nat : n = Len(asked) + 1
  BY DEF ComplianceInv
<1>1. /\ attempts' = IF submit THEN [attempts EXCEPT ![k] = clock] ELSE attempts
      /\ asked' = Append(asked, question)
      /\ UNCHANGED <<evaluation, clock>>
  BY DEF AskGuard, GuardKey
<1>2. k \in EvidenceKeys /\ k[4] = r.observed /\ ResultInv(r)
  BY EvidenceIsKnown DEF ComplianceInv
<1>3. question \in Asked
  BY <1>2, ComplianceAssumption DEF Asked, ComplianceInv, ResultInv, Policy
<1>4. /\ question.evidence = k /\ question.policy = r.policy /\ question.at = clock
      /\ question.submit = submit
  OBVIOUS
<1>5. (attempts[k] # Nil /\ clock - attempts[k] < Cooldown)
        <=> \E j \in DOMAIN asked : /\ asked[j].submit /\ asked[j].evidence = k
                                    /\ clock - asked[j].at < Cooldown
  BY <1>2, CoolingIsExact
<1>6. submit <=> /\ r.policy.automatic /\ ~ r.passed
                 /\ ~ \E j \in DOMAIN asked : /\ asked[j].submit /\ asked[j].evidence = k
                                              /\ clock - asked[j].at < Cooldown
  BY <1>5
<1> HIDE DEF k, submit, question
<1>7. /\ asked \in Seq(Asked) /\ clock \in Nat /\ Len(asked) \in Nat
      /\ asked' \in Seq(Asked) /\ Len(asked') = n
      /\ DOMAIN asked = 1 .. Len(asked) /\ DOMAIN asked' = 1 .. n
      /\ asked'[n] = question
      /\ \A i \in 1 .. Len(asked) : asked'[i] = asked[i]
  BY <1>1, <1>3 DEF ComplianceInv
<1>8. attempts' \in [EvidenceKeys -> Nat \cup {Nil}]
  BY <1>1, <1>7 DEF ComplianceInv
<1>9. \A i \in DOMAIN asked' : asked'[i].at <= clock'
  BY <1>1, <1>4, <1>7 DEF ComplianceInv
<1>10. ASSUME NEW e \in EvidenceKeys
       PROVE  MemoryOfGuard(e)'
  <2>1. /\ MemoryOfGuard(e) /\ attempts[e] \in Nat \cup {Nil}
        /\ \A i \in 1 .. Len(asked) : asked[i].at \in Nat /\ asked[i].at <= clock
    BY <1>7, AskedAt DEF ComplianceInv
  <2>2. CASE submit /\ e = k
    <3>1. attempts'[e] = clock /\ clock # Nil
      BY <1>1, <1>2, <1>7, <2>2, HorizonAssumption DEF ComplianceInv
    <3>2. \A i \in DOMAIN asked' : asked'[i].at <= clock
      BY <1>1, <1>9
    <3>3. /\ n \in DOMAIN asked' /\ asked'[n].submit /\ asked'[n].evidence = e
          /\ asked'[n].at = clock
      <4>1. n \in DOMAIN asked' /\ asked'[n] = question
        BY <1>7
      <4> QED
        BY <1>4, <2>2, <4>1, Zenon
    <3>4. attempts'[e] # Nil /\ \A i \in DOMAIN asked' : asked'[i].at <= attempts'[e]
      BY <3>1, <3>2
    <3>5. \E i \in DOMAIN asked' : /\ asked'[i].submit /\ asked'[i].evidence = e
                                    /\ asked'[i].at = attempts'[e]
      BY <3>1, <3>3
    <3> QED
      BY <3>4, <3>5 DEF MemoryOfGuard
  <2>3. CASE ~ (submit /\ e = k)
    <3>1. attempts'[e] = attempts[e]
      BY <1>1, <2>3 DEF ComplianceInv
    <3>2. ~ (asked'[n].submit /\ asked'[n].evidence = e)
      BY <1>4, <1>7, <2>3
    <3>3. \A i \in DOMAIN asked' : i = n \/ i \in DOMAIN asked
      BY <1>7
    <3>4. DOMAIN asked \subseteq DOMAIN asked'
      BY <1>7
    <3> QED
      BY <1>7, <2>1, <3>1, <3>2, <3>3, <3>4 DEF MemoryOfGuard
  <2> QED
    BY <2>2, <2>3
<1>11. \A i \in 1 .. Len(asked) : CoolingAt(i)' = CoolingAt(i)
  BY <1>7 DEF CoolingAt
<1>12. CoolingAt(n)' = {} <=> ~ \E j \in DOMAIN asked : /\ asked[j].submit
                                                        /\ asked[j].evidence = k
                                                        /\ clock - asked[j].at < Cooldown
  <2>1. CoolingAt(n)' = {j \in 1 .. n - 1 : /\ asked'[j].submit
                                            /\ asked'[j].evidence = asked'[n].evidence
                                            /\ asked'[n].at - asked'[j].at < Cooldown}
    BY DEF CoolingAt
  <2>2. n - 1 = Len(asked) /\ asked'[n].evidence = k /\ asked'[n].at = clock
    BY <1>4, <1>7
  <2>3. CoolingAt(n)' = {j \in DOMAIN asked : /\ asked[j].submit /\ asked[j].evidence = k
                                              /\ clock - asked[j].at < Cooldown}
    BY <1>7, <2>1, <2>2
  <2> QED
    BY <2>3
<1>13. RemediationsAreSpaced'
  <2>1. ASSUME NEW i \in DOMAIN asked', i # n
        PROVE  asked'[i].submit <=> /\ asked'[i].policy.enabled
                                    /\ asked'[i].policy.automatic
                                    /\ Fold[asked'[i].evidence[4]] # Fold[asked'[i].policy.expected]
                                    /\ CoolingAt(i)' = {}
    <3>1. i \in DOMAIN asked /\ asked'[i] = asked[i] /\ CoolingAt(i)' = CoolingAt(i)
      BY <1>7, <1>11, <2>1
    <3> QED
      BY <3>1 DEF ComplianceInv, RemediationsAreSpaced
  <2>2. asked'[n].submit <=> /\ asked'[n].policy.enabled
                             /\ asked'[n].policy.automatic
                             /\ Fold[asked'[n].evidence[4]] # Fold[asked'[n].policy.expected]
                             /\ CoolingAt(n)' = {}
    <3>1. asked'[n].submit <=> submit
      BY <1>4, <1>7
    <3>2. asked'[n].policy = r.policy /\ asked'[n].evidence[4] = r.observed
      BY <1>2, <1>4, <1>7
    <3>3. r.policy.enabled /\ (r.passed <=> Fold[r.observed] = Fold[r.policy.expected])
      BY <1>2 DEF ResultInv
    <3> QED
      BY <1>6, <1>12, <3>1, <3>2, <3>3
  <2> QED
    BY <2>1, <2>2 DEF RemediationsAreSpaced
<1> QED
  BY <1>1, <1>7, <1>8, <1>9, <1>10, <1>13 DEF ComplianceInv, ResultInv

LEMMA ComplianceNextInv ==
  ComplianceInv /\ [ComplianceNext]_complianceVars => ComplianceInv'
<1> SUFFICES ASSUME ComplianceInv, [ComplianceNext]_complianceVars PROVE ComplianceInv'
  OBVIOUS
<1>1. CASE Advance /\ UNCHANGED <<evaluation, attempts, asked>>
  <2>1. clock' = clock + 1 /\ UNCHANGED <<evaluation, attempts, asked>>
    BY <1>1 DEF Advance
  <2>2. \A i \in DOMAIN asked : asked[i].at \in Nat /\ asked'[i].at <= clock'
    BY <2>1, AskedAt DEF ComplianceInv
  <2> QED
    BY <2>1, <2>2 DEF ComplianceInv, RemediationsAreSpaced, MemoryOfGuard, CoolingAt, ResultInv
<1>2. CASE UNCHANGED complianceVars
  BY <1>2 DEF complianceVars, ComplianceInv, RemediationsAreSpaced, MemoryOfGuard, CoolingAt,
              ResultInv
<1> QED
  BY <1>1, <1>2, EvaluateInv, AskGuardInv DEF ComplianceNext

\* A remediation is submitted exactly for a failure of an enabled policy with
\* automatic remediation whose evidence had none within the cooldown.
THEOREM GuardIsExact == ComplianceSpec => []RemediationsAreSpaced
<1>1. ComplianceInv => RemediationsAreSpaced
  BY DEF ComplianceInv
<1> QED
  BY <1>1, ComplianceInitInv, ComplianceNextInv, PTL DEF ComplianceSpec

-----------------------------------------------------------------------------
(* Scans report every change once. *)

Change == [title : Titles, type : {"added", "removed", "version_changed"},
           previous : Versions \cup {Nil}, current : Versions \cup {Nil}]

Reported == [device : Scanned, change : Change]

Scan == [step : {"idle", "read", "save", "notify"}, device : Scanned \cup {Nil},
         current : Software \cup {Nil}, previous : Software \cup {Nil},
         left : SUBSET (Change \X Channels)]

MonitorTypes ==
  /\ latest \in [Scanned -> Software \cup {Nil}]
  /\ scanning \in [Threads -> Scan]
  /\ replayed \in [Scanned -> Software \cup {Nil}]
  /\ reported \subseteq Reported
  /\ unsent \in BOOLEAN

\* A thread that has read the previous snapshot still has the device's latest one,
\* and what it has to notify is among the changes that were found.
ScanInv(p) ==
  LET s == scanning[p] IN
  /\ s.device = Nil <=> s.step = "idle"
  /\ s.step \in {"read", "save", "notify"} => s.current \in Software
  /\ s.step = "save" => s.previous = latest[s.device]
  /\ s.left # {} => s.step = "notify"
  /\ \A c \in s.left : [device |-> s.device, change |-> c[1]] \in reported

NotOverlapping(p, q) == scanning[p].device = scanning[q].device => scanning[p].device = Nil

\* A change that was found is notified on both channels, or a thread will.
WillBeNotified(r, channel) ==
  \/ unsent
  \/ <<channel, NotificationKey(r.device, r.change)>> \in notified
  \/ \E p \in Threads : /\ scanning[p].device = r.device
                         /\ <<r.change, channel>> \in scanning[p].left

MonitorInv ==
  /\ MonitorTypes
  /\ \A p \in Threads : ScanInv(p)
  /\ \A p, q \in Threads : p # q => NotOverlapping(p, q)
  /\ \A n \in notified :
       \E channel \in Channels, r \in reported :
         n = <<channel, NotificationKey(r.device, r.change)>>
  /\ \A r \in reported, channel \in Channels : WillBeNotified(r, channel)
  /\ ChangesCompose

LEMMA MonitorInitInv == MonitorInit => MonitorInv
<1> SUFFICES ASSUME MonitorInit PROVE MonitorInv
  OBVIOUS
<1>1. NoScan \in Scan
  BY DEF NoScan, Scan
<1>2. \A p \in Threads : scanning[p] = NoScan
  BY DEF MonitorInit
<1>3. MonitorTypes
  BY <1>1 DEF MonitorInit, MonitorTypes
<1>4. \A p \in Threads : ScanInv(p)
  BY <1>2 DEF ScanInv, NoScan
<1>5. \A p, q \in Threads : NotOverlapping(p, q)
  BY <1>2 DEF NotOverlapping, NoScan
<1> QED
  BY <1>2, <1>3, <1>4, <1>5 DEF MonitorInit, MonitorInv, ChangesCompose

\* What Changes lists of two snapshots: one change for every title that differs.
LEMMA ChangesOfTitles ==
  ASSUME NEW before \in Software, NEW after \in Software
  PROVE  /\ Changes(before, after) \subseteq Change
         /\ \A c \in Changes(before, after) :
              c.title \in Titles /\ before[c.title] # after[c.title] /\ c.current = after[c.title]
         /\ \A t \in Titles : before[t] # after[t] =>
              \E c \in Changes(before, after) : c.title = t
<1> DEFINE of(t) == [title |-> t, type |-> ChangeType(before[t], after[t]),
                     previous |-> before[t], current |-> after[t]]
<1>1. Changes(before, after) = {of(t) : t \in {t \in Titles : before[t] # after[t]}}
  BY DEF Changes
<1>2. ASSUME NEW t \in Titles
      PROVE  of(t) \in Change /\ of(t).title = t /\ of(t).current = after[t]
  BY DEF Change, ChangeType, Software
<1> HIDE DEF of
<1> QED
  BY <1>1, <1>2

\* Applying the changes of two snapshots to the first gives the second.
LEMMA ChangesReplay ==
  ASSUME NEW before \in Software, NEW after \in Software
  PROVE  [t \in Titles |->
            IF \E c \in Changes(before, after) : c.title = t
            THEN (CHOOSE c \in Changes(before, after) : c.title = t).current
            ELSE before[t]] = after
<1> DEFINE changes == Changes(before, after)
<1>1. /\ \A c \in changes :
           c.title \in Titles /\ before[c.title] # after[c.title] /\ c.current = after[c.title]
      /\ \A t \in Titles : before[t] # after[t] => \E c \in changes : c.title = t
  BY ChangesOfTitles
<1> HIDE DEF changes
<1>2. ASSUME NEW t \in Titles
      PROVE  (IF \E c \in changes : c.title = t
              THEN (CHOOSE c \in changes : c.title = t).current ELSE before[t]) = after[t]
  <2>1. CASE \E c \in changes : c.title = t
    <3>1. (CHOOSE c \in changes : c.title = t) \in changes
      BY <2>1
    <3>2. (CHOOSE c \in changes : c.title = t).title = t
      BY <2>1
    <3> QED
      BY <1>1, <2>1, <3>1, <3>2
  <2>2. CASE ~ \E c \in changes : c.title = t
    BY <1>1, <2>2
  <2> QED
    BY <2>1, <2>2
<1>3. after = [t \in Titles |-> after[t]]
  BY DEF Software
<1> QED
  BY <1>2, <1>3 DEF changes

\* A step of one thread that changes only what it is doing.
LEMMA ThreadStep ==
  ASSUME MonitorInv, NEW p \in Threads, NEW s \in Scan,
         scanning' = [scanning EXCEPT ![p] = s],
         UNCHANGED <<latest, replayed, reported>>,
         ScanInv(p)',
         \/ s.device = scanning[p].device
         \/ s.device = Nil
         \/ ~ DeviceLocked(s.device),
         unsent' \in BOOLEAN,
         notified \subseteq notified',
         \A n \in notified' \ notified :
           \E channel \in Channels, r \in reported :
             n = <<channel, NotificationKey(r.device, r.change)>>,
         unsent => unsent',
         \A c \in scanning[p].left :
           \/ unsent'
           \/ <<c[2], NotificationKey(scanning[p].device, c[1])>> \in notified'
           \/ c \in s.left /\ s.device = scanning[p].device
  PROVE  MonitorInv'
<1>1. /\ scanning'[p] = s
      /\ \A q \in Threads \ {p} : scanning'[q] = scanning[q]
      /\ scanning' \in [Threads -> Scan]
  BY DEF MonitorInv, MonitorTypes
<1>2. MonitorTypes'
  BY <1>1 DEF MonitorInv, MonitorTypes
<1>3. \A q \in Threads : ScanInv(q)'
  BY <1>1 DEF MonitorInv, ScanInv
<1>4. ASSUME NEW q \in Threads, NEW u \in Threads, q # u
      PROVE  NotOverlapping(q, u)'
  BY <1>1, <1>4 DEF MonitorInv, NotOverlapping, DeviceLocked
<1>5. ASSUME NEW r \in reported, NEW channel \in Channels
      PROVE  WillBeNotified(r, channel)'
  <2>1. WillBeNotified(r, channel)
    BY DEF MonitorInv
  <2>2. CASE \/ unsent
             \/ <<channel, NotificationKey(r.device, r.change)>> \in notified
    BY <2>2 DEF WillBeNotified
  <2>3. ASSUME NEW q \in Threads, scanning[q].device = r.device,
               <<r.change, channel>> \in scanning[q].left
        PROVE  WillBeNotified(r, channel)'
    <3>1. CASE q # p
      BY <1>1, <2>3, <3>1 DEF WillBeNotified
    <3>2. CASE q = p
      <4>1. \/ unsent'
            \/ <<channel, NotificationKey(r.device, r.change)>> \in notified'
            \/ <<r.change, channel>> \in s.left /\ s.device = r.device
        BY <2>3, <3>2
      <4> QED
        BY <1>1, <4>1 DEF WillBeNotified
    <3> QED
      BY <3>1, <3>2
  <2> QED
    BY <2>1, <2>2, <2>3 DEF WillBeNotified
<1> QED
  BY <1>2, <1>3, <1>4, <1>5 DEF MonitorInv, ChangesCompose

LEMMA ThreadTypes ==
  ASSUME MonitorInv, NEW p \in Threads
  PROVE  scanning[p] \in Scan /\ ScanInv(p)
BY DEF MonitorInv, MonitorTypes

LEMMA BeginScanInv ==
  ASSUME MonitorInv, NEW p \in Threads, NEW d \in Scanned, NEW current \in Software,
         BeginScan(p, d, current)
  PROVE  MonitorInv'
<1> DEFINE s == [NoScan EXCEPT !.step = "read", !.device = d, !.current = current]
<1>1. s \in Scan /\ s.device = d /\ s.step = "read" /\ s.current = current /\ s.left = {}
  BY DEF Scan, NoScan
<1>2. /\ scanning[p].step = "idle" /\ ~ DeviceLocked(s.device)
      /\ scanning' = [scanning EXCEPT ![p] = s]
      /\ UNCHANGED <<latest, notified, replayed, reported, unsent, clock>>
  BY DEF BeginScan
<1> HIDE DEF s
<1>3. scanning[p].left = {}
  BY <1>2, ThreadTypes DEF ScanInv
<1>4. ScanInv(p)'
  BY <1>1, <1>2, ScannedAssumption DEF ScanInv, MonitorInv, MonitorTypes
<1> QED
  BY <1>1, <1>2, <1>3, <1>4, ThreadStep DEF MonitorInv, MonitorTypes

LEMMA ReadPreviousInv ==
  ASSUME MonitorInv, NEW p \in Threads, ReadPrevious(p)
  PROVE  MonitorInv'
<1> DEFINE old == scanning[p]
           s == [old EXCEPT !.step = "save", !.previous = latest[old.device]]
<1>1. old \in Scan /\ ScanInv(p) /\ old.step = "read"
  BY ThreadTypes DEF ReadPrevious
<1>2. old.device \in Scanned /\ old.left = {}
  BY <1>1 DEF ScanInv, Scan
<1>3. latest[old.device] \in Software \cup {Nil}
  BY <1>2 DEF MonitorInv, MonitorTypes
<1>4. /\ s \in Scan /\ s.device = old.device /\ s.step = "save" /\ s.current = old.current
      /\ s.left = {} /\ s.previous = latest[old.device]
  BY <1>1, <1>2, <1>3 DEF Scan
<1>5. /\ scanning' = [scanning EXCEPT ![p] = s]
      /\ UNCHANGED <<latest, notified, replayed, reported, unsent, clock>>
  BY DEF ReadPrevious, MonitorInv, MonitorTypes
<1> HIDE DEF s
<1>6. ScanInv(p)'
  BY <1>1, <1>2, <1>4, <1>5, ScannedAssumption DEF ScanInv, MonitorInv, MonitorTypes
<1> QED
  BY <1>2, <1>4, <1>5, <1>6, ThreadStep DEF MonitorInv, MonitorTypes

LEMMA NoScanInv ==
  /\ NoScan \in Scan /\ NoScan.device = Nil /\ NoScan.left = {}
  /\ \A p \in Threads : MonitorInv /\ scanning' = [scanning EXCEPT ![p] = NoScan] => ScanInv(p)'
<1>1. NoScan \in Scan /\ NoScan.device = Nil /\ NoScan.left = {} /\ NoScan.step = "idle"
  BY DEF NoScan, Scan
<1> QED
  BY <1>1 DEF ScanInv, MonitorInv, MonitorTypes

LEMMA EndScanInv ==
  ASSUME MonitorInv, NEW p \in Threads, EndScan(p)
  PROVE  MonitorInv'
<1>1. /\ scanning[p].left = {} /\ scanning' = [scanning EXCEPT ![p] = NoScan]
      /\ UNCHANGED <<latest, notified, replayed, reported, unsent, clock>>
  BY DEF EndScan
<1> QED
  BY <1>1, NoScanInv, ThreadStep DEF MonitorInv, MonitorTypes

LEMMA NotifyInv ==
  ASSUME MonitorInv, NEW p \in Threads, NEW c \in scanning[p].left, Notify(p, c[1], c[2])
  PROVE  MonitorInv'
<1> DEFINE old == scanning[p]
           key == <<c[2], NotificationKey(old.device, c[1])>>
           s == [old EXCEPT !.left = @ \ {c}]
<1>1. /\ old \in Scan /\ ScanInv(p) /\ c \in Change \X Channels
      /\ c = <<c[1], c[2]>> /\ c[2] \in Channels
  BY ThreadTypes DEF Scan
<1>2. /\ notified' = notified \cup {key}
      /\ UNCHANGED <<latest, replayed, reported, clock>>
      /\ \/ scanning' = [scanning EXCEPT ![p] = s] /\ unsent' = unsent
         \/ scanning' = [scanning EXCEPT ![p] = NoScan] /\ unsent' = TRUE
  BY <1>1 DEF Notify, MonitorInv, MonitorTypes
<1>3. [device |-> old.device, change |-> c[1]] \in reported
  BY <1>1 DEF ScanInv
<1>4. \A n \in notified' \ notified :
        \E channel \in Channels, r \in reported :
          n = <<channel, NotificationKey(r.device, r.change)>>
  <2> DEFINE r == [device |-> old.device, change |-> c[1]]
  <2>1. r.device = old.device /\ r.change = c[1]
    OBVIOUS
  <2> HIDE DEF r
  <2>2. key = <<c[2], NotificationKey(r.device, r.change)>>
    BY <2>1
  <2> QED
    BY <1>1, <1>2, <1>3, <2>2 DEF r
<1>5. /\ s \in Scan /\ s.device = old.device /\ s.step = old.step /\ s.current = old.current
      /\ s.left = old.left \ {c} /\ s.previous = old.previous
  BY <1>1 DEF Scan
<1>6. CASE scanning' = [scanning EXCEPT ![p] = s] /\ unsent' = unsent
  <2> HIDE DEF s
  <2>1. ScanInv(p)'
    BY <1>1, <1>2, <1>5, <1>6 DEF ScanInv, MonitorInv, MonitorTypes
  <2>2. \A e \in old.left : e \in s.left \/ <<e[2], NotificationKey(old.device, e[1])>> \in notified'
    BY <1>2, <1>5
  <2> HIDE DEF key
  <2> QED
    BY <1>2, <1>4, <1>5, <1>6, <2>1, <2>2, ThreadStep DEF MonitorInv, MonitorTypes
<1>7. CASE scanning' = [scanning EXCEPT ![p] = NoScan] /\ unsent' = TRUE
  <2> HIDE DEF key, s
  <2> QED
    BY <1>2, <1>4, <1>7, NoScanInv, ThreadStep
<1> QED
  BY <1>2, <1>6, <1>7

LEMMA SaveSnapshotInv ==
  ASSUME MonitorInv, NEW p \in Threads, SaveSnapshot(p)
  PROVE  MonitorInv'
<1> DEFINE old == scanning[p]
           d == old.device
           changes == Found(old)
           s == [old EXCEPT !.step = "notify", !.left = changes \X Channels]
<1>1. old \in Scan /\ ScanInv(p) /\ old.step = "save"
  BY ThreadTypes DEF SaveSnapshot
<1>2. /\ d \in Scanned /\ d # Nil /\ old.current \in Software /\ old.left = {}
      /\ old.previous = latest[d] /\ latest[d] \in Software \cup {Nil}
      /\ replayed[d] = latest[d]
  BY <1>1, ScannedAssumption DEF ScanInv, Scan, MonitorInv, MonitorTypes, ChangesCompose
<1>3. changes \subseteq Change
  BY <1>2, ChangesOfTitles DEF Found
<1>4. /\ latest' = [latest EXCEPT ![d] = old.current]
      /\ scanning' = [scanning EXCEPT ![p] = s]
      /\ reported' = reported \cup {[device |-> d, change |-> c] : c \in changes}
      /\ replayed' = [replayed EXCEPT ![d] =
           IF @ = Nil THEN old.current
           ELSE [t \in Titles |->
                   IF \E c \in changes : c.title = t
                   THEN (CHOOSE c \in changes : c.title = t).current ELSE @[t]]]
      /\ UNCHANGED <<notified, unsent, clock>>
  BY <1>2 DEF SaveSnapshot, Found, MonitorInv, MonitorTypes
<1>5. /\ s \in Scan /\ s.device = d /\ s.step = "notify" /\ s.current = old.current
      /\ s.left = changes \X Channels
  BY <1>1, <1>3 DEF Scan
<1>6. replayed'[d] = old.current
  <2>1. CASE latest[d] = Nil
    BY <1>2, <1>4, <2>1 DEF MonitorInv, MonitorTypes
  <2>2. CASE latest[d] # Nil
    <3>1. changes = Changes(latest[d], old.current) /\ latest[d] \in Software
      BY <1>2, <2>2 DEF Found
    <3>2. [t \in Titles |->
             IF \E c \in changes : c.title = t
             THEN (CHOOSE c \in changes : c.title = t).current ELSE latest[d][t]] = old.current
      BY <1>2, <3>1, ChangesReplay
    <3> HIDE DEF changes
    <3> QED
      BY <1>2, <1>4, <2>2, <3>2 DEF MonitorInv, MonitorTypes
  <2> QED
    BY <2>1, <2>2
<1> HIDE DEF changes, s
<1>7. /\ \A e \in Scanned \ {d} : replayed'[e] = replayed[e] /\ latest'[e] = latest[e]
      /\ latest'[d] = old.current
      /\ DOMAIN replayed' = Scanned
      /\ replayed' = [e \in Scanned |-> replayed'[e]]
  BY <1>2, <1>4 DEF MonitorInv, MonitorTypes
<1>8. MonitorTypes'
  <2>1. latest' \in [Scanned -> Software \cup {Nil}]
    BY <1>2, <1>4 DEF MonitorInv, MonitorTypes
  <2>2. replayed' \in [Scanned -> Software \cup {Nil}]
    BY <1>2, <1>6, <1>7 DEF MonitorInv, MonitorTypes
  <2>3. reported' \subseteq Reported
    BY <1>2, <1>3, <1>4 DEF MonitorInv, MonitorTypes, Reported
  <2> QED
    BY <1>4, <1>5, <2>1, <2>2, <2>3 DEF MonitorInv, MonitorTypes
<1>9. /\ scanning'[p] = s
      /\ \A q \in Threads \ {p} : scanning'[q] = scanning[q]
  BY <1>4 DEF MonitorInv, MonitorTypes
<1>10. ASSUME NEW q \in Threads
       PROVE  ScanInv(q)'
  <2>1. CASE q = p
    <3>1. \A c \in s.left : [device |-> d, change |-> c[1]] \in reported'
      BY <1>4, <1>5
    <3> QED
      BY <1>2, <1>5, <1>9, <2>1, <3>1 DEF ScanInv
  <2>2. CASE q # p
    <3>1. ScanInv(q) /\ scanning[q] \in Scan /\ NotOverlapping(q, p)
      BY <2>2, ThreadTypes DEF MonitorInv
    <3>2. scanning[q].device # d
      BY <1>2, <3>1 DEF NotOverlapping
    <3>3. scanning[q].step = "save" => latest'[scanning[q].device] = latest[scanning[q].device]
      BY <1>7, <3>1, <3>2 DEF ScanInv, Scan
    <3> QED
      BY <1>4, <1>9, <2>2, <3>1, <3>3 DEF ScanInv
  <2> QED
    BY <2>1, <2>2
<1>11. ASSUME NEW q \in Threads, NEW u \in Threads, q # u
       PROVE  NotOverlapping(q, u)'
  BY <1>5, <1>9, <1>11 DEF MonitorInv, NotOverlapping
<1>12. ASSUME NEW r \in reported', NEW channel \in Channels
       PROVE  WillBeNotified(r, channel)'
  <2>1. CASE r \in reported
    <3>1. WillBeNotified(r, channel)
      BY <2>1 DEF MonitorInv
    <3> QED
      BY <1>2, <1>4, <1>9, <3>1 DEF WillBeNotified
  <2>2. CASE \E c \in changes : r = [device |-> d, change |-> c]
    <3>1. r.device = d /\ <<r.change, channel>> \in s.left
      BY <1>5, <2>2
    <3> QED
      BY <1>5, <1>9, <3>1 DEF WillBeNotified
  <2> QED
    BY <1>4, <2>1, <2>2
<1>13. ChangesCompose'
  <2>1. \A e \in Scanned : replayed'[e] = latest'[e]
    BY <1>6, <1>7 DEF MonitorInv, ChangesCompose
  <2> QED
    BY <2>1 DEF ChangesCompose
<1>14. \A n \in notified' :
         \E channel \in Channels, r \in reported' :
           n = <<channel, NotificationKey(r.device, r.change)>>
  BY <1>4 DEF MonitorInv
<1> QED
  BY <1>8, <1>10, <1>11, <1>12, <1>13, <1>14 DEF MonitorInv

LEMMA MonitorNextInv == MonitorInv /\ [MonitorNext]_monitorVars => MonitorInv'
<1> SUFFICES ASSUME MonitorInv, [MonitorNext]_monitorVars PROVE MonitorInv'
  OBVIOUS
<1>1. CASE UNCHANGED monitorVars
  BY <1>1 DEF monitorVars, MonitorInv, MonitorTypes, ScanInv, NotOverlapping, WillBeNotified,
              ChangesCompose
<1>2. CASE MonitorNext
  BY <1>2, BeginScanInv, ReadPreviousInv, SaveSnapshotInv, EndScanInv, NotifyInv
     DEF MonitorNext
<1> QED
  BY <1>1, <1>2

LEMMA MonitorInvHolds == MonitorSpec => []MonitorInv
BY MonitorInitInv, MonitorNextInv, PTL DEF MonitorSpec

\* The changes reported for a device, applied to its first snapshot, always give its
\* latest one.
THEOREM ScansDoNotOverlap == MonitorSpec => []ChangesCompose
<1>1. MonitorInv => ChangesCompose
  BY DEF MonitorInv
<1> QED
  BY <1>1, MonitorInvHolds, PTL

\* What was notified are the changes between successive snapshots, and none is
\* missing between scans unless a provider failed.
THEOREM NotificationsAreOfChanges == MonitorSpec => []NotificationsMatchChanges
<1>1. MonitorInv => NotificationsMatchChanges
  <2> SUFFICES ASSUME MonitorInv PROVE NotificationsMatchChanges
    OBVIOUS
  <2> DEFINE keys(channel) == {k[2] : k \in {n \in notified : n[1] = channel}}
             found == {NotificationKey(r.device, r.change) : r \in reported}
  <2>1. ASSUME NEW channel \in Channels
        PROVE  keys(channel) \subseteq found
    <3> SUFFICES ASSUME NEW n \in notified PROVE n[2] \in found
      OBVIOUS
    <3>1. PICK ch \in Channels, r \in reported :
            n = <<ch, NotificationKey(r.device, r.change)>>
      BY DEF MonitorInv
    <3>2. n[2] = NotificationKey(r.device, r.change)
      BY <3>1
    <3> QED
      BY <3>2
  <2>2. ASSUME NEW channel \in Channels, ~ unsent, \A p \in Threads : scanning[p].left = {}
        PROVE  found \subseteq keys(channel)
    <3> SUFFICES ASSUME NEW r \in reported
                 PROVE  NotificationKey(r.device, r.change) \in keys(channel)
      OBVIOUS
    <3>1. WillBeNotified(r, channel)
      BY DEF MonitorInv
    <3>2. <<channel, NotificationKey(r.device, r.change)>> \in notified
      BY <2>2, <3>1 DEF WillBeNotified
    <3> QED
      BY <3>2
  <2> QED
    BY <2>1, <2>2 DEF NotificationsMatchChanges
<1> QED
  BY <1>1, MonitorInvHolds, PTL

-----------------------------------------------------------------------------
(* The limit is per client. *)

Passed(c) == {j \in DOMAIN answered : answered[j].client = c /\ answered[j].ok}

Sorted(times) ==
  \A i, j \in DOMAIN times : i <= j => times[i] <= times[j]

Old(at) == ~ (clock - at < Window)

\* f finds the answer behind every time the limiter keeps of a client.
Finds(f, c) ==
  /\ f \in Injection(DOMAIN window[c], Passed(c))
  /\ \A i \in DOMAIN window[c] : answered[f[i]].at = window[c][i]
  /\ \A j \in Passed(c) : (\E i \in DOMAIN window[c] : f[i] = j) \/ Old(answered[j].at)

LimiterInv ==
  /\ clock \in Nat
  /\ proxies \in Deployments
  /\ window \in [Addresses -> Seq(Nat)]
  /\ answered \in Seq([client : Clients, at : Nat, ok : BOOLEAN])
  /\ \A i \in DOMAIN answered : answered[i].at <= clock
  /\ \A c \in Clients : Sorted(window[c]) /\ \A i \in DOMAIN window[c] : window[c][i] <= clock
  /\ \A c \in Clients : \E f : Finds(f, c)
  /\ LimitIsPerClient

\* The limiter takes the address the outermost proxy was called from, whatever
\* header came with the request.
LEMMA KeyIsClient ==
  ASSUME NEW c \in Clients, NEW header \in Headers, proxies \in Deployments
  PROVE  ClientKey(Forwarded(c, header), Peer(c)) = c
<1>1. /\ header \in Seq({header[i] : i \in DOMAIN header})
      /\ proxies \in Seq({proxies[i] : i \in DOMAIN proxies})
  BY LimiterAssumption
<1>2. CASE proxies = <<>>
  BY <1>2 DEF ClientKey, TrustedHops, Peer
<1>3. CASE proxies # <<>>
  <2> DEFINE all == {header[i] : i \in DOMAIN header} \cup {proxies[i] : i \in DOMAIN proxies} \cup {c}
             path == <<c>> \o proxies
             tail == SubSeq(path, 1, Len(proxies))
             hops == header \o tail
  <2>1. header \in Seq(all) /\ proxies \in Seq(all) /\ c \in all
    BY <1>1, SeqMonotonic
  <2> HIDE DEF all
  <2>2. Len(proxies) \in Nat \ {0}
    BY <1>3, <2>1
  <2>3. path \in Seq(all) /\ Len(path) = Len(proxies) + 1 /\ path[1] = c
    BY <2>1
  <2> HIDE DEF path
  <2>4. tail \in Seq(all) /\ Len(tail) = Len(proxies) /\ tail[1] = c
    BY <2>2, <2>3
  <2> HIDE DEF tail
  <2>5. /\ hops \in Seq(all) /\ Len(hops) = Len(header) + Len(proxies)
        /\ hops[Len(header) + 1] = c /\ Len(header) \in Nat
    BY <2>1, <2>2, <2>4
  <2>6. Forwarded(c, header) = hops
    BY DEF Forwarded, hops, tail, path
  <2> HIDE DEF hops
  <2>7. Len(hops) - TrustedHops + 1 = Len(header) + 1
    BY <2>2, <2>5 DEF TrustedHops
  <2>8. TrustedHops \in Nat /\ ~ TrustedHops <= 0 /\ ~ Len(hops) < TrustedHops /\ hops # <<>>
    BY <2>2, <2>5 DEF TrustedHops
  <2> QED
    BY <2>5, <2>6, <2>7, <2>8 DEF ClientKey
<1> QED
  BY <1>2, <1>3

\* A set of numbers has a least one.
LEMMA LeastNumber ==
  ASSUME NEW S, S \subseteq Nat, S # {}
  PROVE  \E m \in S : \A n \in S : m <= n
<1> DEFINE Less == OpToRel(<, Nat)
<1>1. \E m \in S : \A n \in S : ~ (<<n, m>> \in Less)
  BY NatLessThanWellFounded, WFMin, Zenon
<1>2. \A m, n \in Nat : <<n, m>> \in Less <=> n < m
  BY DEF OpToRel
<1> HIDE DEF Less
<1>3. PICK m \in S : \A n \in S : ~ (<<n, m>> \in Less)
  BY <1>1
<1>4. \A n \in S : ~ n < m
  BY <1>2, <1>3
<1> QED
  BY <1>4

\* allow drops a prefix of the times: exactly those that are old.
LEMMA CurrentIsSuffix ==
  ASSUME clock \in Nat, NEW times \in Seq(Nat), Sorted(times),
         \A i \in DOMAIN times : times[i] <= clock
  PROVE  /\ Current(times) \in Seq(Nat)
         /\ \E k \in 0 .. Len(times) :
              /\ Len(Current(times)) = Len(times) - k
              /\ \A i \in 1 .. Len(times) - k : Current(times)[i] = times[i + k]
              /\ \A i \in DOMAIN times : Old(times[i]) <=> i <= k
<1> DEFINE fresh == {i \in DOMAIN times : clock - times[i] < Window}
           first == CHOOSE i \in fresh : \A j \in fresh : i <= j
           n == Len(times)
<1>1. n \in Nat /\ DOMAIN times = 1 .. n /\ fresh \subseteq 1 .. n
  OBVIOUS
<1>2. CASE fresh = {}
  <2>1. Current(times) = <<>>
    BY <1>2 DEF Current
  <2>2. \A i \in DOMAIN times : Old(times[i]) /\ i <= n
    BY <1>1, <1>2 DEF Old
  <2>3. n \in 0 .. n /\ Len(Current(times)) = n - n
    BY <1>1, <2>1
  <2>4. \A i \in 1 .. n - n : Current(times)[i] = times[i + n]
    BY <1>1
  <2>5. Current(times) \in Seq(Nat)
    BY <2>1
  <2>6. \A i \in DOMAIN times : Old(times[i]) <=> i <= n
    BY <1>1, <2>2
  <2> QED
    BY <2>3, <2>4, <2>5, <2>6
<1>3. CASE fresh # {}
  <2>1. \E i \in fresh : \A j \in fresh : i <= j
    <3>1. fresh \subseteq Nat
      BY <1>1
    <3> HIDE DEF fresh
    <3> QED
      BY <1>3, <3>1, LeastNumber
  <2>2. first \in fresh /\ \A j \in fresh : first <= j
    BY <2>1
  <2>3. Current(times) = SubSeq(times, first, n)
    BY <1>3 DEF Current
  <2> HIDE DEF first
  <2>4. ASSUME NEW i \in 1 .. n
        PROVE  i \in fresh <=> i >= first
    <3>1. CASE i >= first
      <4>1. times[first] <= times[i] /\ times[first] \in Nat /\ times[i] \in Nat
        BY <1>1, <2>2, <3>1 DEF Sorted
      <4> QED
        BY <1>1, <2>2, <3>1, <4>1, LimiterAssumption
    <3>2. CASE ~ i >= first
      BY <1>1, <2>2, <3>2
    <3> QED
      BY <3>1, <3>2
  <2>5. /\ SubSeq(times, first, n) \in Seq(Nat)
        /\ Len(SubSeq(times, first, n)) = n - (first - 1)
        /\ \A i \in 1 .. n - (first - 1) : SubSeq(times, first, n)[i] = times[i + (first - 1)]
    <3>1. first \in 1 .. n /\ \A i \in first .. n : times[i] \in Nat
      BY <1>1, <2>2
    <3>2. /\ SubSeq(times, first, n) \in Seq(Nat)
          /\ Len(SubSeq(times, first, n)) = IF first <= n THEN n - first + 1 ELSE 0
          /\ \A i \in 1 .. n - first + 1 : SubSeq(times, first, n)[i] = times[first + i - 1]
      BY <1>1, <3>1, SubSeqProperties
    <3> QED
      BY <1>1, <3>1, <3>2
  <2>6. \A i \in 1 .. n : i \in fresh <=> ~ Old(times[i])
    BY <1>1 DEF Old
  <2> HIDE DEF fresh
  <2>7. first - 1 \in 0 .. n
    BY <1>1, <2>2
  <2>8. \A i \in DOMAIN times : Old(times[i]) <=> i <= first - 1
    BY <1>1, <2>2, <2>4, <2>6
  <2> QED
    BY <2>3, <2>5, <2>7, <2>8
<1> QED
  BY <1>2, <1>3

LEMMA LimiterInitInv == LimiterInit /\ ClockInit => LimiterInv
<1> SUFFICES ASSUME LimiterInit, ClockInit PROVE LimiterInv
  OBVIOUS
<1>1. /\ clock = 0 /\ answered = <<>> /\ proxies \in Deployments
      /\ window = [a \in Addresses |-> <<>>]
  BY DEF LimiterInit, ClockInit
<1>2. ASSUME NEW c \in Clients
      PROVE  window[c] = <<>> /\ \E f : Finds(f, c)
  <2>1. c \in Addresses
    BY DEF Addresses
  <2>2. window[c] = <<>> /\ Passed(c) = {}
    BY <1>1, <2>1 DEF Passed
  <2> DEFINE f == [i \in {} |-> i]
  <2>3. f \in Injection({}, {})
    BY DEF Injection, IsInjective
  <2>4. DOMAIN window[c] = {}
    BY <2>2
  <2> HIDE DEF f
  <2> QED
    BY <2>2, <2>3, <2>4 DEF Finds
<1> QED
  BY <1>1, <1>2 DEF LimiterInv, LimitIsPerClient, Sorted

\* What the limiter counts are the answers the limit is about.
LEMMA CountsPassed ==
  ASSUME LimiterInv, NEW c \in Clients
  PROVE  /\ Cardinality({j \in Passed(c) : ~ Old(answered[j].at)}) = Len(Current(window[c]))
         /\ Current(window[c]) \in Seq(Nat) /\ Sorted(Current(window[c]))
         /\ \A i \in DOMAIN Current(window[c]) : Current(window[c])[i] <= clock
         /\ \E g : /\ g \in Injection(DOMAIN Current(window[c]), Passed(c))
                   /\ \A i \in DOMAIN Current(window[c]) :
                        answered[g[i]].at = Current(window[c])[i]
                   /\ \A j \in Passed(c) :
                        (\E i \in DOMAIN Current(window[c]) : g[i] = j) \/ Old(answered[j].at)
<1> DEFINE times == window[c]
           recent == Current(times)
           young == {j \in Passed(c) : ~ Old(answered[j].at)}
<1>1. /\ clock \in Nat /\ times \in Seq(Nat) /\ Sorted(times)
      /\ \A i \in DOMAIN times : times[i] <= clock
  BY DEF LimiterInv, Addresses
<1>2. PICK f : Finds(f, c)
  BY DEF LimiterInv
<1> HIDE DEF times
<1>3. recent \in Seq(Nat)
  BY <1>1, CurrentIsSuffix
<1>4. PICK k \in 0 .. Len(times) :
        /\ Len(recent) = Len(times) - k
        /\ \A i \in 1 .. Len(times) - k : recent[i] = times[i + k]
        /\ \A i \in DOMAIN times : Old(times[i]) <=> i <= k
  BY <1>1, CurrentIsSuffix
<1> HIDE DEF recent
<1>5. /\ DOMAIN times = 1 .. Len(times) /\ Len(times) \in Nat
      /\ DOMAIN recent = 1 .. Len(times) - k
      /\ \A i \in DOMAIN recent : i + k \in DOMAIN times /\ ~ i + k <= k
  BY <1>1, <1>3, <1>4
<1>6. /\ f \in Injection(DOMAIN times, Passed(c))
      /\ \A i \in DOMAIN times : answered[f[i]].at = times[i]
      /\ \A j \in Passed(c) : (\E i \in DOMAIN times : f[i] = j) \/ Old(answered[j].at)
  BY <1>2 DEF Finds, times
<1> DEFINE g == [i \in DOMAIN recent |-> f[i + k]]
<1>7. g \in Injection(DOMAIN recent, Passed(c))
  <2>1. ASSUME NEW i \in DOMAIN recent, NEW l \in DOMAIN recent, g[i] = g[l]
        PROVE  i = l
    <3>1. f[i + k] = f[l + k] /\ i + k \in DOMAIN times /\ l + k \in DOMAIN times
      BY <1>5, <2>1
    <3> HIDE DEF g
    <3>2. i + k = l + k
      BY <1>6, <3>1 DEF Injection, IsInjective
    <3> QED
      BY <1>5, <3>2
  <2>2. g \in [DOMAIN recent -> Passed(c)]
    BY <1>5, <1>6 DEF Injection, IsInjective
  <2> HIDE DEF g
  <2> QED
    BY <2>1, <2>2, Zenon DEF Injection, IsInjective
<1>8. \A i \in DOMAIN recent : answered[g[i]].at = recent[i] /\ ~ Old(answered[g[i]].at)
  BY <1>4, <1>5, <1>6
<1>9. ASSUME NEW j \in Passed(c), ~ Old(answered[j].at)
      PROVE  \E i \in DOMAIN recent : g[i] = j
  <2>1. PICK i \in DOMAIN times : f[i] = j
    BY <1>6, <1>9
  <2>2. ~ i <= k
    BY <1>4, <1>6, <1>9, <2>1
  <2>3. i - k \in DOMAIN recent /\ (i - k) + k = i
    BY <1>4, <1>5, <2>1, <2>2
  <2> QED
    BY <2>1, <2>3
<1> HIDE DEF g
<1>10. g \in Bijection(DOMAIN recent, young)
  <2>1. g \in [DOMAIN recent -> young]
    BY <1>7, <1>8 DEF Injection, IsInjective
  <2>2. \A j \in young : \E i \in DOMAIN recent : g[i] = j
    BY <1>9
  <2> QED
    BY <1>7, <2>1, <2>2 DEF Bijection, Injection, Surjection
<1>11. Cardinality(young) = Len(recent)
  <2>1. IsFiniteSet(DOMAIN recent) /\ Cardinality(DOMAIN recent) = Len(recent)
    <3>1. PICK n \in Nat : n = Len(recent) /\ DOMAIN recent = 1 .. n
      BY <1>3
    <3>2. n \in Int /\ 1 \in Int
      OBVIOUS
    <3>3. IsFiniteSet(1 .. n) /\ Cardinality(1 .. n) = IF 1 > n THEN 0 ELSE n - 1 + 1
      BY <3>2, FS_Interval, Zenon
    <3> QED
      BY <3>1, <3>3
  <2>2. ExistsBijection(DOMAIN recent, young)
    BY <1>10 DEF ExistsBijection
  <2> HIDE DEF young
  <2> QED
    BY <2>1, <2>2, FS_Bijection
<1>12. Sorted(recent) /\ \A i \in DOMAIN recent : recent[i] <= clock
  <2>1. \A i \in DOMAIN recent : recent[i] = times[i + k] /\ i \in Nat
    BY <1>4, <1>5
  <2>2. ASSUME NEW i \in DOMAIN recent, NEW l \in DOMAIN recent, i <= l
        PROVE  recent[i] <= recent[l]
    <3>1. i + k <= l + k
      BY <2>1, <2>2
    <3> QED
      BY <1>1, <1>5, <2>1, <3>1 DEF Sorted
  <2> QED
    BY <1>1, <1>5, <2>1, <2>2 DEF Sorted
<1>13. \A j \in Passed(c) : (\E i \in DOMAIN recent : g[i] = j) \/ Old(answered[j].at)
  BY <1>9
<1> QED
  BY <1>3, <1>7, <1>8, <1>11, <1>12, <1>13 DEF recent, times

LEMMA RequestInv ==
  ASSUME LimiterInv, NEW c \in Clients, NEW header \in Headers, Request(c, header)
  PROVE  LimiterInv'
<1> DEFINE recent == Current(window[c])
           allowed == Len(recent) < Limit
           entry == [client |-> c, at |-> clock, ok |-> allowed]
           young == {j \in Passed(c) : ~ Old(answered[j].at)}
<1>1. /\ window' = [window EXCEPT ![c] = IF allowed THEN Append(recent, clock) ELSE recent]
      /\ answered' = Append(answered, entry)
      /\ proxies' = proxies /\ clock' = clock
  BY KeyIsClient DEF Request, LimiterInv
<1>2. /\ clock \in Nat /\ proxies \in Deployments /\ window \in [Addresses -> Seq(Nat)]
      /\ answered \in Seq([client : Clients, at : Nat, ok : BOOLEAN])
      /\ \A i \in DOMAIN answered : answered[i].at <= clock
      /\ c \in Addresses /\ \A o \in Clients : o \in Addresses
  BY DEF LimiterInv, Addresses
<1>3. /\ Cardinality(young) = Len(recent)
      /\ recent \in Seq(Nat) /\ Sorted(recent)
      /\ \A i \in DOMAIN recent : recent[i] <= clock
  BY CountsPassed
<1>4. PICK g : /\ g \in Injection(DOMAIN recent, Passed(c))
               /\ \A i \in DOMAIN recent : answered[g[i]].at = recent[i]
               /\ \A j \in Passed(c) : (\E i \in DOMAIN recent : g[i] = j) \/ Old(answered[j].at)
  BY CountsPassed
<1>5. PICK n \in Nat : n = Len(answered) + 1
  BY <1>2
<1>6. PICK m \in Nat : m = Len(recent)
  BY <1>3
<1>7. DOMAIN recent = 1 .. m /\ DOMAIN answered = 1 .. n - 1
  BY <1>2, <1>3, <1>5, <1>6
<1>8. entry \in [client : Clients, at : Nat, ok : BOOLEAN]
  BY <1>2
<1> HIDE DEF recent
<1>9. /\ answered' \in Seq([client : Clients, at : Nat, ok : BOOLEAN])
      /\ DOMAIN answered' = 1 .. n
      /\ \A i \in 1 .. n - 1 : answered'[i] = answered[i]
      /\ answered'[n] = entry
  <2> HIDE DEF entry
  <2> QED
    BY <1>1, <1>2, <1>5, <1>8
<1>10. /\ entry.client = c /\ entry.at = clock
       /\ entry.ok <=> allowed
  OBVIOUS
<1> HIDE DEF entry
<1>11. /\ window'[c] = (IF allowed THEN Append(recent, clock) ELSE recent)
       /\ \A o \in Clients \ {c} : window'[o] = window[o]
       /\ window' \in [Addresses -> Seq(Nat)]
  BY <1>1, <1>2, <1>3
<1>12. \A o \in Clients \ {c} : Passed(o)' = Passed(o)
  BY <1>5, <1>7, <1>9, <1>10 DEF Passed
<1>13. Passed(c)' = Passed(c) \cup (IF allowed THEN {n} ELSE {})
  BY <1>5, <1>7, <1>9, <1>10 DEF Passed
<1>14. \A o \in Clients : \A j \in Passed(o) : j \in 1 .. n - 1 /\ answered'[j] = answered[j]
  BY <1>7, <1>9 DEF Passed
<1>16. \A i \in DOMAIN answered' : answered'[i].at <= clock'
  BY <1>1, <1>2, <1>5, <1>7, <1>9, <1>10
<1>17. ASSUME NEW o \in Clients \ {c}
       PROVE  /\ Sorted(window'[o]) /\ \A i \in DOMAIN window'[o] : window'[o][i] <= clock'
              /\ \E f : Finds(f, o)'
  <2>1. Sorted(window[o]) /\ \A i \in DOMAIN window[o] : window[o][i] <= clock
    BY DEF LimiterInv
  <2>2. PICK f : Finds(f, o)
    BY DEF LimiterInv
  <2>3. /\ f \in [DOMAIN window[o] -> Passed(o)]
        /\ f \in Injection(DOMAIN window[o], Passed(o))
    BY <2>2 DEF Finds, Injection
  <2>4. Finds(f, o)'
    <3>1. \A i \in DOMAIN window[o] : answered'[f[i]].at = window[o][i]
      BY <1>14, <2>2, <2>3 DEF Finds
    <3>2. \A j \in Passed(o) : (\E i \in DOMAIN window[o] : f[i] = j) \/ Old(answered[j].at)'
      BY <1>1, <1>14, <2>2 DEF Finds, Old
    <3> QED
      BY <1>11, <1>12, <2>3, <3>1, <3>2 DEF Finds
  <2> QED
    BY <1>1, <1>11, <2>1, <2>4
<1>18. /\ Sorted(window'[c]) /\ \A i \in DOMAIN window'[c] : window'[c][i] <= clock'
       /\ \E f : Finds(f, c)'
  <2>1. CASE ~ allowed
    <3>1. window'[c] = recent /\ Passed(c)' = Passed(c)
      BY <1>11, <1>13, <2>1
    <3>2. g \in [DOMAIN recent -> Passed(c)]
      BY <1>4 DEF Injection
    <3>3. \A i \in DOMAIN recent : answered'[g[i]].at = recent[i]
      BY <1>4, <1>14, <3>2
    <3>4. \A j \in Passed(c) : (\E i \in DOMAIN recent : g[i] = j) \/ Old(answered[j].at)'
      BY <1>1, <1>4, <1>14 DEF Old
    <3>5. Finds(g, c)'
      BY <1>4, <3>1, <3>3, <3>4 DEF Finds
    <3> QED
      BY <1>1, <1>3, <3>1, <3>5
  <2>2. CASE allowed
    <3>1. window'[c] = Append(recent, clock) /\ Passed(c)' = Passed(c) \cup {n}
      BY <1>11, <1>13, <2>2
    <3>2. /\ DOMAIN window'[c] = 1 .. m + 1
          /\ \A i \in 1 .. m : window'[c][i] = recent[i]
          /\ window'[c][m + 1] = clock
      BY <1>2, <1>3, <1>6, <3>1
    <3>3. Sorted(window'[c]) /\ \A i \in DOMAIN window'[c] : window'[c][i] <= clock'
      <4>1. \A i \in 1 .. m : recent[i] <= clock /\ recent[i] \in Nat
        BY <1>3, <1>7
      <4>2. \A i \in 1 .. m + 1 : i \in 1 .. m \/ i = m + 1
        OBVIOUS
      <4>3. ASSUME NEW i \in 1 .. m + 1, NEW l \in 1 .. m + 1, i <= l
            PROVE  window'[c][i] <= window'[c][l]
        <5>1. CASE l = m + 1
          <6>1. window'[c][l] = clock /\ clock <= clock
            BY <1>2, <3>2, <5>1
          <6>2. i \in 1 .. m => window'[c][i] <= clock
            BY <3>2, <4>1
          <6>3. i = m + 1 => window'[c][i] <= clock
            BY <1>2, <3>2
          <6> QED
            BY <4>2, <6>1, <6>2, <6>3
        <5>2. CASE l # m + 1
          <6>1. i \in 1 .. m /\ l \in 1 .. m
            BY <4>3, <5>2
          <6> QED
            BY <1>3, <1>7, <3>2, <4>3, <6>1 DEF Sorted
        <5> QED
          BY <5>1, <5>2
      <4>4. \A i \in 1 .. m + 1 : window'[c][i] <= clock
        <5>1. \A i \in 1 .. m : window'[c][i] <= clock
          BY <3>2, <4>1
        <5>2. window'[c][m + 1] <= clock
          BY <1>2, <3>2
        <5> QED
          BY <4>2, <5>1, <5>2
      <4>5. Sorted(window'[c])
        BY <3>2, <4>3 DEF Sorted
      <4> QED
        BY <1>1, <3>2, <4>4, <4>5
    <3>4. /\ g \in [1 .. m -> Passed(c)]
          /\ \A i, l \in 1 .. m : g[i] = g[l] => i = l
      BY <1>4, <1>7 DEF Injection, IsInjective
    <3> DEFINE f == [i \in 1 .. m + 1 |-> IF i = m + 1 THEN n ELSE g[i]]
    <3>5. /\ \A i \in 1 .. m : f[i] = g[i] /\ f[i] # n
          /\ f[m + 1] = n /\ DOMAIN f = 1 .. m + 1
      <4>1. \A i \in 1 .. m : g[i] # n /\ i # m + 1 /\ i \in 1 .. m + 1
        BY <1>5, <1>14, <3>4
      <4>2. m + 1 \in 1 .. m + 1
        OBVIOUS
      <4> QED
        BY <4>1, <4>2
    <3>6. f \in [1 .. m + 1 -> Passed(c)']
      BY <3>1, <3>4
    <3> HIDE DEF f
    <3>7. f \in Injection(DOMAIN window'[c], Passed(c)')
      <4>1. \A i \in 1 .. m + 1 : i \in 1 .. m \/ i = m + 1
        OBVIOUS
      <4>2. \A i, l \in 1 .. m + 1 : f[i] = f[l] => i = l
        BY <3>4, <3>5, <4>1
      <4> QED
        BY <3>2, <3>5, <3>6, <4>2 DEF Injection, IsInjective
    <3>8. \A i \in DOMAIN window'[c] : answered'[f[i]].at = window'[c][i]
      <4>1. ASSUME NEW i \in 1 .. m
            PROVE  answered'[f[i]].at = window'[c][i]
        BY <1>4, <1>7, <1>14, <3>2, <3>4, <3>5
      <4>2. answered'[f[m + 1]].at = window'[c][m + 1]
        BY <1>9, <1>10, <3>2, <3>5
      <4> QED
        BY <3>2, <4>1, <4>2
    <3>9. \A j \in Passed(c)' : (\E i \in DOMAIN window'[c] : f[i] = j) \/ Old(answered[j].at)'
      <4>1. ASSUME NEW j \in Passed(c), ~ Old(answered[j].at)'
            PROVE  \E i \in 1 .. m : g[i] = j
        BY <1>1, <1>4, <1>7, <1>14, <4>1 DEF Old
      <4>2. \A i \in 1 .. m : i \in DOMAIN window'[c] /\ f[i] = g[i]
        BY <3>2, <3>5
      <4>3. m + 1 \in DOMAIN window'[c] /\ f[m + 1] = n
        BY <3>2, <3>5
      <4> QED
        BY <3>1, <4>1, <4>2, <4>3
    <3>10. Finds(f, c)'
      BY <3>7, <3>8, <3>9 DEF Finds
    <3> QED
      BY <3>3, <3>10
  <2> QED
    BY <2>1, <2>2
<1>19. LimitIsPerClient'
  <2>1. ASSUME NEW i \in 1 .. n - 1
        PROVE  answered'[i].ok <=> Cardinality(PassedBefore(i)') < Limit
    <3>1. \A j \in 1 .. i - 1 : j \in 1 .. n - 1
      BY <1>5
    <3>2. PassedBefore(i)' = PassedBefore(i)
      BY <1>9, <3>1 DEF PassedBefore
    <3>3. answered[i].ok <=> Cardinality(PassedBefore(i)) < Limit
      BY <1>7 DEF LimiterInv, LimitIsPerClient
    <3> QED
      BY <1>9, <3>2, <3>3
  <2>2. answered'[n].ok <=> Cardinality(PassedBefore(n)') < Limit
    <3>1. PassedBefore(n)' = young
      <4>1. \A j \in 1 .. n - 1 : answered'[j] = answered[j]
        BY <1>9
      <4> QED
        BY <1>1, <1>7, <1>9, <1>10, <4>1 DEF PassedBefore, Passed, Old
    <3> QED
      BY <1>3, <1>9, <1>10, <3>1
  <2>3. \A i \in 1 .. n : i \in 1 .. n - 1 \/ i = n
    BY <1>5
  <2> QED
    BY <1>9, <2>1, <2>2, <2>3 DEF LimitIsPerClient
<1>20. \A o \in Clients :
         /\ Sorted(window'[o]) /\ \A i \in DOMAIN window'[o] : window'[o][i] <= clock'
         /\ \E f : Finds(f, o)'
  BY <1>17, <1>18
<1>21. clock' \in Nat /\ proxies' \in Deployments
  BY <1>1, <1>2
<1> QED
  BY <1>9, <1>11, <1>16, <1>19, <1>20, <1>21 DEF LimiterInv, Sorted

LEMMA AdvanceInv ==
  ASSUME LimiterInv, Advance, UNCHANGED <<proxies, window, answered>>
  PROVE  LimiterInv'
<1>1. /\ clock \in Nat /\ clock' = clock + 1
      /\ proxies' = proxies /\ window' = window /\ answered' = answered
  BY DEF Advance, LimiterInv
<1>0. \A i \in DOMAIN answered : answered[i].at \in Nat
  <2> DEFINE Answer == [client : Clients, at : Nat, ok : BOOLEAN]
  <2>1. answered \in Seq(Answer) /\ \A e \in Answer : e.at \in Nat
    BY DEF LimiterInv
  <2> HIDE DEF Answer
  <2> QED
    BY <2>1
<1>2. ASSUME NEW c \in Clients
      PROVE  /\ \A i \in DOMAIN window[c] : window[c][i] <= clock'
             /\ \E f : Finds(f, c)'
  <2>1. /\ window[c] \in Seq(Nat)
        /\ \A i \in DOMAIN window[c] : window[c][i] <= clock
    BY DEF LimiterInv, Addresses
  <2>2. PICK f : Finds(f, c)
    BY DEF LimiterInv
  <2>3. Passed(c)' = Passed(c)
    BY <1>1 DEF Passed
  <2>4. \A j \in Passed(c) : answered[j].at \in Nat
    BY <1>0 DEF Passed
  <2>5. \A j \in Passed(c) : Old(answered[j].at) => Old(answered[j].at)'
    BY <1>1, <2>4, LimiterAssumption DEF Old
  <2>6. Finds(f, c)'
    BY <1>1, <2>2, <2>3, <2>5 DEF Finds
  <2>7. \A i \in DOMAIN window[c] : window[c][i] <= clock'
    BY <1>1, <2>1
  <2> QED
    BY <2>6, <2>7
<1>3. \A i \in DOMAIN answered : answered[i].at <= clock'
  BY <1>0, <1>1 DEF LimiterInv
<1>4. LimitIsPerClient'
  BY <1>1 DEF LimiterInv, LimitIsPerClient, PassedBefore
<1> QED
  BY <1>1, <1>2, <1>3, <1>4 DEF LimiterInv, Sorted

LEMMA LimiterNextInv == LimiterInv /\ [LimiterNext]_limiterVars => LimiterInv'
<1> SUFFICES ASSUME LimiterInv, [LimiterNext]_limiterVars PROVE LimiterInv'
  OBVIOUS
<1>1. CASE UNCHANGED limiterVars
  <2>1. proxies' = proxies /\ window' = window /\ answered' = answered /\ clock' = clock
    BY <1>1 DEF limiterVars
  <2>2. LimitIsPerClient'
    BY <2>1 DEF LimiterInv, LimitIsPerClient, PassedBefore
  <2>3. ASSUME NEW c \in Clients
        PROVE  \E f : Finds(f, c)'
    <3>1. PICK f : Finds(f, c)
      BY DEF LimiterInv
    <3>2. Finds(f, c)'
      BY <2>1, <3>1 DEF Finds, Passed, Old
    <3> QED
      BY <3>2
  <2> QED
    BY <2>1, <2>2, <2>3 DEF LimiterInv, Sorted
<1> QED
  BY <1>1, RequestInv, AdvanceInv DEF LimiterNext

\* No deployment, header or timing lets a client pass more requests in a minute
\* than the limit, or have one refused before (RateLimitMiddleware).
THEOREM LimitIsExact == LimiterSpec => []LimitIsPerClient
<1>1. LimiterInv => LimitIsPerClient
  BY DEF LimiterInv
<1> QED
  BY <1>1, LimiterInitInv, LimiterNextInv, PTL DEF LimiterSpec

-----------------------------------------------------------------------------
(* The components of one process, together. *)

\* A step of a component leaves the clock or moves it to the next time.
LEMMA JobsKeepTime == MemoryJobsNext => clock' = clock \/ Advance
BY DEF MemoryJobsNext, MemoryCreate, MemoryClaim, MemoryFinish

LEMMA EnrollmentKeepsTime == MemoryEnrollmentNext => clock' = clock \/ Advance
BY DEF MemoryEnrollmentNext, AddToken, ConsumeToken, AddDevice, Authenticate, UpdateHeartbeat

LEMMA MonitorKeepsTime == MonitorNext => clock' = clock
BY DEF MonitorNext, BeginScan, ReadPrevious, SaveSnapshot, EndScan, Notify

LEMMA LimiterKeepsTime == LimiterNext => clock' = clock \/ Advance
BY DEF LimiterNext, Request

LEMMA ComplianceKeepsTime == ComplianceNext => clock' = clock \/ Advance
BY DEF ComplianceNext, Evaluate, AskGuard

LEMMA FolderKeepsTime == FolderNext => clock' = clock
BY DEF FolderNext, OpenTemporary, WriteChunk, BreakUpload, Replace, Unlink, OpenDownload,
       ReadChunk, FindFile, Move

LEMMA PackageKeepsTime == PackageNext => clock' = clock
BY DEF PackageNext, Open, PassChunk, EndStream, BreakStream, ChangeDrive

LEMMA AccessKeepsTime == AccessNext => clock' = clock
BY DEF AccessNext, Verify, Reject, Refused, CurrentUser, Handle, ChangeMembers

\* Each step of the process is a step of each component or leaves it alone.
LEMMA StepOfComponents ==
  ASSUME [ServicesNext]_servicesVars
  PROVE  /\ [MemoryJobsNext]_memoryJobsVars /\ [MemoryEnrollmentNext]_memoryEnrollmentVars
         /\ [MonitorNext]_monitorVars /\ [LimiterNext]_limiterVars
         /\ [ComplianceNext]_complianceVars /\ [FolderNext]_folderVars
         /\ [PackageNext]_packageVars /\ [AccessNext]_accessVars
<1>1. clock' = clock \/ Advance
  BY JobsKeepTime, EnrollmentKeepsTime, MonitorKeepsTime, LimiterKeepsTime,
     ComplianceKeepsTime, FolderKeepsTime, PackageKeepsTime, AccessKeepsTime
     DEF ServicesNext, servicesVars, JobsStep, EnrollmentStep, MonitorStep, LimiterStep,
         ComplianceStep, FolderStep, PackageStep, AccessStep
<1>2. MemoryJobsNext \/ UNCHANGED jobsOnly
  BY DEF ServicesNext, servicesVars, JobsStep, EnrollmentStep, MonitorStep, LimiterStep,
         ComplianceStep, FolderStep, PackageStep, AccessStep
<1>3. MemoryEnrollmentNext \/ UNCHANGED enrollmentOnly
  BY DEF ServicesNext, servicesVars, JobsStep, EnrollmentStep, MonitorStep, LimiterStep,
         ComplianceStep, FolderStep, PackageStep, AccessStep
<1>4. MonitorNext \/ UNCHANGED monitorVars
  BY DEF ServicesNext, servicesVars, JobsStep, EnrollmentStep, MonitorStep, LimiterStep,
         ComplianceStep, FolderStep, PackageStep, AccessStep
<1>5. LimiterNext \/ UNCHANGED limiterOnly
  BY DEF ServicesNext, servicesVars, JobsStep, EnrollmentStep, MonitorStep, LimiterStep,
         ComplianceStep, FolderStep, PackageStep, AccessStep
<1>6. ComplianceNext \/ UNCHANGED complianceOnly
  BY DEF ServicesNext, servicesVars, JobsStep, EnrollmentStep, MonitorStep, LimiterStep,
         ComplianceStep, FolderStep, PackageStep, AccessStep
<1>7. FolderNext \/ UNCHANGED folderVars
  BY DEF ServicesNext, servicesVars, JobsStep, EnrollmentStep, MonitorStep, LimiterStep,
         ComplianceStep, FolderStep, PackageStep, AccessStep
<1>8. PackageNext \/ UNCHANGED packageVars
  BY DEF ServicesNext, servicesVars, JobsStep, EnrollmentStep, MonitorStep, LimiterStep,
         ComplianceStep, FolderStep, PackageStep, AccessStep
<1>9. AccessNext \/ UNCHANGED accessVars
  BY DEF ServicesNext, servicesVars, JobsStep, EnrollmentStep, MonitorStep, LimiterStep,
         ComplianceStep, FolderStep, PackageStep, AccessStep
<1>10. [MemoryJobsNext]_memoryJobsVars
  BY <1>1, <1>2 DEF MemoryJobsNext, memoryJobsVars, jobsOnly
<1>11. [MemoryEnrollmentNext]_memoryEnrollmentVars
  BY <1>1, <1>3 DEF MemoryEnrollmentNext, memoryEnrollmentVars, enrollmentOnly
<1>12. [LimiterNext]_limiterVars
  BY <1>1, <1>5 DEF LimiterNext, limiterVars, limiterOnly
<1>13. [ComplianceNext]_complianceVars
  BY <1>1, <1>6 DEF ComplianceNext, complianceVars, complianceOnly
<1> QED
  BY <1>4, <1>7, <1>8, <1>9, <1>10, <1>11, <1>12, <1>13

\* In a process each component behaves as if it were alone.
THEOREM ComponentsStayApart ==
  ServicesSpec =>
    /\ MemoryJobsSpec /\ MemoryEnrollmentSpec /\ MonitorSpec /\ LimiterSpec
    /\ ComplianceSpec /\ FolderSpec /\ PackageSpec /\ AccessSpec
<1>1. ServicesInit => /\ ClockInit /\ MemoryJobsInit /\ MemoryEnrollmentInit /\ MonitorInit
                      /\ LimiterInit /\ ComplianceInit /\ FolderInit /\ PackageInit /\ AccessInit
  BY DEF ServicesInit
<1> QED
  BY <1>1, StepOfComponents, PTL
     DEF ServicesSpec, MemoryJobsSpec, MemoryEnrollmentSpec, MonitorSpec, LimiterSpec,
         ComplianceSpec, FolderSpec, PackageSpec, AccessSpec

LEMMA TemporariesOfUploads == FolderSpec => [](temporaries \subseteq Uploads)
<1>1. FolderInit => temporaries \subseteq Uploads
  BY DEF FolderInit
<1>2. temporaries \subseteq Uploads /\ [FolderNext]_folderVars => (temporaries \subseteq Uploads)'
  BY DEF FolderNext, folderVars, OpenTemporary, WriteChunk, BreakUpload, Replace, Unlink,
         OpenDownload, ReadChunk, FindFile, Move
<1> QED
  BY <1>1, <1>2, PTL DEF FolderSpec

\* The state of every component keeps its type.
THEOREM ServicesTypesCorrect == ServicesSpec => []ServicesTypeOK
<1>1. MemoryJobsSpec => []MemoryInv
  BY MemoryInitInv, MemoryNextInv, PTL DEF MemoryJobsSpec
<1>2. MemoryEnrollmentSpec => []EnrollingInv
  BY EnrollingInitInv, EnrollingNextInv, PTL DEF MemoryEnrollmentSpec
<1>3. LimiterSpec => []LimiterInv
  BY LimiterInitInv, LimiterNextInv, PTL DEF LimiterSpec
<1>4. ComplianceSpec => []ComplianceInv
  BY ComplianceInitInv, ComplianceNextInv, PTL DEF ComplianceSpec
<1>5. PackageSpec => []PackageInv
  BY PackageInitInv, PackageNextInv, PTL DEF PackageSpec
<1>6. AccessSpec => []AccessInv
  BY AccessInitInv, AccessNextInv, PTL DEF AccessSpec
<1>7. MemoryInv => clock \in Nat /\ MemoryJobsTypeOK
  BY DEF MemoryInv, MemoryJobsTypeOK
<1>8. EnrollingInv => MemoryEnrollmentTypeOK
  BY DEF EnrollingInv, Enrollment, Beat, MemoryEnrollmentTypeOK
<1>9. MonitorInv => MonitorTypeOK
  BY DEF MonitorInv, MonitorTypes, Scan, ScanInv, MonitorTypeOK
<1>10. LimiterInv => LimiterTypeOK
  <2> SUFFICES ASSUME LimiterInv PROVE LimiterTypeOK
    OBVIOUS
  <2> DEFINE Answer == [client : Clients, at : Nat, ok : BOOLEAN]
  <2>1. answered \in Seq(Answer) /\ \A e \in Answer : e.client \in Clients
    BY DEF LimiterInv
  <2> HIDE DEF Answer
  <2>2. \A i \in DOMAIN answered : answered[i].client \in Clients
    BY <2>1
  <2> QED
    BY <2>2 DEF LimiterInv, LimiterTypeOK
<1>11. ComplianceInv => ComplianceTypeOK
  BY DEF ComplianceInv, ComplianceTypeOK
<1>12. FolderInv /\ temporaries \subseteq Uploads => FolderTypeOK
  BY DEF FolderInv, FolderTypes, Upload, FolderTypeOK
<1>13. PackageInv => PackageTypeOK
  BY DEF PackageInv, Stream, PackageTypeOK
<1>14. AccessInv => AccessTypeOK
  BY DEF AccessInv, AccessTypes, Call, AccessTypeOK
<1> QED
  BY <1>1, <1>2, <1>3, <1>4, <1>5, <1>6, <1>7, <1>8, <1>9, <1>10, <1>11, <1>12, <1>13, <1>14,
     ComponentsStayApart, MonitorInvHolds, FolderInvHolds, TemporariesOfUploads, PTL
     DEF ServicesTypeOK

\* Each component keeps its promise while the calls of all of them interleave.
THEOREM ServicesKeepPromises ==
  ServicesSpec =>
    /\ MemoryImplementsJobStore
    /\ MemoryImplementsDeviceRegistry
    /\ [](ChangesCompose /\ NotificationsMatchChanges)
    /\ []LimitIsPerClient
    /\ []RemediationsAreSpaced
    /\ [](DownloadsAreWhole /\ UploadsAreAccountedFor)
    /\ []CompleteStreamsAreExact
    /\ []CommandsNeedMembership
BY ComponentsStayApart, MemoryStoreKeepsPromises, MemoryEnrollmentIsRegistry, ScansDoNotOverlap,
   NotificationsAreOfChanges, LimitIsExact, GuardIsExact, FilesAreReadWhole, FilesAreNotLost,
   StreamsAreExact, CommandsAreAuthorized, PTL
=============================================================================
