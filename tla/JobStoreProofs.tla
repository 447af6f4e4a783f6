----------------------------- MODULE JobStoreProofs -----------------------------
(* Proofs of JobStore's properties for every value of its constants. *)
EXTENDS JobStore, TLAPS

(***************************************************************************)
(* What the statements do to one row.                                      *)
(***************************************************************************)

LEMMA NewRowType ==
  ASSUME NEW o \in Orgs, NEW d \in Devices, NEW k \in Keys, NEW ttl \in TTLs,
         NEW t \in Nat
  PROVE  NewRow(o, d, k, ttl, t) \in Row
<1>1. t + ttl \in Nat
  BY ConstantsAssumption
<1> QED
  BY <1>1 DEF NewRow, Row, Statuses

LEMMA ReleasedType ==
  ASSUME NEW row \in Row
  PROVE  /\ Released(row) \in Row
         /\ Released(row).status = "pending"
         /\ Released(row).leaseEnd = None
         /\ \A f \in {"org", "dev", "key", "created", "expires", "attempts",
                      "claimed", "completed"} : Released(row)[f] = row[f]
BY DEF Released, Row, Statuses, Outcomes

LEMMA LeasedType ==
  ASSUME NEW row \in Row, NEW t \in Nat
  PROVE  /\ Leased(row, t) \in Row
         /\ Leased(row, t).status = "claimed"
         /\ Leased(row, t).attempts = row.attempts + 1
         /\ Leased(row, t).claimed = t
         /\ Leased(row, t).leaseEnd = t + Lease
         /\ \A f \in {"org", "dev", "key", "created", "expires", "completed"} :
              Leased(row, t)[f] = row[f]
<1>1. row.attempts + 1 \in Nat /\ t + Lease \in Nat
  BY ConstantsAssumption DEF Row
<1> QED
  BY <1>1 DEF Leased, Row, Statuses, Outcomes

LEMMA FinishedType ==
  ASSUME NEW row \in Row, NEW outcome \in Outcomes, NEW t \in Nat
  PROVE  /\ Finished(row, outcome, t) \in Row
         /\ Finished(row, outcome, t).status = outcome
         /\ Finished(row, outcome, t).completed = t
         /\ \A f \in {"org", "dev", "key", "created", "expires", "attempts",
                      "claimed", "leaseEnd"} : Finished(row, outcome, t)[f] = row[f]
BY DEF Finished, Row, Statuses, Outcomes

LEMMA SweptType ==
  ASSUME TypeOK, NEW R \in SUBSET JobIds
  PROVE  Swept(R) \in [JobIds -> Row]
BY ReleasedType DEF Swept, TypeOK

LEMMA AuditedType ==
  ASSUME TypeOK, NEW j \in JobIds, NEW a \in AuditActions, Audited(j, a)
  PROVE  audit' \in [JobIds -> [AuditActions -> Nat]]
BY DEF Audited, TypeOK

(***************************************************************************)
(* Type correctness.                                                       *)
(***************************************************************************)

LEMMA InitType == Init => TypeOK
BY ConstantsAssumption
   DEF Init, TypeOK, NoRow, Row, Statuses, AuditActions, Outcomes

LEMMA NextType == TypeOK /\ [Next]_vars => TypeOK'
<1> SUFFICES ASSUME TypeOK, [Next]_vars PROVE TypeOK'
  OBVIOUS
<1>1. ASSUME NEW o \in Orgs, NEW d \in Devices, NEW k \in Keys, NEW ttl \in TTLs,
             NEW t \in 0 .. now, NEW j \in JobIds, Create(o, d, k, ttl, t, j)
      PROVE  TypeOK'
  <2>1. t \in Nat
    BY DEF TypeOK
  <2>2. jobs' \in [JobIds -> Row]
    BY <1>1, <2>1, NewRowType DEF Create, TypeOK
  <2>3. audit' \in [JobIds -> [AuditActions -> Nat]]
    BY <1>1, AuditedType DEF Create, AuditActions
  <2> QED
    BY <1>1, <2>2, <2>3 DEF Create, TypeOK
<1>2. ASSUME NEW d \in Devices, NEW t \in 0 .. now, ClaimNothing(d, t)
      PROVE  TypeOK'
  BY <1>2, SweptType DEF ClaimNothing, TypeOK
<1>3. ASSUME NEW d \in Devices, NEW t \in 0 .. now, NEW j \in JobIds, ClaimJob(d, t, j)
      PROVE  TypeOK'
  <2>1. t \in Nat
    BY DEF TypeOK
  <2>2. PICK R \in SUBSET JobIds : jobs' = [Swept(R) EXCEPT ![j] = Leased(@, t)]
    BY <1>3 DEF ClaimJob
  <2>3. jobs' \in [JobIds -> Row]
    BY <2>1, <2>2, SweptType, LeasedType
  <2>4. audit' \in [JobIds -> [AuditActions -> Nat]]
    BY <1>3, AuditedType DEF ClaimJob, AuditActions
  <2> QED
    BY <1>3, <2>3, <2>4 DEF ClaimJob, TypeOK
<1>4. ASSUME NEW d \in Devices, NEW t \in 0 .. now, NEW j \in JobIds,
             NEW outcome \in Outcomes, Finish(d, j, outcome, t)
      PROVE  TypeOK'
  <2>1. t \in Nat
    BY DEF TypeOK
  <2>2. jobs' \in [JobIds -> Row]
    BY <1>4, <2>1, FinishedType DEF Finish, TypeOK
  <2>3. audit' \in [JobIds -> [AuditActions -> Nat]]
    BY <1>4, AuditedType DEF Finish, AuditActions
  <2> QED
    BY <1>4, <2>2, <2>3 DEF Finish, TypeOK
<1>5. ASSUME NEW d \in Devices, Revoke(d)
      PROVE  TypeOK'
  BY <1>5 DEF Revoke, TypeOK
<1>6. CASE Tick
  BY <1>6 DEF Tick, TypeOK
<1>7. CASE UNCHANGED vars
  BY <1>7 DEF vars, TypeOK
<1> QED
  BY <1>1, <1>2, <1>3, <1>4, <1>5, <1>6, <1>7 DEF Next

\* The columns of every row, the revocations and the audit counts keep their types.
THEOREM TypeCorrect == Spec => []TypeOK
<1>1. Init => TypeOK
  BY InitType
<1>2. TypeOK /\ [Next]_vars => TypeOK'
  BY NextType
<1> QED
  BY <1>1, <1>2, PTL DEF Spec

(***************************************************************************)
(* What a step does to the row and the audit counts of job j.              *)
(***************************************************************************)

RowKept(j) == jobs'[j] = jobs[j] /\ audit'[j] = audit[j]

RowCreated(j) ==
  /\ jobs[j].status = "absent"
  /\ audit'[j] = [audit[j] EXCEPT !["created"] = @ + 1]
  /\ \A i \in JobIds \ {j} : jobs'[i] = jobs[i]
  /\ \E o \in Orgs, d \in Devices, k \in Keys, ttl \in TTLs, t \in 0 .. now :
       /\ ~ KeyTaken(jobs, o, d, k)
       /\ revokedAt[d] = None
       /\ jobs'[j] = NewRow(o, d, k, ttl, t)

RowReleased(j) ==
  /\ audit'[j] = audit[j]
  /\ \E d \in Devices, t \in 0 .. now : LeaseExpired(jobs[j], d, t)
  /\ jobs'[j] = Released(jobs[j])

RowLeased(j) ==
  /\ audit'[j] = [audit[j] EXCEPT !["claimed"] = @ + 1]
  /\ \E d \in Devices, t \in 0 .. now :
       \/ /\ Claimable(jobs[j], d, t)
          /\ jobs'[j] = Leased(jobs[j], t)
       \/ /\ LeaseExpired(jobs[j], d, t)
          /\ Claimable(Released(jobs[j]), d, t)
          /\ jobs'[j] = Leased(Released(jobs[j]), t)

RowFinished(j) ==
  /\ jobs[j].status = "claimed"
  /\ \E outcome \in Outcomes, t \in 0 .. now :
       /\ audit'[j] = [audit[j] EXCEPT ![outcome] = @ + 1]
       /\ jobs'[j] = Finished(jobs[j], outcome, t)

\* A lease is given to the row as it was or as the sweep left it.
LEMMA LeasedRow ==
  ASSUME TypeOK, NEW j \in JobIds, RowLeased(j)
  PROVE  \E row \in Row, d \in Devices, t \in 0 .. now :
           /\ Claimable(row, d, t)
           /\ jobs'[j] = Leased(row, t)
           /\ row.attempts = jobs[j].attempts
           /\ jobs[j].status \in {"pending", "claimed"}
           /\ jobs[j].status = "pending" => row = jobs[j]
           /\ jobs[j].status = "claimed" => LeaseExpired(jobs[j], d, t)
<1>1. jobs[j] \in Row
  BY DEF TypeOK
<1>2. PICK d \in Devices, t \in 0 .. now :
        \/ /\ Claimable(jobs[j], d, t)
           /\ jobs'[j] = Leased(jobs[j], t)
        \/ /\ LeaseExpired(jobs[j], d, t)
           /\ Claimable(Released(jobs[j]), d, t)
           /\ jobs'[j] = Leased(Released(jobs[j]), t)
  BY DEF RowLeased
<1>3. CASE Claimable(jobs[j], d, t) /\ jobs'[j] = Leased(jobs[j], t)
  <2>1. jobs[j].status = "pending"
    BY <1>3 DEF Claimable
  <2> QED
    BY <1>1, <1>3, <2>1
<1>4. CASE /\ LeaseExpired(jobs[j], d, t)
           /\ Claimable(Released(jobs[j]), d, t)
           /\ jobs'[j] = Leased(Released(jobs[j]), t)
  <2>1. jobs[j].status = "claimed"
    BY <1>4 DEF LeaseExpired
  <2>2. Released(jobs[j]) \in Row /\ Released(jobs[j]).attempts = jobs[j].attempts
    BY <1>1, ReleasedType
  <2> QED
    BY <1>4, <2>1, <2>2
<1> QED
  BY <1>2, <1>3, <1>4

LEMMA RowStep ==
  ASSUME TypeOK, Next, NEW j \in JobIds
  PROVE  /\ now' >= now
         /\ RowKept(j) \/ RowCreated(j) \/ RowReleased(j) \/ RowLeased(j) \/ RowFinished(j)
<1>1. ASSUME NEW o \in Orgs, NEW d \in Devices, NEW k \in Keys, NEW ttl \in TTLs,
             NEW t \in 0 .. now, NEW i \in JobIds, Create(o, d, k, ttl, t, i)
      PROVE  now' >= now /\ (RowKept(j) \/ RowCreated(j))
  <2>1. CASE i = j
    BY <1>1, <2>1 DEF Create, Audited, RowCreated, TypeOK
  <2>2. CASE i # j
    BY <1>1, <2>2 DEF Create, Audited, RowKept, TypeOK
  <2> QED
    BY <2>1, <2>2
<1>2. ASSUME NEW d \in Devices, NEW t \in 0 .. now, ClaimNothing(d, t)
      PROVE  now' >= now /\ (RowKept(j) \/ RowReleased(j))
  BY <1>2 DEF ClaimNothing, Swept, RowKept, RowReleased, TypeOK
<1>3. ASSUME NEW d \in Devices, NEW t \in 0 .. now, NEW i \in JobIds, ClaimJob(d, t, i)
      PROVE  now' >= now /\ (RowKept(j) \/ RowReleased(j) \/ RowLeased(j))
  <2>1. PICK R \in SUBSET {h \in JobIds : LeaseExpired(jobs[h], d, t)} :
          /\ Claimable(Swept(R)[i], d, t)
          /\ jobs' = [Swept(R) EXCEPT ![i] = Leased(@, t)]
    BY <1>3 DEF ClaimJob
  <2>2. now' = now /\ Audited(i, "claimed")
    BY <1>3 DEF ClaimJob
  <2>3. CASE i = j
    <3>1. audit'[j] = [audit[j] EXCEPT !["claimed"] = @ + 1]
      BY <2>2, <2>3 DEF Audited, TypeOK
    <3>2. jobs'[j] = Leased(Swept(R)[j], t)
      BY <2>1, <2>3 DEF Swept
    <3>3. CASE j \in R
      BY <2>1, <2>2, <2>3, <3>1, <3>2, <3>3 DEF Swept, RowLeased, TypeOK
    <3>4. CASE j \notin R
      BY <2>1, <2>2, <2>3, <3>1, <3>2, <3>4 DEF Swept, RowLeased, TypeOK
    <3> QED
      BY <3>3, <3>4
  <2>4. CASE i # j
    BY <2>1, <2>2, <2>4 DEF Audited, Swept, RowKept, RowReleased, TypeOK
  <2> QED
    BY <2>3, <2>4
<1>4. ASSUME NEW d \in Devices, NEW t \in 0 .. now, NEW i \in JobIds,
             NEW outcome \in Outcomes, Finish(d, i, outcome, t)
      PROVE  now' >= now /\ (RowKept(j) \/ RowFinished(j))
  <2>1. CASE i = j
    <3>1. audit'[j] = [audit[j] EXCEPT ![outcome] = @ + 1]
      <4>1. audit' = [audit EXCEPT ![j][outcome] = @ + 1]
        BY <1>4, <2>1 DEF Finish, Audited
      <4>2. audit[j] \in [AuditActions -> Nat] /\ outcome \in AuditActions
        BY DEF TypeOK, AuditActions
      <4> QED
        BY <4>1, <4>2 DEF TypeOK
    <3>2. jobs'[j] = Finished(jobs[j], outcome, t)
      BY <1>4, <2>1 DEF Finish, TypeOK
    <3>3. jobs[j].status = "claimed" /\ now' = now
      BY <1>4, <2>1 DEF Finish
    <3>4. RowFinished(j)
      BY <3>1, <3>2, <3>3, Zenon DEF RowFinished
    <3> QED
      BY <3>3, <3>4 DEF TypeOK
  <2>2. CASE i # j
    BY <1>4, <2>2 DEF Finish, Audited, RowKept, TypeOK
  <2> QED
    BY <2>1, <2>2
<1>5. ASSUME NEW d \in Devices, Revoke(d)
      PROVE  now' >= now /\ RowKept(j)
  BY <1>5 DEF Revoke, RowKept, TypeOK
<1>6. CASE Tick
  BY <1>6 DEF Tick, RowKept, TypeOK
<1> QED
  BY <1>1, <1>2, <1>3, <1>4, <1>5, <1>6 DEF Next

(***************************************************************************)
(* The inductive invariant.  ReleasedLeaseIsOver needs the end of a lease  *)
(* in terms of claimed_at; the audit counts need that only rows of a       *)
(* status are released, leased or finished, which is in the shape of the   *)
(* steps.                                                                  *)
(***************************************************************************)

RowInv(j) ==
  /\ jobs[j].attempts <= MaxAttempts
  /\ jobs[j].status = "absent" => jobs[j].attempts = 0 /\ jobs[j].claimed = None
  /\ jobs[j].status = "claimed" =>
       jobs[j].claimed \in Nat /\ jobs[j].leaseEnd = jobs[j].claimed + Lease
  /\ jobs[j].status \in {"absent", "pending"} => jobs[j].leaseEnd = None
  /\ jobs[j].status = "pending" /\ jobs[j].claimed # None
       => jobs[j].claimed + Lease < now

AuditInv(j) ==
  /\ audit[j]["created"] = IF jobs[j].status = "absent" THEN 0 ELSE 1
  /\ audit[j]["claimed"] = jobs[j].attempts
  /\ \A outcome \in Outcomes :
       audit[j][outcome] = IF jobs[j].status = outcome THEN 1 ELSE 0

IInv ==
  /\ TypeOK
  /\ \A j \in JobIds : RowInv(j) /\ AuditInv(j)
  /\ OneJobPerKey

LEMMA InitInv == Init => IInv
<1> SUFFICES ASSUME Init PROVE IInv
  OBVIOUS
<1>1. TypeOK
  BY InitType
<1>2. ASSUME NEW j \in JobIds PROVE RowInv(j) /\ AuditInv(j)
  BY ConstantsAssumption DEF Init, NoRow, RowInv, AuditInv, AuditActions, Outcomes
<1>3. OneJobPerKey
  BY DEF Init, NoRow, OneJobPerKey
<1> QED
  BY <1>1, <1>2, <1>3 DEF IInv

LEMMA RowInvStep ==
  ASSUME IInv, Next, NEW j \in JobIds
  PROVE  RowInv(j)'
<1> USE ConstantsAssumption
<1>1. /\ jobs[j] \in Row /\ now \in Nat /\ now' \in Nat
      /\ RowInv(j)
      /\ now' >= now
  BY NextType, RowStep DEF IInv, TypeOK
<1>2. CASE RowKept(j)
  BY <1>1, <1>2 DEF RowKept, RowInv, Row
<1>3. CASE RowCreated(j)
  BY <1>1, <1>3 DEF RowCreated, NewRow, RowInv
<1>4. CASE RowReleased(j)
  <2>1. PICK d \in Devices, t \in 0 .. now : LeaseExpired(jobs[j], d, t)
    BY <1>4 DEF RowReleased
  <2>2. jobs[j].claimed + Lease < now'
    BY <1>1, <2>1 DEF LeaseExpired, RowInv
  <2> QED
    BY <1>1, <1>4, <2>2, ReleasedType DEF RowReleased, RowInv
<1>5. CASE RowLeased(j)
  <2>1. PICK row \in Row, d \in Devices, t \in 0 .. now :
          Claimable(row, d, t) /\ jobs'[j] = Leased(row, t)
    BY <1>5, LeasedRow DEF IInv
  <2>2. row.attempts + 1 <= MaxAttempts
    BY <2>1 DEF Claimable, Row
  <2>3. /\ jobs'[j].status = "claimed"
        /\ jobs'[j].attempts = row.attempts + 1
        /\ jobs'[j].claimed = t
        /\ jobs'[j].leaseEnd = t + Lease
    BY <2>1, LeasedType
  <2> QED
    BY <1>1, <2>2, <2>3 DEF RowInv
<1>6. CASE RowFinished(j)
  <2>1. PICK outcome \in Outcomes, t \in 0 .. now :
          jobs'[j] = Finished(jobs[j], outcome, t)
    BY <1>6 DEF RowFinished
  <2>2. /\ jobs'[j].status \in Outcomes
        /\ jobs'[j].attempts = jobs[j].attempts
    BY <1>1, <2>1, FinishedType
  <2> QED
    BY <1>1, <2>2 DEF RowInv, Outcomes
<1> QED
  BY <1>2, <1>3, <1>4, <1>5, <1>6, RowStep DEF IInv

LEMMA AuditInvStep ==
  ASSUME IInv, Next, NEW j \in JobIds
  PROVE  AuditInv(j)'
<1>1. /\ jobs[j] \in Row /\ audit[j] \in [AuditActions -> Nat]
      /\ RowInv(j) /\ AuditInv(j)
  BY DEF IInv, TypeOK
<1>2. CASE RowKept(j)
  BY <1>1, <1>2 DEF RowKept, AuditInv
<1>3. CASE RowCreated(j)
  BY <1>1, <1>3 DEF RowCreated, NewRow, RowInv, AuditInv, AuditActions, Outcomes
<1>4. CASE RowReleased(j)
  <2>1. jobs[j].status = "claimed"
    BY <1>4 DEF RowReleased, LeaseExpired
  <2> QED
    BY <1>1, <1>4, <2>1, ReleasedType DEF RowReleased, AuditInv, Outcomes
<1>5. CASE RowLeased(j)
  <2>1. /\ jobs[j].status \in {"pending", "claimed"}
        /\ jobs'[j].status = "claimed"
        /\ jobs'[j].attempts = jobs[j].attempts + 1
    <3>1. PICK row \in Row, d \in Devices, t \in 0 .. now :
            /\ jobs'[j] = Leased(row, t)
            /\ row.attempts = jobs[j].attempts
            /\ jobs[j].status \in {"pending", "claimed"}
      BY <1>5, LeasedRow DEF IInv
    <3> QED
      BY <3>1, LeasedType DEF IInv, TypeOK
  <2>2. audit'[j] = [audit[j] EXCEPT !["claimed"] = @ + 1]
    BY <1>5 DEF RowLeased
  <2> QED
    BY <1>1, <2>1, <2>2 DEF AuditInv, AuditActions, Outcomes
<1>6. CASE RowFinished(j)
  <2>1. PICK outcome \in Outcomes, t \in 0 .. now :
          /\ audit'[j] = [audit[j] EXCEPT ![outcome] = @ + 1]
          /\ jobs'[j] = Finished(jobs[j], outcome, t)
    BY <1>6 DEF RowFinished
  <2>2. /\ jobs[j].status = "claimed"
        /\ jobs'[j].status = outcome
        /\ jobs'[j].attempts = jobs[j].attempts
    BY <1>1, <1>6, <2>1, FinishedType DEF RowFinished, IInv, TypeOK
  <2> QED
    BY <1>1, <2>1, <2>2 DEF AuditInv, AuditActions, Outcomes
<1> QED
  BY <1>2, <1>3, <1>4, <1>5, <1>6, RowStep DEF IInv

\* Only a create changes which rows exist or what identifies them.
LEMMA UniqueStep ==
  ASSUME IInv, Next
  PROVE  OneJobPerKey'
<1>1. \A j \in JobIds : jobs[j] \in Row
  BY DEF IInv, TypeOK
<1>2. CASE \E j \in JobIds : RowCreated(j)
  <2>1. PICK j \in JobIds : RowCreated(j)
    BY <1>2
  <2>2. PICK o \in Orgs, d \in Devices, k \in Keys, ttl \in TTLs, t \in 0 .. now :
          /\ ~ KeyTaken(jobs, o, d, k)
          /\ jobs'[j] = NewRow(o, d, k, ttl, t)
    BY <2>1 DEF RowCreated
  <2>3. jobs'[j].org = o /\ jobs'[j].dev = d /\ jobs'[j].key = k
    BY <2>2 DEF NewRow
  <2>4. \A i \in JobIds \ {j} : jobs'[i] = jobs[i]
    BY <2>1 DEF RowCreated
  <2> QED
    BY <2>2, <2>3, <2>4 DEF KeyTaken, OneJobPerKey, IInv
<1>3. CASE \A j \in JobIds : ~ RowCreated(j)
  <2>1. ASSUME NEW j \in JobIds
        PROVE  /\ jobs'[j].org = jobs[j].org
               /\ jobs'[j].dev = jobs[j].dev
               /\ jobs'[j].key = jobs[j].key
               /\ jobs[j].status = "absent" => jobs'[j].status = "absent"
    <3>1. CASE RowKept(j)
      BY <3>1 DEF RowKept
    <3>2. CASE RowReleased(j)
      BY <1>1, <3>2, ReleasedType DEF RowReleased, LeaseExpired
    <3>3. CASE RowLeased(j)
      <4>1. PICK t \in 0 .. now :
              \/ jobs'[j] = Leased(jobs[j], t)
              \/ jobs'[j] = Leased(Released(jobs[j]), t)
        BY <3>3 DEF RowLeased
      <4>2. jobs[j].status # "absent"
        BY <3>3, LeasedRow DEF IInv
      <4>3. t \in Nat
        BY DEF IInv, TypeOK
      <4>4. CASE jobs'[j] = Leased(jobs[j], t)
        BY <1>1, <4>2, <4>3, <4>4, LeasedType
      <4>5. CASE jobs'[j] = Leased(Released(jobs[j]), t)
        <5>1. /\ Released(jobs[j]) \in Row
              /\ Released(jobs[j]).org = jobs[j].org
              /\ Released(jobs[j]).dev = jobs[j].dev
              /\ Released(jobs[j]).key = jobs[j].key
          BY <1>1, ReleasedType
        <5> QED
          BY <4>2, <4>3, <4>5, <5>1, LeasedType
      <4> QED
        BY <4>1, <4>4, <4>5
    <3>4. CASE RowFinished(j)
      <4>1. PICK outcome \in Outcomes, t \in 0 .. now :
              jobs'[j] = Finished(jobs[j], outcome, t)
        BY <3>4 DEF RowFinished
      <4>2. t \in Nat /\ jobs[j].status # "absent"
        BY <3>4 DEF RowFinished, IInv, TypeOK
      <4> QED
        BY <1>1, <4>1, <4>2, FinishedType
    <3> QED
      BY <1>3, <3>1, <3>2, <3>3, <3>4, RowStep DEF IInv
  <2> QED
    BY <2>1 DEF OneJobPerKey, IInv
<1> QED
  BY <1>2, <1>3

LEMMA NextInv == IInv /\ [Next]_vars => IInv'
<1> SUFFICES ASSUME IInv, [Next]_vars PROVE IInv'
  OBVIOUS
<1>1. CASE Next
  <2>1. TypeOK'
    BY <1>1, NextType DEF IInv
  <2>2. (\A j \in JobIds : RowInv(j) /\ AuditInv(j))'
    BY <1>1, RowInvStep, AuditInvStep
  <2>3. OneJobPerKey'
    BY <1>1, UniqueStep
  <2> QED
    BY <2>1, <2>2, <2>3 DEF IInv
<1>2. CASE UNCHANGED vars
  BY <1>2 DEF vars, IInv, TypeOK, RowInv, AuditInv, OneJobPerKey
<1> QED
  BY <1>1, <1>2

\* The inductive invariant holds throughout.
THEOREM InvariantHolds == Spec => []IInv
BY InitInv, NextInv, PTL DEF Spec

(***************************************************************************)
(* What follows from it.                                                   *)
(***************************************************************************)

\* However leases expire, no job is leased more often than max_attempts.
THEOREM AttemptsStayBounded == Spec => []AttemptsBounded
<1>1. IInv => AttemptsBounded
  BY DEF IInv, RowInv, AttemptsBounded
<1> QED
  BY <1>1, InvariantHolds, PTL

\* The audit trail records every create, lease and outcome once, and nothing else.
THEOREM AuditTrailIsExact == Spec => []AuditAccountsForJobs
<1>1. IInv => AuditAccountsForJobs
  BY DEF IInv, AuditInv, AuditAccountsForJobs
<1> QED
  BY <1>1, InvariantHolds, PTL

\* A repeated idempotency key never makes a second job.
THEOREM KeysStayUnique == Spec => []OneJobPerKey
<1>1. IInv => OneJobPerKey
  BY DEF IInv
<1> QED
  BY <1>1, InvariantHolds, PTL

\* A job is only back in the queue once its last lease has run out.
THEOREM ReleasedOnlyWhenOver == Spec => []ReleasedLeaseIsOver
<1>1. IInv => ReleasedLeaseIsOver
  BY DEF IInv, RowInv, ReleasedLeaseIsOver
<1> QED
  BY <1>1, InvariantHolds, PTL

\* No sweep, claim or late result changes a job that has an outcome.
THEOREM OutcomesStay == Spec => OutcomeIsFinal
<1>1. ASSUME IInv, Next, NEW j \in JobIds, jobs[j].status \in Outcomes
      PROVE  jobs'[j] = jobs[j]
  <2>1. ~ RowCreated(j)
    BY <1>1 DEF RowCreated, Outcomes
  <2>2. ~ RowReleased(j)
    BY <1>1 DEF RowReleased, LeaseExpired, Outcomes
  <2>3. ~ RowLeased(j)
    BY <1>1, LeasedRow DEF IInv, Outcomes
  <2>4. ~ RowFinished(j)
    BY <1>1 DEF RowFinished, Outcomes
  <2> QED
    BY <1>1, <2>1, <2>2, <2>3, <2>4, RowStep DEF IInv, RowKept
<1>2. IInv /\ [Next]_vars =>
        [\A j \in JobIds : jobs[j].status \in Outcomes => jobs'[j] = jobs[j]]_vars
  BY <1>1
<1> QED
  BY <1>2, InvariantHolds, PTL DEF Spec, OutcomeIsFinal

\* When a job is leased again the lease before it is over, in real time.
THEOREM LeasesStayApart == Spec => LeasesDoNotOverlap
<1>1. ASSUME IInv, Next, NEW j \in JobIds,
             jobs'[j].attempts # jobs[j].attempts, jobs[j].claimed # None
      PROVE  jobs[j].claimed + Lease < now
  <2>1. jobs[j] \in Row /\ RowInv(j) /\ now \in Nat
    BY <1>1 DEF IInv, TypeOK
  <2>2. ~ RowKept(j)
    BY <1>1 DEF RowKept
  <2>3. ~ RowCreated(j)
    BY <1>1, <2>1 DEF RowCreated, RowInv
  <2>4. ~ RowReleased(j)
    BY <1>1, <2>1, ReleasedType DEF RowReleased
  <2>5. ~ RowFinished(j)
    <3> SUFFICES ASSUME RowFinished(j) PROVE FALSE
      OBVIOUS
    <3>1. PICK outcome \in Outcomes, t \in 0 .. now :
            jobs'[j] = Finished(jobs[j], outcome, t)
      BY DEF RowFinished
    <3>2. t \in Nat
      BY <2>1
    <3> QED
      BY <1>1, <2>1, <3>1, <3>2, FinishedType
  <2>6. RowLeased(j)
    BY <1>1, <2>2, <2>3, <2>4, <2>5, RowStep DEF IInv
  <2>7. PICK d \in Devices, t \in 0 .. now :
          /\ jobs[j].status \in {"pending", "claimed"}
          /\ jobs[j].status = "claimed" => LeaseExpired(jobs[j], d, t)
    BY <1>1, <2>6, LeasedRow DEF IInv
  <2>8. CASE jobs[j].status = "pending"
    BY <1>1, <2>1, <2>8 DEF RowInv
  <2>9. CASE jobs[j].status = "claimed"
    BY <2>1, <2>7, <2>9, ConstantsAssumption DEF RowInv, LeaseExpired
  <2> QED
    BY <2>7, <2>8, <2>9
<1>2. IInv /\ [Next]_vars =>
        [\A j \in JobIds : jobs'[j].attempts # jobs[j].attempts /\ jobs[j].claimed # None
                             => jobs[j].claimed + Lease < now]_vars
  BY <1>1
<1> QED
  BY <1>2, InvariantHolds, PTL DEF Spec, LeasesDoNotOverlap
=============================================================================
