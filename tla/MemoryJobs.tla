------------------------------ MODULE MemoryJobs ------------------------------
(***************************************************************************)
(* InMemoryJobStore and JobService (apps/api/app/jobs.py): the store that  *)
(* represents the PostgreSQL adapter in the tests, shown to implement the  *)
(* same JobStore.tla, so what the tests establish with it is true of a     *)
(* store that keeps the adapter's promises.                                *)
(*                                                                         *)
(* A call holds the lock of the store from its first read to its last      *)
(* write and is one step.  It takes the time t before it asks for the      *)
(* lock.  The store has no devices: requests name a device of their        *)
(* organization, and no device is revoked.                                 *)
(***************************************************************************)
EXTENDS JobRows, ApiProcess, Sequences

VARIABLES
  store,  \* InMemoryJobStore.jobs; claimed and completed are not kept by it,
          \* they are recorded here for the comparison with the table
  order   \* the order in which the jobs were inserted, which sorted() keeps

memoryJobsVars == <<store, order, clock>>

-----------------------------------------------------------------------------

\* The order of sorted(self.jobs.values(), key=created_at), which is stable.
Earlier(i, j) ==
  \/ store[i].created < store[j].created
  \/ /\ store[i].created = store[j].created
     /\ \E p, q \in DOMAIN order : p < q /\ order[p] = i /\ order[q] = j

MemoryJobsInit ==
  /\ store = [j \in JobIds |-> NoRow]
  /\ order = <<>>

\* create: a key that is known returns its job and changes nothing.
MemoryCreate(o, d, k, ttl, t, j) ==
  /\ OrgOf[d] = o
  /\ store[j].status = "absent"
  /\ ~ KeyTaken(store, o, d, k)
  /\ store' = [store EXCEPT ![j] = NewRow(o, d, k, ttl, t)]
  /\ order' = Append(order, j)
  /\ UNCHANGED clock

\* A slip: the loop looks at claimed jobs too.
PendingOrClaimed(d) ==
  {j \in JobIds : store[j].dev = d /\ store[j].status \in {"pending", "claimed"}}

PendingOf(d) == {j \in JobIds : store[j].dev = d /\ store[j].status = "pending"}

\* What the loop of claim does to a pending job it comes to.
Visited(row, t) ==
  IF row.expires <= t THEN [row EXCEPT !.status = "expired"]
  ELSE IF row.attempts >= MaxAttempts THEN Finished(row, "failed", t)
  ELSE Leased(row, t)

(***************************************************************************)
(* claim: go through the pending jobs of the device, oldest first, mark    *)
(* those that expired or have no attempt left, and stop at the first that  *)
(* can be leased.  A lease that ran out is never looked at.                *)
(***************************************************************************)
MemoryClaim(d, t) ==
  LET pending == PendingOf(d)
      free == {j \in pending : store[j].expires > t /\ store[j].attempts < MaxAttempts}
      reached == {j \in pending : \A i \in free : ~ Earlier(i, j)}
  IN /\ store' = [j \in JobIds |-> IF j \in reached THEN Visited(store[j], t) ELSE store[j]]
     /\ UNCHANGED <<order, clock>>

\* complete and fail: neither the device nor the lease is looked at.
MemoryFinish(j, outcome, t) ==
  /\ store[j].status = "claimed"
  /\ store' = [store EXCEPT ![j] = Finished(@, outcome, t)]
  /\ UNCHANGED <<order, clock>>

MemoryJobsNext ==
  \/ \E o \in Orgs, d \in Devices, k \in Keys, ttl \in TTLs,
        t \in 0 .. clock, j \in JobIds : MemoryCreate(o, d, k, ttl, t, j)
  \/ \E d \in Devices, t \in 0 .. clock : MemoryClaim(d, t)
  \/ \E j \in JobIds, outcome \in Outcomes, t \in 0 .. clock : MemoryFinish(j, outcome, t)
  \/ Advance /\ UNCHANGED <<store, order>>

MemoryJobsSpec == MemoryJobsInit /\ ClockInit /\ [][MemoryJobsNext]_memoryJobsVars

-----------------------------------------------------------------------------

MemoryJobsTypeOK ==
  /\ store \in [JobIds -> Row]
  /\ order \in Seq(JobIds)

(***************************************************************************)
(* The table this store represents.  PostgreSQL never writes "expired": a  *)
(* job that expired unclaimed stays pending there.  The audit trail is     *)
(* what the adapter would have recorded.                                   *)
(***************************************************************************)
TableRow(row) == IF row.status = "expired" THEN [row EXCEPT !.status = "pending"] ELSE row

TrailOf(row) ==
  [a \in {"created", "claimed"} \cup Outcomes |->
     IF a = "claimed" THEN row.attempts
     ELSE IF a = "created" THEN (IF row.status = "absent" THEN 0 ELSE 1)
     ELSE IF row.status = a THEN 1 ELSE 0]

Table == INSTANCE JobStore WITH
  jobs <- [j \in JobIds |-> TableRow(store[j])],
  revokedAt <- [d \in Devices |-> None],
  audit <- [j \in JobIds |-> TrailOf(store[j])],
  now <- clock,
  MaxTime <- Horizon

\* The double keeps the promises of the adapter it represents ("Test-only store
\* representing the transactional Postgres adapter", jobs.py): every call of it
\* is a call of the job repository or changes nothing there.
MemoryImplementsJobStore == Table!Spec
=============================================================================
