------------------------------- MODULE JobStore -------------------------------
(***************************************************************************)
(* What the job repository promises about public.jobs: every call of       *)
(* PostgresJobRepository that changes the table is one atomic step, taken  *)
(* when its transaction commits.                                           *)
(*                                                                         *)
(* now() inside a PostgreSQL transaction is the time the transaction       *)
(* began, so every step carries the time t at which its transaction began  *)
(* and t may lie before the time of the commit, now.  JobTransactions.tla  *)
(* breaks each step into its SQL statements and is shown to implement this *)
(* specification.                                                          *)
(***************************************************************************)
EXTENDS JobRows

VARIABLES
  jobs,       \* the committed rows of public.jobs
  revokedAt,  \* when each device's revocation was committed, None if active
  audit,      \* how often each action was audited for each job
  now         \* the wall clock

vars == <<jobs, revokedAt, audit, now>>

-----------------------------------------------------------------------------

AuditActions == {"created", "claimed"} \cup Outcomes

\* The device was not yet revoked at some moment of a transaction begun at t.
ActiveSince(d, t) == revokedAt[d] # None => revokedAt[d] >= t

Audited(j, action) == audit' = [audit EXCEPT ![j][action] = @ + 1]

-----------------------------------------------------------------------------

Init ==
  /\ jobs = [j \in JobIds |-> NoRow]
  /\ revokedAt = [d \in Devices |-> None]
  /\ audit = [j \in JobIds |-> [a \in AuditActions |-> 0]]
  /\ now = 0

(***************************************************************************)
(* create: insert a pending job.  The device row is share-locked, so the   *)
(* device is active and of the caller's organization at the commit itself. *)
(* A repeated idempotency key changes nothing.                             *)
(***************************************************************************)
Create(o, d, k, ttl, t, j) ==
  /\ OrgOf[d] = o
  /\ revokedAt[d] = None
  /\ jobs[j].status = "absent"
  /\ ~ KeyTaken(jobs, o, d, k)
  /\ jobs' = [jobs EXCEPT ![j] = NewRow(o, d, k, ttl, t)]
  /\ Audited(j, "created")
  /\ UNCHANGED <<revokedAt, now>>

\* The jobs after the rows of R were returned to the queue.
Swept(R) == [j \in JobIds |-> IF j \in R THEN Released(jobs[j]) ELSE jobs[j]]

(***************************************************************************)
(* claim_for_device: return jobs with an expired lease to the queue (not   *)
(* audited, and done for a revoked device too), then lease one claimable   *)
(* job if there is one.  Which expired leases and which job is left open:  *)
(* it depends on the rows other transactions hold locked.                  *)
(***************************************************************************)
ClaimNothing(d, t) ==
  \E R \in SUBSET {j \in JobIds : LeaseExpired(jobs[j], d, t)} :
    /\ jobs' = Swept(R)
    /\ UNCHANGED <<revokedAt, audit, now>>

ClaimJob(d, t, j) ==
  \E R \in SUBSET {i \in JobIds : LeaseExpired(jobs[i], d, t)} :
    /\ ActiveSince(d, t)
    /\ Claimable(Swept(R)[j], d, t)
    /\ jobs' = [Swept(R) EXCEPT ![j] = Leased(@, t)]
    /\ Audited(j, "claimed")
    /\ UNCHANGED <<revokedAt, now>>

\* A slip: a result is accepted whatever the status of the job is.
FinishAnyStatus(d, j, outcome, t) ==
  /\ ActiveSince(d, t)
  /\ jobs[j].dev = d
  /\ jobs' = [jobs EXCEPT ![j] = Finished(@, outcome, t)]
  /\ Audited(j, outcome)
  /\ UNCHANGED <<revokedAt, now>>

(***************************************************************************)
(* _finish_for_device: complete or fail a claimed job.  Neither the lease  *)
(* nor the attempt the device was working on is looked at.                 *)
(***************************************************************************)
Finish(d, j, outcome, t) ==
  /\ ActiveSince(d, t)
  /\ jobs[j].dev = d
  /\ jobs[j].status = "claimed"
  /\ jobs' = [jobs EXCEPT ![j] = Finished(@, outcome, t)]
  /\ Audited(j, outcome)
  /\ UNCHANGED <<revokedAt, now>>

\* An administrator revokes a device with a direct update of public.devices.
Revoke(d) ==
  /\ revokedAt[d] = None
  /\ revokedAt' = [revokedAt EXCEPT ![d] = now]
  /\ UNCHANGED <<jobs, audit, now>>

Tick ==
  /\ now < MaxTime
  /\ now' = now + 1
  /\ UNCHANGED <<jobs, revokedAt, audit>>

Next ==
  \/ \E o \in Orgs, d \in Devices, k \in Keys, ttl \in TTLs,
        t \in 0 .. now, j \in JobIds : Create(o, d, k, ttl, t, j)
  \/ \E d \in Devices, t \in 0 .. now : ClaimNothing(d, t)
  \/ \E d \in Devices, t \in 0 .. now, j \in JobIds : ClaimJob(d, t, j)
  \/ \E d \in Devices, t \in 0 .. now, j \in JobIds, outcome \in Outcomes :
        Finish(d, j, outcome, t)
  \/ \E d \in Devices : Revoke(d)
  \/ Tick

Spec == Init /\ [][Next]_vars

-----------------------------------------------------------------------------

TypeOK ==
  /\ jobs \in [JobIds -> Row]
  /\ revokedAt \in [Devices -> Nat \cup {None}]
  /\ audit \in [JobIds -> [AuditActions -> Nat]]
  /\ now \in Nat

\* A job is never leased more often than max_attempts, however its leases
\* expire and its device retries.
AttemptsBounded == \A j \in JobIds : jobs[j].attempts <= MaxAttempts

\* The audit trail accounts for the table: one "created" for each row, one
\* "claimed" for each attempt, one outcome for each finished job and no other.
\* A retried create, a poll that finds nothing and a rejected result add none.
AuditAccountsForJobs ==
  \A j \in JobIds :
    /\ audit[j]["created"] = IF jobs[j].status = "absent" THEN 0 ELSE 1
    /\ audit[j]["claimed"] = jobs[j].attempts
    /\ \A outcome \in Outcomes :
         audit[j][outcome] = IF jobs[j].status = outcome THEN 1 ELSE 0

\* A user's retry of a create with the same idempotency key never makes a
\* second job for that device.
OneJobPerKey ==
  \A i, j \in JobIds :
    /\ jobs[i].status # "absent"
    /\ jobs[j].status # "absent"
    /\ jobs[i].org = jobs[j].org
    /\ jobs[i].dev = jobs[j].dev
    /\ jobs[i].key = jobs[j].key
    => i = j

\* A lease that was released is over in real time: a queued job that was
\* leased before can only be there because that lease ran out.
ReleasedLeaseIsOver ==
  \A j \in JobIds :
    jobs[j].status = "pending" /\ jobs[j].claimed # None
      => jobs[j].claimed + Lease < now

\* Once a job has an outcome no late result, sweep or claim changes its row.
OutcomeIsFinal ==
  [][\A j \in JobIds : jobs[j].status \in Outcomes => jobs'[j] = jobs[j]]_vars

\* Two leases of the same job never overlap in real time: when a job is leased
\* again the lease before it has run out.
LeasesDoNotOverlap ==
  [][\A j \in JobIds :
       jobs'[j].attempts # jobs[j].attempts /\ jobs[j].claimed # None
         => jobs[j].claimed + Lease < now]_vars
=============================================================================
