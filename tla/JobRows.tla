------------------------------- MODULE JobRows -------------------------------
(***************************************************************************)
(* Rows of public.jobs and what the statements of PostgresJobRepository do *)
(* to one row.  JobStore.tla and JobTransactions.tla both build on these.  *)
(* The column list is restricted to the columns a job's life cycle depends *)
(* on; action, payload, reason, result and error code travel with the row. *)
(***************************************************************************)
EXTENDS Naturals

CONSTANTS
  Devices,      \* rows of public.devices; a device is known by its credential
  Orgs,         \* organizations
  OrgOf,        \* the organization each device is enrolled in
  Keys,         \* idempotency keys that users send
  JobIds,       \* job identifiers that can be generated; bounds the jobs
  TTLs,         \* values of expires_in_seconds that users send
  Lease,        \* lease_seconds of a claim
  MaxAttempts,  \* max_attempts of a job (schema default)
  MaxTime,      \* bound on the clock
  None          \* SQL null

ASSUME ConstantsAssumption ==
  /\ OrgOf \in [Devices -> Orgs]
  /\ TTLs \subseteq Nat
  /\ Lease \in Nat \ {0}
  /\ MaxAttempts \in Nat \ {0}
  /\ MaxTime \in Nat
  /\ None \notin Nat

-----------------------------------------------------------------------------

\* The outcomes the adapter writes.  The schema also allows "running",
\* "expired" and "cancelled"; no statement of the code writes them.
Outcomes == {"succeeded", "failed"}
Statuses == {"absent", "pending", "claimed", "running", "expired", "cancelled"}
              \cup Outcomes

Row == [status    : Statuses,            \* "absent": the id is not in use
        org       : Orgs \cup {None},
        dev       : Devices \cup {None},
        key       : Keys \cup {None},
        created   : Nat,
        expires   : Nat,
        attempts  : Nat,
        claimed   : Nat \cup {None},     \* claimed_at
        leaseEnd  : Nat \cup {None},     \* claim_expires_at
        completed : Nat \cup {None}]

NoRow == [status |-> "absent", org |-> None, dev |-> None, key |-> None,
          created |-> 0, expires |-> 0, attempts |-> 0,
          claimed |-> None, leaseEnd |-> None, completed |-> None]

NewRow(o, d, k, ttl, t) ==
  [status |-> "pending", org |-> o, dev |-> d, key |-> k,
   created |-> t, expires |-> t + ttl, attempts |-> 0,
   claimed |-> None, leaseEnd |-> None, completed |-> None]

\* A slip: the sweep compares claimed_at instead of claim_expires_at.
ClaimedBefore(row, d, t) ==
  row.dev = d /\ row.status = "claimed" /\ row.claimed < t

\* The first statement of a claim returns rows whose lease ran out to the queue.
LeaseExpired(row, d, t) ==
  row.dev = d /\ row.status = "claimed" /\ row.leaseEnd < t

\* A slip: the sweep writes a status the schema does not have.
ReleasedAsQueued(row) == [row EXCEPT !.status = "queued", !.leaseEnd = None]

Released(row) == [row EXCEPT !.status = "pending", !.leaseEnd = None]

\* A slip: the attempt limit is compared with <= instead of <.
ClaimableOnceTooOften(row, d, t) ==
  /\ row.dev = d
  /\ row.status = "pending"
  /\ row.expires > t
  /\ row.attempts <= MaxAttempts

\* A slip: only jobs never leased before are found.
ClaimableFirstTime(row, d, t) ==
  /\ row.dev = d
  /\ row.status = "pending"
  /\ row.expires > t
  /\ row.attempts = 0

\* The second statement of a claim may lease a row.
Claimable(row, d, t) ==
  /\ row.dev = d
  /\ row.status = "pending"
  /\ row.expires > t
  /\ row.attempts < MaxAttempts

Leased(row, t) ==
  [row EXCEPT !.status = "claimed", !.attempts = @ + 1,
              !.claimed = t, !.leaseEnd = t + Lease]

Finished(row, outcome, t) ==
  [row EXCEPT !.status = outcome, !.completed = t]

\* A slip: the table has no such constraint.
NeverTaken(rows, o, d, k) == FALSE

\* unique (organization_id, device_id, idempotency_key)
KeyTaken(rows, o, d, k) ==
  \E i \in JobIds : /\ rows[i].status # "absent"
                    /\ rows[i].org = o /\ rows[i].dev = d /\ rows[i].key = k
=============================================================================
