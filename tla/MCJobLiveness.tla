----------------------------- MODULE MCJobLiveness -----------------------------
(***************************************************************************)
(* JobTransactions for checking liveness with TLC, from a state the system *)
(* reaches when an agent leases two jobs and then stays silent: both       *)
(* leases have run out.  The number of lost connections is bounded.        *)
(***************************************************************************)
EXTENDS JobTransactions, TLC

CONSTANTS
  d1, o1, j1, j2, k1, k2,
  MaxLosses       \* bound on lost connections

VARIABLE losses

MCOrgOf == d1 :> o1

\* Created at 0, leased at 0 and not heard of since.
Abandoned(k) == Leased(NewRow(o1, d1, k, CHOOSE ttl \in TTLs : TRUE, 0), 0)

MCInit ==
  /\ SessionsInit
  /\ jobs = [j \in JobIds |-> CASE j = j1 -> Abandoned(k1)
                                [] j = j2 -> Abandoned(k2)
                                [] OTHER  -> NoRow]
  /\ audit = [j \in JobIds |->
                [a \in Store!AuditActions |->
                  IF j \in {j1, j2} /\ a \in {"created", "claimed"} THEN 1 ELSE 0]]
  /\ revokedAt = [d \in Devices |-> None]
  /\ now = Lease + 1
  /\ losses = 0

MCNext ==
  \/ Serve /\ UNCHANGED losses
  \/ /\ losses < MaxLosses
     /\ losses' = losses + 1
     /\ \E s \in Sessions : Disconnect(s)

MCSpec == MCInit /\ [][MCNext]_<<vars, losses>> /\ StatementFairness /\ PollFairness
=============================================================================
