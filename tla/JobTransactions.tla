---------------------------- MODULE JobTransactions ----------------------------
(***************************************************************************)
(* PostgresJobRepository as the database runs it: sessions executing the   *)
(* statements of create, claim_for_device and _finish_for_device one at a  *)
(* time at READ COMMITTED, with the locks those statements take.           *)
(*                                                                         *)
(* A session's uncommitted row versions are in buf[s]; a row version       *)
(* written by a session is locked by it until the session ends.  A         *)
(* statement that must wait for a row lock joins the row's queue; when the *)
(* lock is granted it re-evaluates its condition on the new row version,   *)
(* as PostgreSQL does.  A session may lose its connection before any step, *)
(* which rolls it back.  Whether the caller learns of a commit is not      *)
(* modelled here.                                                          *)
(***************************************************************************)
EXTENDS JobRows, SequencesExt

CONSTANT Sessions    \* database connections open at the same time

VARIABLES
  jobs, revokedAt, audit, now,   \* the committed state, as in JobStore
  pc,       \* the statement each session executes next
  req,      \* the call each session executes
  start,    \* now() in each session: when its transaction began
  todo,     \* rows a session's sweep has found and not yet reached
  buf,      \* the uncommitted row versions of each session
  queue     \* the sessions waiting for each row's lock, the first one first

session == <<pc, req, start, todo, buf, queue>>
vars == <<jobs, revokedAt, audit, now, session>>

Store == INSTANCE JobStore

-----------------------------------------------------------------------------

\* The calls of the API.  The id of a create is the one its insert would
\* generate; device credentials are identified with the device.
CreateCall == [op : {"create"}, org : Orgs, dev : Devices, key : Keys,
               ttl : TTLs, job : JobIds]
ClaimCall  == [op : {"claim"}, dev : Devices]
FinishCall == [op : {"finish"}, dev : Devices, job : JobIds, outcome : Outcomes]

Calls == CreateCall \cup ClaimCall \cup FinishCall

Labels == {"idle",
           "device", "insert", "replay",     \* create
           "sweep", "rows", "pick",          \* claim_for_device
           "match", "lock",                  \* _finish_for_device
           "audit", "commit"}                \* append_audit_in_transaction

-----------------------------------------------------------------------------
(* Locks, all of them held until the session ends. *)

LockedByOther(s, j) == \E r \in Sessions \ {s} : j \in DOMAIN buf[r]

Queued(s) == \E j \in JobIds : Contains(queue[j], s)

\* A statement gets a row's lock at once if nobody holds it or waits for it.
Granted(s, j) ==
  /\ ~ LockedByOther(s, j)
  /\ IF Queued(s) THEN queue[j] # <<>> /\ Head(queue[j]) = s ELSE queue[j] = <<>>

\* Creates past their first statement hold a share lock on the device.
DeviceShared(d) ==
  \E s \in Sessions :
    /\ pc[s] \in {"insert", "replay", "audit", "commit"}
    /\ req[s].op = "create" /\ req[s].dev = d

\* An insert of this key waits for a session that inserted it and has not ended.
KeyInFlight(s, o, d, k) ==
  \E r \in Sessions \ {s} : \E j \in DOMAIN buf[r] :
    buf[r][j].org = o /\ buf[r][j].dev = d /\ buf[r][j].key = k

\* The session's call is audited: it has written something the trail records.
\* A sweep alone is not, nor is a create that found its key.
EventOf(s) ==
  CASE req[s].op = "create" -> "created"
    [] req[s].op = "claim"  -> "claimed"
    [] req[s].op = "finish" -> req[s].outcome

AuditedRows(s) ==
  {j \in DOMAIN buf[s] : req[s].op = "claim" => buf[s][j].status = "claimed"}

\* pg_advisory_xact_lock of the organization, taken by append_audit_in_transaction.
AuditLocked(o) ==
  \E s \in Sessions :
    pc[s] = "commit" /\ AuditedRows(s) # {} /\ OrgOf[req[s].dev] = o

\* What a session's statement sees of a row: its own version or the committed one.
View(s, j) == IF j \in DOMAIN buf[s] THEN buf[s][j] ELSE jobs[j]

-----------------------------------------------------------------------------

NoCall == [op |-> "none"]
Nothing == [j \in {} |-> NoRow]

SessionsInit ==
  /\ pc = [s \in Sessions |-> "idle"]
  /\ req = [s \in Sessions |-> NoCall]
  /\ start = [s \in Sessions |-> 0]
  /\ todo = [s \in Sessions |-> {}]
  /\ buf = [s \in Sessions |-> Nothing]
  /\ queue = [j \in JobIds |-> <<>>]

Init == Store!Init /\ SessionsInit

committed == <<jobs, revokedAt, audit, now>>

Goto(s, label) == pc' = [pc EXCEPT ![s] = label]

Write(s, j, row) ==
  buf' = [buf EXCEPT ![s] =
            [i \in DOMAIN buf[s] \cup {j} |-> IF i = j THEN row ELSE buf[s][i]]]

\* s no longer waits for any row.  It is in one queue at most, and there once.
LeaveQueue(s) ==
  queue' = [j \in JobIds |->
              IF Contains(queue[j], s)
              THEN RemoveAt(queue[j], CHOOSE i \in DOMAIN queue[j] : queue[j][i] = s)
              ELSE queue[j]]

\* The transaction is over: its locks and its place in queues are gone.
End(s) ==
  /\ pc' = [pc EXCEPT ![s] = "idle"]
  /\ req' = [req EXCEPT ![s] = NoCall]
  /\ start' = [start EXCEPT ![s] = 0]
  /\ todo' = [todo EXCEPT ![s] = {}]
  /\ buf' = [buf EXCEPT ![s] = Nothing]
  /\ LeaveQueue(s)

\* psycopg's transaction() block was left by an exception.
RollBack(s) == End(s) /\ UNCHANGED committed

Begin(s, call, label) ==
  /\ pc[s] = "idle"
  /\ req' = [req EXCEPT ![s] = call]
  /\ start' = [start EXCEPT ![s] = now]
  /\ Goto(s, label)
  /\ UNCHANGED <<committed, todo, buf, queue>>

-----------------------------------------------------------------------------
(* create *)

\* Bound: creates begin only while an unused identifier is left for each.
BeginCreate(s, call) ==
  /\ jobs[call.job].status = "absent"
  /\ \A r \in Sessions : req[r].op = "create" => req[r].job # call.job
  /\ Begin(s, call, "device")

\* select ... for share; Revoke is one step, so there is never a revocation
\* in progress to wait for.
ShareDevice(s) ==
  LET d == req[s].dev IN
  /\ pc[s] = "device"
  /\ IF OrgOf[d] = req[s].org /\ revokedAt[d] = None
     THEN Goto(s, "insert") /\ UNCHANGED <<committed, req, start, todo, buf, queue>>
     ELSE RollBack(s)                                      \* device_not_found

\* A slip: an uncommitted row with the key counts as taken at once.
InsertWithoutWaiting(s) ==
  LET c == req[s] IN
  /\ pc[s] = "insert"
  /\ IF KeyTaken(jobs, c.org, c.dev, c.key) \/ KeyInFlight(s, c.org, c.dev, c.key)
     THEN Goto(s, "replay") /\ UNCHANGED buf
     ELSE /\ Write(s, c.job, NewRow(c.org, c.dev, c.key, c.ttl, start[s]))
          /\ Goto(s, "audit")
  /\ UNCHANGED <<committed, req, start, todo, queue>>

\* insert ... on conflict do nothing
Insert(s) ==
  LET c == req[s] IN
  /\ pc[s] = "insert"
  /\ IF KeyTaken(jobs, c.org, c.dev, c.key)
     THEN Goto(s, "replay") /\ UNCHANGED buf
     ELSE /\ ~ KeyInFlight(s, c.org, c.dev, c.key)
          /\ Write(s, c.job, NewRow(c.org, c.dev, c.key, c.ttl, start[s]))
          /\ Goto(s, "audit")
  /\ UNCHANGED <<committed, req, start, todo, queue>>

\* The row the insert ran into is read and returned.
Replay(s) ==
  /\ pc[s] = "replay"
  /\ IF KeyTaken(jobs, req[s].org, req[s].dev, req[s].key)
     THEN Goto(s, "commit") /\ UNCHANGED <<committed, req, start, todo, buf, queue>>
     ELSE RollBack(s)                                      \* job_create_failed

-----------------------------------------------------------------------------
(* claim_for_device *)

BeginClaim(s, call) == Begin(s, call, "sweep")

\* A slip: the sweep is skipped for a revoked device.
SweepUnlessRevoked(s) ==
  LET found == {j \in JobIds : /\ LeaseExpired(jobs[j], req[s].dev, start[s])
                               /\ revokedAt[req[s].dev] = None} IN
  /\ pc[s] = "sweep"
  /\ todo' = [todo EXCEPT ![s] = found]
  /\ Goto(s, IF found = {} THEN "pick" ELSE "rows")
  /\ UNCHANGED <<committed, req, start, buf, queue>>

\* The sweep's update finds its rows in a snapshot; it does not ask whether the
\* device is revoked.
SweepSnapshot(s) ==
  LET found == {j \in JobIds : LeaseExpired(jobs[j], req[s].dev, start[s])} IN
  /\ pc[s] = "sweep"
  /\ todo' = [todo EXCEPT ![s] = found]
  /\ Goto(s, IF found = {} THEN "pick" ELSE "rows")
  /\ UNCHANGED <<committed, req, start, buf, queue>>

\* ... and updates them in any order, waiting for each row's lock and
\* re-evaluating its condition on the version found then.
SweepRow(s, j) ==
  /\ pc[s] = "rows"
  /\ j \in todo[s]
  /\ Granted(s, j)
  /\ LeaveQueue(s)
  /\ todo' = [todo EXCEPT ![s] = @ \ {j}]
  /\ IF LeaseExpired(jobs[j], req[s].dev, start[s])
     THEN Write(s, j, Released(jobs[j]))
     ELSE UNCHANGED buf
  /\ IF todo[s] = {j} THEN Goto(s, "pick") ELSE UNCHANGED pc
  /\ UNCHANGED <<committed, req, start>>

\* A slip: the candidate query does not lock the row it finds.
CandidatesLockedOrNot(s) ==
  {j \in JobIds : /\ revokedAt[req[s].dev] = None
                  /\ Claimable(View(s, j), req[s].dev, start[s])}

\* The rows of the candidate query: locked ones are skipped.
Candidates(s) ==
  {j \in JobIds : /\ revokedAt[req[s].dev] = None
                  /\ Claimable(View(s, j), req[s].dev, start[s])
                  /\ ~ LockedByOther(s, j)}

Oldest(s, C) == {j \in C : \A i \in C : View(s, j).created <= View(s, i).created}

\* A slip: a poll that finds no job looks again in the same transaction.
PollUntilJob(s) ==
  /\ pc[s] = "pick"
  /\ Candidates(s) = {}
  /\ Goto(s, "sweep")
  /\ UNCHANGED <<committed, req, start, todo, buf, queue>>

\* with candidate as (... limit 1) update ...: lease the oldest one.
PickNone(s) ==
  /\ pc[s] = "pick"
  /\ Candidates(s) = {}
  /\ Goto(s, "commit")
  /\ UNCHANGED <<committed, req, start, todo, buf, queue>>

Pick(s, j) ==
  /\ pc[s] = "pick"
  /\ j \in Oldest(s, Candidates(s))
  /\ Write(s, j, Leased(View(s, j), start[s]))
  /\ Goto(s, "audit")
  /\ UNCHANGED <<committed, req, start, todo, queue>>

-----------------------------------------------------------------------------
(* _finish_for_device *)

BeginFinish(s, call) == Begin(s, call, "match")

\* The row the update may apply to.
Finishable(row, d) == row.dev = d /\ row.status = "claimed"

\* The update looks for its row in a snapshot, the device's status with it.
Match(s) ==
  /\ pc[s] = "match"
  /\ IF Finishable(jobs[req[s].job], req[s].dev) /\ revokedAt[req[s].dev] = None
     THEN Goto(s, "lock") /\ UNCHANGED <<committed, req, start, todo, buf, queue>>
     ELSE RollBack(s)                 \* job_not_claimed_or_device_unauthorized

\* A slip: the status is only checked where the row is looked up.
FinishUnchecked(s) ==
  LET j == req[s].job IN
  /\ pc[s] = "lock"
  /\ Granted(s, j)
  /\ Write(s, j, Finished(jobs[j], req[s].outcome, start[s]))
  /\ Goto(s, "audit")
  /\ LeaveQueue(s)
  /\ UNCHANGED <<committed, req, start, todo>>

\* ... waits for the row's lock and re-evaluates its condition on the row.
LockAndFinish(s) ==
  LET j == req[s].job IN
  /\ pc[s] = "lock"
  /\ Granted(s, j)
  /\ IF Finishable(jobs[j], req[s].dev)
     THEN /\ Write(s, j, Finished(jobs[j], req[s].outcome, start[s]))
          /\ Goto(s, "audit")
          /\ LeaveQueue(s)
          /\ UNCHANGED <<committed, req, start, todo>>
     ELSE RollBack(s)

-----------------------------------------------------------------------------
(* What all three share *)

\* The next row of a sweep, or the row of a result, is locked: wait in line.
Wait(s, j) ==
  /\ \/ pc[s] = "rows" /\ j \in todo[s]
     \/ pc[s] = "lock" /\ j = req[s].job
  /\ ~ Queued(s)
  /\ ~ Granted(s, j)
  /\ queue' = [queue EXCEPT ![j] = Append(@, s)]
  /\ UNCHANGED <<committed, pc, req, start, todo, buf>>

TakeAuditLock(s) ==
  /\ pc[s] = "audit"
  /\ ~ AuditLocked(OrgOf[req[s].dev])
  /\ Goto(s, "commit")
  /\ UNCHANGED <<committed, req, start, todo, buf, queue>>

Commit(s) ==
  /\ pc[s] = "commit"
  /\ jobs' = [j \in JobIds |-> View(s, j)]
  /\ audit' = [j \in JobIds |->
                 IF j \in AuditedRows(s)
                 THEN [audit[j] EXCEPT ![EventOf(s)] = @ + 1]
                 ELSE audit[j]]
  /\ End(s)
  /\ UNCHANGED <<revokedAt, now>>

\* The process dies or its connection is lost.
Disconnect(s) == pc[s] # "idle" /\ RollBack(s)

\* s waits for a row or a key of r, for a row r waits for too and will get first,
\* or for the audit lock r holds.
WaitsFor(s, r) ==
  /\ r # s
  /\ \/ \E j \in JobIds :
          /\ Contains(queue[j], s)
          /\ j \in DOMAIN buf[r] \/ Head(queue[j]) = r
     \/ /\ pc[s] = "insert"
        /\ \E j \in DOMAIN buf[r] : /\ buf[r][j].org = req[s].org
                                     /\ buf[r][j].dev = req[s].dev
                                     /\ buf[r][j].key = req[s].key
     \/ pc[s] = "audit" /\ pc[r] = "commit" /\ AuditedRows(r) # {}
        /\ OrgOf[req[r].dev] = OrgOf[req[s].dev]

\* PostgreSQL rolls back a session of a set of sessions that wait for each other.
DeadlockVictim(s) ==
  /\ \E S \in SUBSET Sessions :
       /\ s \in S
       /\ \A r \in S : /\ \E q \in S : WaitsFor(r, q)
                       /\ \E q \in S : WaitsFor(q, r)
  /\ RollBack(s)

\* update public.devices set status = 'revoked', by an administrator; it waits
\* for share locks on the device.
Revoke(d) ==
  /\ revokedAt[d] = None
  /\ ~ DeviceShared(d)
  /\ revokedAt' = [revokedAt EXCEPT ![d] = now]
  /\ UNCHANGED <<jobs, audit, now, session>>

Tick ==
  /\ now < MaxTime
  /\ now' = now + 1
  /\ UNCHANGED <<jobs, revokedAt, audit, session>>

Execute(s) ==
  \/ ShareDevice(s) \/ Insert(s) \/ Replay(s)
  \/ SweepSnapshot(s) \/ (\E j \in JobIds : SweepRow(s, j))
  \/ PickNone(s) \/ (\E j \in JobIds : Pick(s, j))
  \/ Match(s) \/ LockAndFinish(s)
  \/ (\E j \in JobIds : Wait(s, j))
  \/ TakeAuditLock(s) \/ Commit(s)

Serve ==
  \/ \E s \in Sessions :
       \/ \E call \in CreateCall : BeginCreate(s, call)
       \/ \E call \in ClaimCall : BeginClaim(s, call)
       \/ \E call \in FinishCall : BeginFinish(s, call)
       \/ Execute(s)
       \/ DeadlockVictim(s)
  \/ \E d \in Devices : Revoke(d)
  \/ Tick

Next == Serve \/ \E s \in Sessions : Disconnect(s)

Spec == Init /\ [][Next]_vars

(***************************************************************************)
(* The database executes every statement: a wait for a lock ends when the  *)
(* lock is granted, in the order of the waiters, so a statement that can   *)
(* continue again and again does; the deadlock detector runs.  Every agent *)
(* polls for jobs over and over (its service loop has no exit).            *)
(***************************************************************************)
StatementFairness ==
  \A s \in Sessions : SF_vars(Execute(s)) /\ WF_vars(DeadlockVictim(s))

PollFairness ==
  \A d \in Devices :
    SF_vars(\E s \in Sessions : BeginClaim(s, [op |-> "claim", dev |-> d]))

-----------------------------------------------------------------------------

TypeOK ==
  /\ Store!TypeOK
  /\ pc \in [Sessions -> Labels]
  /\ req \in [Sessions -> Calls \cup {NoCall}]
  /\ start \in [Sessions -> Nat]
  /\ todo \in [Sessions -> SUBSET JobIds]
  /\ queue \in [JobIds -> Seq(Sessions)]
  /\ \A s \in Sessions : /\ DOMAIN buf[s] \subseteq JobIds
                         /\ \A j \in DOMAIN buf[s] : buf[s][j] \in Row

\* The statements and locks of PostgresJobRepository make every call one atomic
\* step on the jobs, the audit trail and the devices, taken at its commit.
ImplementsJobStore == Store!Spec

\* The error job_create_failed cannot happen: when an insert finds its key taken,
\* the row it ran into is committed and stays readable.
ReplayFindsJob ==
  \A s \in Sessions :
    pc[s] = "replay" => KeyTaken(jobs, req[s].org, req[s].dev, req[s].key)

\* Two sessions never hold versions of the same row, so no commit overwrites
\* what another one wrote.
NoLostUpdate ==
  \A s, r \in Sessions :
    s # r => DOMAIN buf[s] \cap DOMAIN buf[r] = {}

\* Every call comes to an end: no set of sessions waits for each other forever.
CallsTerminate ==
  \A s \in Sessions : pc[s] # "idle" ~> pc[s] = "idle"

\* A lease that runs out ends: its job is returned to the queue, leased anew, or
\* a result is accepted for it, even when the device was revoked.
LeaseOver(j) == jobs[j].status = "claimed" /\ jobs[j].leaseEnd < now

ExpiredLeaseEnds == \A j \in JobIds : LeaseOver(j) ~> ~ LeaseOver(j)

\* A queued job that stays claimable reaches its device unless it is revoked.
QueuedJobIsLeased ==
  \A j \in JobIds :
    /\ jobs[j].status = "pending"
    /\ jobs[j].attempts < MaxAttempts
    /\ jobs[j].expires > MaxTime
    ~> jobs[j].status # "pending" \/ revokedAt[jobs[j].dev] # None

=============================================================================
