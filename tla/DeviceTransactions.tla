--------------------------- MODULE DeviceTransactions ---------------------------
(***************************************************************************)
(* DeviceRepository.enroll and heartbeat and InventoryRepository.submit as *)
(* the database runs them: sessions executing their statements one at a    *)
(* time at READ COMMITTED, with the locks the statements take.             *)
(*                                                                         *)
(* What a session has written and not committed follows from pc and req:   *)
(* an enroll past its insert holds the device row, a submit past its       *)
(* delete the rows in found, past its insert the new snapshot.  A session  *)
(* may lose its connection, or be chosen as the victim of a deadlock,      *)
(* before any step; both roll it back.                                     *)
(***************************************************************************)
EXTENDS DeviceRows, FiniteSets

CONSTANT Sessions    \* database connections open at the same time

VARIABLES
  tokens, devices, snapshots, now,   \* the committed state, as in DeviceRegistry
  pc,        \* the statement each session executes next
  req,       \* the call each session executes
  start,     \* when the enrollment began; other calls do not look at it
  found      \* the snapshots that the session's delete has found

session == <<pc, req, start, found>>
committed == <<tokens, devices, snapshots, now>>
vars == <<committed, session>>

Registry == INSTANCE DeviceRegistry

-----------------------------------------------------------------------------

EnrollCall == [op : {"enroll"}, token : Tokens, serial : Serials \cup {None},
               dev : DeviceIds]
BeatCall == [op : {"heartbeat"}, dev : DeviceIds, observed : Nat]
SubmitCall == [op : {"submit"}, dev : DeviceIds, hash : Hashes]

NoCall == [op |-> "none"]

Labels == {"idle",
           "token", "insert", "mark",              \* enroll
           "match", "row",                         \* heartbeat
           "select", "find", "delete", "replace",  \* submit
           "audit", "commit"}

-----------------------------------------------------------------------------
(* Rows and locks that sessions hold until they end. *)

\* select ... from enrollment_tokens ... for update
TokenHeld(s, tk) ==
  \E r \in Sessions \ {s} :
    pc[r] \in {"insert", "mark", "commit"} /\ req[r].op = "enroll" /\ req[r].token = tk

\* Another session has inserted a device with this serial number.
SerialInFlight(s, serial) ==
  \E r \in Sessions \ {s} :
    /\ pc[r] \in {"mark", "commit"} /\ req[r].op = "enroll"
    /\ req[r].serial = serial /\ serial # None

\* Another session has updated the device row and not committed.
DeviceHeld(s, d) ==
  \E r \in Sessions \ {s} :
    pc[r] = "commit" /\ req[r].op = "heartbeat" /\ req[r].dev = d

\* The snapshots a session has deleted, and whether it has inserted its own.
Deleted(r) ==
  IF pc[r] \in {"replace", "audit", "commit"} /\ req[r].op = "submit" THEN found[r] ELSE {}

Inserted(r) ==
  IF pc[r] \in {"audit", "commit"} /\ req[r].op = "submit"
  THEN {[dev |-> req[r].dev, hash |-> req[r].hash]} ELSE {}

-----------------------------------------------------------------------------

Init ==
  /\ Registry!Init
  /\ pc = [s \in Sessions |-> "idle"]
  /\ req = [s \in Sessions |-> NoCall]
  /\ start = [s \in Sessions |-> 0]
  /\ found = [s \in Sessions |-> {}]

Goto(s, label) == pc' = [pc EXCEPT ![s] = label]

Proceed(s, label) == Goto(s, label) /\ UNCHANGED <<committed, req, start, found>>

End(s) ==
  /\ Goto(s, "idle")
  /\ req' = [req EXCEPT ![s] = NoCall]
  /\ start' = [start EXCEPT ![s] = 0]
  /\ found' = [found EXCEPT ![s] = {}]

RollBack(s) == End(s) /\ UNCHANGED committed

Begin(s, call, label) ==
  /\ pc[s] = "idle"
  /\ req' = [req EXCEPT ![s] = call]
  /\ start' = [start EXCEPT ![s] = IF call.op = "enroll" THEN now ELSE 0]
  /\ Goto(s, label)
  /\ UNCHANGED <<committed, found>>

-----------------------------------------------------------------------------
(* enroll *)

\* Bound: enrollments begin only while an unused device id is left for each.
BeginEnroll(s, call) ==
  /\ ~ devices[call.dev].enrolled
  /\ \A r \in Sessions : req[r].op = "enroll" => req[r].dev # call.dev
  /\ Begin(s, call, "token")

\* A slip: the token's expiry is not looked at.
LockTokenOfAnyAge(s) ==
  /\ pc[s] = "token"
  /\ ~ TokenHeld(s, req[s].token)
  /\ IF tokens[req[s].token].expires > 0 /\ tokens[req[s].token].usedBy = None
     THEN Proceed(s, "insert")
     ELSE RollBack(s)

\* The token's row is locked, then its condition is evaluated on what is there.
LockToken(s) ==
  /\ pc[s] = "token"
  /\ ~ TokenHeld(s, req[s].token)
  /\ IF Registry!ValidToken(req[s].token, start[s])
     THEN Proceed(s, "insert")
     ELSE RollBack(s)                              \* invalid_or_expired_token

InsertDevice(s) ==
  /\ pc[s] = "insert"
  /\ ~ SerialInFlight(s, req[s].serial)
  /\ IF Registry!SerialTaken(req[s].serial)
     THEN RollBack(s)                              \* device_already_exists
     ELSE Proceed(s, "mark")

\* update enrollment_tokens set consumed_at, consumed_device_id
MarkToken(s) == pc[s] = "mark" /\ Proceed(s, "commit")

-----------------------------------------------------------------------------
(* heartbeat *)

\* A heartbeat whose clock differs too much is rejected before the transaction.
BeginHeartbeat(s, call) ==
  /\ Near(call.observed, now)
  /\ Begin(s, call, "match")

Match(s) ==
  /\ pc[s] = "match"
  /\ IF devices[req[s].dev].enrolled /\ devices[req[s].dev].revoked = None
     THEN Proceed(s, "row")
     ELSE RollBack(s)                              \* invalid_device_credential

\* The row found is locked and its status is looked at again.
UpdateRow(s) ==
  /\ pc[s] = "row"
  /\ ~ DeviceHeld(s, req[s].dev)
  /\ IF devices[req[s].dev].revoked = None THEN Proceed(s, "commit") ELSE RollBack(s)

-----------------------------------------------------------------------------
(* submit *)

BeginSubmit(s, call) == Begin(s, call, "select")

SelectDevice(s) ==
  /\ pc[s] = "select"
  /\ IF devices[req[s].dev].enrolled /\ devices[req[s].dev].revoked = None
     THEN Proceed(s, "find")
     ELSE RollBack(s)                              \* invalid_device_credential

\* The delete finds its rows in a snapshot of the database ...
FindSnapshots(s) ==
  /\ pc[s] = "find"
  /\ found' = [found EXCEPT ![s] = Registry!Of(req[s].dev)]
  /\ Goto(s, "delete")
  /\ UNCHANGED <<committed, req, start>>

\* A slip: the delete is a transaction of its own.
DeleteAtOnce(s) ==
  /\ pc[s] = "delete"
  /\ \A r \in Sessions \ {s} : Deleted(r) \cap found[s] = {}
  /\ snapshots' = snapshots \ found[s]
  /\ Goto(s, "replace")
  /\ UNCHANGED <<tokens, devices, now, req, start, found>>

\* ... and waits for those that another session has deleted.  If that session
\* commits, they are gone from found.
DeleteSnapshots(s) ==
  /\ pc[s] = "delete"
  /\ \A r \in Sessions \ {s} : Deleted(r) \cap found[s] = {}
  /\ Proceed(s, "replace")

\* insert: waits for sessions that have deleted or inserted a row of this hash.
InsertSnapshot(s) ==
  LET row == [dev |-> req[s].dev, hash |-> req[s].hash] IN
  /\ pc[s] = "replace"
  /\ \A r \in Sessions \ {s} : row \notin Deleted(r) \cup Inserted(r)
  /\ IF row \in snapshots \ found[s]
     THEN RollBack(s)                              \* UniqueViolation
     ELSE Proceed(s, "audit")

\* append_audit_in_transaction: the organization's advisory lock
TakeAuditLock(s) ==
  /\ pc[s] = "audit"
  /\ \A r \in Sessions : ~ (pc[r] = "commit" /\ req[r].op = "submit")
  /\ Proceed(s, "commit")

-----------------------------------------------------------------------------

\* What the session has written becomes visible, and its locks are released.
Apply(s) ==
  LET c == req[s] IN
  CASE c.op = "enroll" ->
         /\ devices' = [devices EXCEPT ![c.dev] = NewDevice(c.serial, start[s])]
         /\ tokens' = [tokens EXCEPT ![c.token].usedBy = c.dev]
         /\ UNCHANGED snapshots
    [] c.op = "heartbeat" ->
         /\ devices' = [devices EXCEPT ![c.dev].seen = c.observed]
         /\ UNCHANGED <<tokens, snapshots>>
    [] c.op = "submit" ->
         /\ snapshots' = (snapshots \ Deleted(s)) \cup Inserted(s)
         /\ UNCHANGED <<tokens, devices>>

Commit(s) ==
  /\ pc[s] = "commit"
  /\ Apply(s)
  /\ Goto(s, "idle")
  /\ req' = [req EXCEPT ![s] = NoCall]
  /\ start' = [start EXCEPT ![s] = 0]
  /\ found' = [r \in Sessions |-> IF r = s THEN {} ELSE found[r] \ Deleted(s)]
  /\ UNCHANGED now

Disconnect(s) == pc[s] # "idle" /\ RollBack(s)

\* issue_token is a single insert.
IssueToken(tk, ttl) == Registry!IssueToken(tk, ttl) /\ UNCHANGED session

\* update public.devices set status = 'revoked', by an administrator; it waits
\* for heartbeats that hold the row.
Revoke(d) ==
  /\ \A s \in Sessions : ~ (pc[s] = "commit" /\ req[s].op = "heartbeat" /\ req[s].dev = d)
  /\ Registry!Revoke(d)
  /\ UNCHANGED session

Tick == Registry!Tick /\ UNCHANGED session

Next ==
  \/ \E s \in Sessions :
       \/ \E call \in EnrollCall : BeginEnroll(s, call)
       \/ LockToken(s) \/ InsertDevice(s) \/ MarkToken(s)
       \/ \E d \in DeviceIds, observed \in 0 .. now + Skew :
            BeginHeartbeat(s, [op |-> "heartbeat", dev |-> d, observed |-> observed])
       \/ Match(s) \/ UpdateRow(s)
       \/ \E call \in SubmitCall : BeginSubmit(s, call)
       \/ SelectDevice(s) \/ FindSnapshots(s) \/ DeleteSnapshots(s) \/ InsertSnapshot(s)
       \/ TakeAuditLock(s) \/ Commit(s) \/ Disconnect(s)
  \/ \E tk \in Tokens, ttl \in TTLs : IssueToken(tk, ttl)
  \/ \E d \in DeviceIds : Revoke(d)
  \/ Tick

Spec == Init /\ [][Next]_vars

-----------------------------------------------------------------------------

TypeOK ==
  /\ Registry!TypeOK
  /\ pc \in [Sessions -> Labels]
  /\ req \in [Sessions -> EnrollCall \cup BeatCall \cup SubmitCall \cup {NoCall}]
  /\ start \in [Sessions -> Nat]
  /\ found \in [Sessions -> SUBSET Snapshot]

\* The statements and locks of enroll, heartbeat and submit make every call one
\* atomic step on the tokens, the devices and the snapshots, taken at its commit:
\* so a token buys one device, serial numbers stay apart and a revocation is final
\* whatever statements interleave, as DeviceRegistryProofs shows.
ImplementsDeviceRegistry == Registry!Spec

\* Replacing a snapshot never leaves a device without one, whichever of the
\* submissions that race fails.
InventoryIsKept == Registry!InventoryIsKept

\* "Keep one current snapshot per device during testing."
OneCurrentSnapshot == \A d \in DeviceIds : Cardinality(Registry!Of(d)) <= 1
=============================================================================
