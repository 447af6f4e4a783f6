------------------------------- MODULE AuditChain -------------------------------
(***************************************************************************)
(* append_audit_in_transaction: sessions appending to the hash chain of    *)
(* public.audit_log at READ COMMITTED.  A session stamps its event, takes  *)
(* the organization's advisory lock, reads the hash of the last event,     *)
(* inserts its own and commits; it may roll back at any step, with the     *)
(* transaction it belongs to.                                              *)
(*                                                                         *)
(* An event's hash covers the hash before it and the event, and SHA-256 is *)
(* taken to be free of collisions: the hash of event e is e itself.        *)
(***************************************************************************)
EXTENDS Naturals, FiniteSets

CONSTANTS
  Sessions,     \* transactions that append, in all processes of the API
  Orgs,         \* organizations
  LockKey,      \* hashtext of each organization's id; it may collide
  Events,       \* ids that events can get, ordered as the database orders uuids
  MaxTime,      \* bound on the clock
  Genesis       \* the hash before the first event

ASSUME ConstantsAssumption ==
  /\ LockKey \in [Orgs -> Nat]
  /\ Events \subseteq Nat
  /\ MaxTime \in Nat
  /\ Genesis \notin Events
  /\ Orgs # {}

VARIABLES
  log,     \* the committed events: id -> organization, created_at, previous_hash
  rows,    \* the ids of the committed events
  pc,      \* the statement each session executes next
  entry,   \* the event each session is appending
  id,      \* its id
  now      \* the clock of the API hosts

vars == <<log, rows, pc, entry, id, now>>

Entry == [org : Orgs, at : Nat, prev : Events \cup {Genesis}]

NoEntry == [org |-> CHOOSE o \in Orgs : TRUE, at |-> 0, prev |-> Genesis]

-----------------------------------------------------------------------------

Init ==
  /\ log = [e \in Events |-> NoEntry]
  /\ rows = {}
  /\ pc = [s \in Sessions |-> "idle"]
  /\ entry = [s \in Sessions |-> NoEntry]
  /\ id = [s \in Sessions |-> 0]
  /\ now = 0

Active(s) == pc[s] # "idle"

Goto(s, label) == pc' = [pc EXCEPT ![s] = label]

\* event_id = uuid4(); created_at = datetime.now(UTC): before the lock is taken.
Stamp(s, o, e) ==
  /\ pc[s] = "idle"
  /\ e \notin rows /\ \A r \in Sessions : Active(r) => id[r] # e
  /\ id' = [id EXCEPT ![s] = e]
  /\ entry' = [entry EXCEPT ![s] = [org |-> o, at |-> now, prev |-> Genesis]]
  /\ Goto(s, "lock")
  /\ UNCHANGED <<log, rows, now>>

\* A slip: the lock is released at the end of its statement.
NoHolder(k) == TRUE

\* Nobody holds the advisory lock k; it is held until its holder's end.
LockFree(k) ==
  \A r \in Sessions : pc[r] \in {"read", "insert"} => LockKey[entry[r].org] # k

Lock(s) ==
  /\ pc[s] = "lock"
  /\ LockFree(LockKey[entry[s].org])
  /\ Goto(s, "read")
  /\ UNCHANGED <<log, rows, entry, id, now>>

\* order by created_at desc, id desc
Before(e, f) ==
  \/ log[e].at < log[f].at
  \/ log[e].at = log[f].at /\ e < f

\* A slip: the query does not filter by organization.
OfAnyOrganization(o) == rows

\* A slip: the event is inserted before the last event is looked for.
WithOwnInsert(o) ==
  {e \in rows : log[e].org = o}
    \cup {id[s] : s \in {r \in Sessions : pc[r] = "read" /\ entry[r].org = o}}

\* where organization_id = ...
OfOrganization(o) == {e \in rows : log[e].org = o}

\* A slip: the first event gets no previous hash.
NewestOrEmpty(o) ==
  IF OfOrganization(o) = {} THEN {0}
  ELSE {e \in OfOrganization(o) : \A f \in OfOrganization(o) : f = e \/ Before(f, e)}

\* The hashes the query for the previous event may return.
Newest(o) ==
  IF OfOrganization(o) = {} THEN {Genesis}
  ELSE {e \in OfOrganization(o) : \A f \in OfOrganization(o) : f = e \/ Before(f, e)}

Read(s) ==
  /\ pc[s] = "read"
  /\ \E p \in Newest(entry[s].org) : entry' = [entry EXCEPT ![s].prev = p]
  /\ Goto(s, "insert")
  /\ UNCHANGED <<log, rows, id, now>>

\* The insert becomes visible when the caller's transaction commits, which takes
\* longer than the clock's resolution.  Bound: no commit after MaxTime.
Commit(s) ==
  /\ pc[s] = "insert"
  /\ now < MaxTime
  /\ log' = [log EXCEPT ![id[s]] = entry[s]]
  /\ rows' = rows \cup {id[s]}
  /\ Goto(s, "idle")
  /\ entry' = [entry EXCEPT ![s] = NoEntry]
  /\ id' = [id EXCEPT ![s] = 0]
  /\ now' = now + 1

\* The caller's transaction fails or its connection is lost.
RollBack(s) ==
  /\ Active(s)
  /\ Goto(s, "idle")
  /\ entry' = [entry EXCEPT ![s] = NoEntry]
  /\ id' = [id EXCEPT ![s] = 0]
  /\ UNCHANGED <<log, rows, now>>

Tick ==
  /\ now < MaxTime
  /\ now' = now + 1
  /\ UNCHANGED <<log, rows, pc, entry, id>>

Next ==
  \/ \E s \in Sessions :
       \/ \E o \in Orgs, e \in Events : Stamp(s, o, e)
       \/ Lock(s) \/ Read(s) \/ Commit(s) \/ RollBack(s)
  \/ Tick

Spec == Init /\ [][Next]_vars

-----------------------------------------------------------------------------

TypeOK ==
  /\ log \in [Events -> Entry]
  /\ rows \subseteq Events
  /\ pc \in [Sessions -> {"idle", "lock", "read", "insert"}]
  /\ entry \in [Sessions -> Entry]
  /\ id \in [Sessions -> Events \cup {0}]
  /\ now \in Nat

\* Two first writers of an organization never both start a chain.
OneGenesis ==
  \A e, f \in rows :
    log[e].org = log[f].org /\ log[e].prev = Genesis /\ log[f].prev = Genesis
      => e = f

\* Every event is chained to a committed event of its own organization.
ChainedWithinOrganization ==
  \A e \in rows :
    \/ log[e].prev = Genesis
    \/ log[e].prev \in rows /\ log[log[e].prev].org = log[e].org

\* The chain has no cycle: from any set of events it leads out of the set, in
\* the end to Genesis.
ChainLeadsToGenesis ==
  \A S \in SUBSET rows : S # {} => \E e \in S : log[e].prev \notin S

Successors(p) == {e \in rows : log[e].prev = p}

\* "Without a transaction lock, two first writers could both observe GENESIS and
\* fork the chain": with the lock, appends are said to make one line of events.
ChainIsALine ==
  \A p \in rows : Cardinality(Successors(p)) <= 1
=============================================================================
