------------------------- MODULE JobTransactionsProofs -------------------------
(***************************************************************************)
(* The statements and locks of PostgresJobRepository make every call one   *)
(* atomic step, for every value of the constants: JobTransactions          *)
(* implements JobStore.                                                    *)
(***************************************************************************)
EXTENDS JobTransactions, TLAPS

-----------------------------------------------------------------------------
(* The inductive invariant. *)

\* Where a session is says which call it executes and whether it has written.
PlaceInv(s) ==
  /\ start[s] <= now
  /\ pc[s] = "idle" => req[s] = NoCall
  /\ pc[s] \in {"device", "insert", "replay"} => req[s] \in CreateCall
  /\ pc[s] \in {"sweep", "rows", "pick"} => req[s] \in ClaimCall
  /\ pc[s] \in {"match", "lock"} => req[s] \in FinishCall
  /\ pc[s] \in {"audit", "commit"} => req[s] \in Calls
  /\ pc[s] \notin {"rows", "pick", "audit", "commit"} => DOMAIN buf[s] = {}

\* A create past its share lock has an active device.  Until it commits, its
\* identifier is unused and its key is taken by nobody, unless it ran into it.
CreateInv(s) ==
  LET c == req[s] IN
  c \in CreateCall =>
    /\ jobs[c.job].status = "absent"
    /\ pc[s] # "device" => OrgOf[c.dev] = c.org /\ revokedAt[c.dev] = None
    /\ pc[s] = "replay" => KeyTaken(jobs, c.org, c.dev, c.key)
    /\ pc[s] = "audit" => DOMAIN buf[s] # {}
    /\ DOMAIN buf[s] # {} =>
         /\ DOMAIN buf[s] = {c.job}
         /\ buf[s][c.job] = NewRow(c.org, c.dev, c.key, c.ttl, start[s])
         /\ ~ KeyTaken(jobs, c.org, c.dev, c.key)

\* s holds the row j as its sweep released it.
SweptBy(s, j) ==
  /\ LeaseExpired(jobs[j], req[s].dev, start[s])
  /\ buf[s][j] = Released(jobs[j])

\* s holds the row j leased, as it was or as its sweep released it.
LeasedBy(s, j) ==
  LET d == req[s].dev IN
  \/ Claimable(jobs[j], d, start[s]) /\ buf[s][j] = Leased(jobs[j], start[s])
  \/ /\ LeaseExpired(jobs[j], d, start[s])
     /\ Claimable(Released(jobs[j]), d, start[s])
     /\ buf[s][j] = Leased(Released(jobs[j]), start[s])

\* A claim holds rows it released and, once it is audited, one it leased.
ClaimInv(s) ==
  req[s] \in ClaimCall =>
    \/ /\ pc[s] # "audit"
       /\ \A j \in DOMAIN buf[s] : SweptBy(s, j)
    \/ /\ pc[s] \in {"audit", "commit"}
       /\ Store!ActiveSince(req[s].dev, start[s])
       /\ \E j \in DOMAIN buf[s] :
            /\ LeasedBy(s, j)
            /\ \A i \in DOMAIN buf[s] \ {j} : SweptBy(s, i)

\* A result found its job claimed and holds that row, finished.
FinishInv(s) ==
  LET c == req[s] IN
  c \in FinishCall =>
    /\ pc[s] # "match" => Store!ActiveSince(c.dev, start[s])
    /\ pc[s] \in {"audit", "commit"} =>
         /\ DOMAIN buf[s] = {c.job}
         /\ Finishable(jobs[c.job], c.dev)
         /\ buf[s][c.job] = Finished(jobs[c.job], c.outcome, start[s])

SessionInv(s) == PlaceInv(s) /\ CreateInv(s) /\ ClaimInv(s) /\ FinishInv(s)

\* Creates in progress use different identifiers, and those that inserted a row
\* different keys.
CreatesApart(s, r) ==
  req[s] \in CreateCall /\ req[r] \in CreateCall =>
    /\ req[s].job # req[r].job
    /\ DOMAIN buf[s] # {} /\ DOMAIN buf[r] # {} /\ req[s].dev = req[r].dev
         => req[s].key # req[r].key

PairInv(s, r) ==
  /\ DOMAIN buf[s] \cap DOMAIN buf[r] = {}
  /\ CreatesApart(s, r)

IInv ==
  /\ TypeOK /\ DOMAIN buf = Sessions
  /\ \A s \in Sessions : SessionInv(s)
  /\ \A s, r \in Sessions : s # r => PairInv(s, r)

-----------------------------------------------------------------------------
(* Types. *)

LEMMA CallsDiffer ==
  /\ \A c \in CreateCall : c \notin ClaimCall /\ c \notin FinishCall
  /\ \A c \in ClaimCall : c \notin FinishCall
  /\ NoCall \notin CreateCall /\ NoCall \notin ClaimCall /\ NoCall \notin FinishCall
BY DEF CreateCall, ClaimCall, FinishCall, NoCall

\* JobStore's rows and its statements about one row are those of this module.
LEMMA SameRows ==
  /\ Store!Row = Row
  /\ Store!NoRow = NoRow
  /\ Store!Outcomes = Outcomes
BY DEF Store!Row, Row, Store!Statuses, Statuses, Store!Outcomes, Outcomes, Store!NoRow, NoRow

LEMMA SameStatements ==
  ASSUME NEW row, NEW rows, NEW o, NEW d, NEW k, NEW ttl, NEW outcome, NEW t
  PROVE  /\ Store!NewRow(o, d, k, ttl, t) = NewRow(o, d, k, ttl, t)
         /\ Store!Released(row) = Released(row)
         /\ Store!Leased(row, t) = Leased(row, t)
         /\ Store!Finished(row, outcome, t) = Finished(row, outcome, t)
         /\ Store!LeaseExpired(row, d, t) <=> LeaseExpired(row, d, t)
         /\ Store!Claimable(row, d, t) <=> Claimable(row, d, t)
         /\ Store!KeyTaken(rows, o, d, k) <=> KeyTaken(rows, o, d, k)
BY DEF Store!NewRow, NewRow, Store!Released, Released, Store!Leased, Leased, Store!Finished,
       Finished, Store!LeaseExpired, LeaseExpired, Store!Claimable, Claimable,
       Store!KeyTaken, KeyTaken

LEMMA NewRowType ==
  ASSUME NEW c \in CreateCall, NEW t \in Nat
  PROVE  NewRow(c.org, c.dev, c.key, c.ttl, t) \in Row
<1>1. c.org \in Orgs /\ c.dev \in Devices /\ c.key \in Keys /\ c.ttl \in TTLs
  BY DEF CreateCall
<1>2. \A ttl \in TTLs : t + ttl \in Nat
  BY ConstantsAssumption
<1>3. t + c.ttl \in Nat
  BY <1>1, <1>2, Zenon
<1> QED
  BY <1>1, <1>3 DEF NewRow, Row, Statuses

LEMMA ReleasedType ==
  ASSUME NEW row \in Row
  PROVE  /\ Released(row) \in Row
         /\ Released(row).status = "pending"
         /\ Released(row).org = row.org
         /\ Released(row).dev = row.dev
         /\ Released(row).key = row.key
BY DEF Released, Row, Statuses

LEMMA LeasedType ==
  ASSUME NEW row \in Row, NEW t \in Nat
  PROVE  /\ Leased(row, t) \in Row
         /\ Leased(row, t).status = "claimed"
         /\ Leased(row, t).org = row.org
         /\ Leased(row, t).dev = row.dev
         /\ Leased(row, t).key = row.key
<1>1. row.attempts + 1 \in Nat /\ t + Lease \in Nat
  BY ConstantsAssumption DEF Row
<1> QED
  BY <1>1 DEF Leased, Row, Statuses

LEMMA FinishedType ==
  ASSUME NEW row \in Row, NEW outcome \in Outcomes, NEW t \in Nat
  PROVE  /\ Finished(row, outcome, t) \in Row
         /\ Finished(row, outcome, t).status = outcome
         /\ Finished(row, outcome, t).org = row.org
         /\ Finished(row, outcome, t).dev = row.dev
         /\ Finished(row, outcome, t).key = row.key
BY DEF Finished, Row, Statuses

LEMMA LeaveQueueType ==
  ASSUME TypeOK, NEW s \in Sessions, LeaveQueue(s)
  PROVE  queue' \in [JobIds -> Seq(Sessions)]
<1>1. ASSUME NEW q \in Seq(Sessions), Contains(q, s)
      PROVE  RemoveAt(q, CHOOSE i \in DOMAIN q : q[i] = s) \in Seq(Sessions)
  <2> DEFINE i == CHOOSE i \in DOMAIN q : q[i] = s
  <2>1. i \in 1 .. Len(q)
    BY <1>1 DEF Contains
  <2> HIDE DEF i
  <2>2. /\ SubSeq(q, 1, i - 1) \in Seq(Sessions)
        /\ SubSeq(q, i + 1, Len(q)) \in Seq(Sessions)
    BY <1>1, <2>1
  <2>3. RemoveAt(q, i) \in Seq(Sessions)
    BY <2>2 DEF RemoveAt
  <2> QED
    BY <2>3 DEF i
<1> QED
  BY <1>1 DEF LeaveQueue, TypeOK

LEMMA WriteType ==
  ASSUME TypeOK, DOMAIN buf = Sessions,
         NEW s \in Sessions, NEW j \in JobIds, NEW row \in Row, Write(s, j, row)
  PROVE  /\ DOMAIN buf' = Sessions
         /\ \A r \in Sessions : /\ DOMAIN buf'[r] \subseteq JobIds
                                /\ \A i \in DOMAIN buf'[r] : buf'[r][i] \in Row
         /\ \A r \in Sessions \ {s} : buf'[r] = buf[r]
         /\ DOMAIN buf'[s] = DOMAIN buf[s] \cup {j}
         /\ buf'[s][j] = row
         /\ \A i \in DOMAIN buf[s] \ {j} : buf'[s][i] = buf[s][i]
<1>1. /\ DOMAIN buf' = Sessions
      /\ \A r \in Sessions \ {s} : buf'[r] = buf[r]
      /\ buf'[s] = [i \in DOMAIN buf[s] \cup {j} |-> IF i = j THEN row ELSE buf[s][i]]
  BY DEF Write
<1>2. /\ DOMAIN buf'[s] = DOMAIN buf[s] \cup {j}
      /\ buf'[s][j] = row
      /\ \A i \in DOMAIN buf[s] \ {j} : buf'[s][i] = buf[s][i]
  BY <1>1
<1> QED
  BY <1>1, <1>2 DEF TypeOK

\* What ends a session leaves of it.
LEMMA EndType ==
  ASSUME TypeOK, DOMAIN buf = Sessions, NEW s \in Sessions, End(s)
  PROVE  /\ pc' \in [Sessions -> Labels]
         /\ req' \in [Sessions -> Calls \cup {NoCall}]
         /\ start' \in [Sessions -> Nat]
         /\ todo' \in [Sessions -> SUBSET JobIds]
         /\ queue' \in [JobIds -> Seq(Sessions)]
         /\ DOMAIN buf' = Sessions
         /\ \A r \in Sessions : /\ DOMAIN buf'[r] \subseteq JobIds
                                /\ \A i \in DOMAIN buf'[r] : buf'[r][i] \in Row
         /\ pc'[s] = "idle" /\ req'[s] = NoCall /\ start'[s] = 0 /\ DOMAIN buf'[s] = {}
         /\ \A r \in Sessions \ {s} :
              pc'[r] = pc[r] /\ req'[r] = req[r] /\ start'[r] = start[r] /\ buf'[r] = buf[r]
<1>1. queue' \in [JobIds -> Seq(Sessions)]
  BY LeaveQueueType DEF End
<1>2. /\ DOMAIN buf' = Sessions /\ buf'[s] = Nothing
      /\ \A r \in Sessions \ {s} : buf'[r] = buf[r]
  BY DEF End
<1>3. DOMAIN Nothing = {}
  BY DEF Nothing
<1> QED
  BY <1>1, <1>2, <1>3 DEF End, TypeOK, Labels

-----------------------------------------------------------------------------
(* The steps of one session. *)

\* The other sessions stay where they are.
OthersStay(s) ==
  \A r \in Sessions \ {s} :
    pc'[r] = pc[r] /\ req'[r] = req[r] /\ start'[r] = start[r] /\ buf'[r] = buf[r]

LEMMA InitInv == Init => IInv
<1> SUFFICES ASSUME Init PROVE IInv
  OBVIOUS
<1>1. Store!TypeOK
  <2>1. NoRow \in Row
    BY DEF NoRow, Row, Statuses
  <2> QED
    BY <2>1, SameRows DEF Init, Store!Init, Store!TypeOK
<1>2. DOMAIN Nothing = {}
  BY DEF Nothing
<1>3. TypeOK /\ DOMAIN buf = Sessions
  BY <1>1, <1>2 DEF Init, SessionsInit, TypeOK, Labels
<1>4. ASSUME NEW s \in Sessions
      PROVE  SessionInv(s)
  BY <1>2, CallsDiffer
     DEF Init, Store!Init, SessionsInit, SessionInv, PlaceInv, CreateInv, ClaimInv, FinishInv
<1>5. ASSUME NEW s \in Sessions, NEW r \in Sessions
      PROVE  PairInv(s, r)
  BY <1>2, CallsDiffer DEF Init, SessionsInit, PairInv, CreatesApart
<1> QED
  BY <1>3, <1>4, <1>5 DEF IInv

\* While the committed state stays, a session that stays keeps its invariant.
LEMMA StayingSession ==
  ASSUME NEW r \in Sessions, SessionInv(r), UNCHANGED <<jobs, revokedAt, now>>,
         pc'[r] = pc[r], req'[r] = req[r], start'[r] = start[r], buf'[r] = buf[r]
  PROVE  SessionInv(r)'
BY DEF SessionInv, PlaceInv, CreateInv, ClaimInv, FinishInv, SweptBy, LeasedBy,
       KeyTaken, Store!ActiveSince

LEMMA SessionStep ==
  ASSUME IInv, NEW s \in Sessions, OthersStay(s), UNCHANGED committed,
         TypeOK', DOMAIN buf' = Sessions, SessionInv(s)',
         \A r \in Sessions \ {s} : PairInv(s, r)'
  PROVE  IInv'
<1>1. ASSUME NEW r \in Sessions \ {s}
      PROVE  SessionInv(r)'
  BY StayingSession DEF IInv, OthersStay, committed
<1>2. ASSUME NEW q \in Sessions, NEW r \in Sessions, q # r
      PROVE  PairInv(q, r)'
  <2>1. CASE q = s
    BY <1>2, <2>1
  <2>2. CASE r = s
    BY <1>2, <2>2 DEF PairInv, CreatesApart
  <2>3. CASE q # s /\ r # s
    BY <1>2, <2>3 DEF IInv, OthersStay, PairInv, CreatesApart
  <2> QED
    BY <2>1, <2>2, <2>3
<1> QED
  BY <1>1, <1>2 DEF IInv

\* A statement that writes nothing only moves its session on.
LEMMA MoveStep ==
  ASSUME IInv, NEW s \in Sessions, NEW l \in Labels, Goto(s, l),
         UNCHANGED <<committed, req, start, buf>>,
         todo' \in [Sessions -> SUBSET JobIds], queue' \in [JobIds -> Seq(Sessions)],
         SessionInv(s)'
  PROVE  IInv'
<1>1. OthersStay(s)
  BY DEF IInv, TypeOK, Goto, OthersStay
<1>2. TypeOK' /\ DOMAIN buf' = Sessions
  BY DEF IInv, TypeOK, Goto, committed, Store!TypeOK
<1>3. \A r \in Sessions \ {s} : PairInv(s, r)'
  BY DEF IInv, PairInv, CreatesApart
<1> QED
  BY <1>1, <1>2, <1>3, SessionStep DEF committed

LEMMA RollBackStep ==
  ASSUME IInv, NEW s \in Sessions, RollBack(s)
  PROVE  IInv'
<1>1. End(s) /\ UNCHANGED committed
  BY DEF RollBack
<1>2. TypeOK' /\ DOMAIN buf' = Sessions
  BY <1>1, EndType DEF IInv, TypeOK, committed, Store!TypeOK
<1>3. OthersStay(s) /\ pc'[s] = "idle" /\ req'[s] = NoCall /\ start'[s] = 0 /\ DOMAIN buf'[s] = {}
  BY <1>1, EndType DEF IInv, OthersStay
<1>4. now' \in Nat
  BY <1>2 DEF TypeOK, Store!TypeOK
<1>5. SessionInv(s)'
  BY <1>3, <1>4, CallsDiffer DEF SessionInv, PlaceInv, CreateInv, ClaimInv, FinishInv
<1>6. \A r \in Sessions \ {s} : PairInv(s, r)'
  BY <1>3, CallsDiffer DEF PairInv, CreatesApart
<1> QED
  BY <1>1, <1>2, <1>3, <1>5, <1>6, SessionStep

LEMMA BeginStep ==
  ASSUME IInv, NEW s \in Sessions, NEW call, NEW label, Begin(s, call, label),
         \/ /\ call \in CreateCall /\ label = "device"
            /\ jobs[call.job].status = "absent"
            /\ \A r \in Sessions : req[r].op = "create" => req[r].job # call.job
         \/ call \in ClaimCall /\ label = "sweep"
         \/ call \in FinishCall /\ label = "match"
  PROVE  IInv'
<1>1. /\ pc[s] = "idle" /\ pc' = [pc EXCEPT ![s] = label]
      /\ req' = [req EXCEPT ![s] = call] /\ start' = [start EXCEPT ![s] = now]
      /\ UNCHANGED <<committed, todo, buf, queue>>
  BY DEF Begin, Goto
<1>2. call \in Calls /\ label \in Labels /\ now \in Nat
  BY DEF Calls, Labels, IInv, TypeOK, Store!TypeOK
<1>3. /\ pc'[s] = label /\ req'[s] = call /\ start'[s] = now
      /\ buf'[s] = buf[s] /\ DOMAIN buf[s] = {}
      /\ OthersStay(s)
  BY <1>1 DEF IInv, TypeOK, OthersStay, SessionInv, PlaceInv
<1>4. TypeOK' /\ DOMAIN buf' = Sessions
  BY <1>1, <1>2 DEF IInv, TypeOK, committed, Store!TypeOK
<1>5. PlaceInv(s)'
  BY <1>1, <1>2, <1>3 DEF PlaceInv, committed
<1>6. CreateInv(s)' /\ ClaimInv(s)' /\ FinishInv(s)'
  BY <1>1, <1>3, CallsDiffer DEF CreateInv, ClaimInv, FinishInv, committed
<1>7. ASSUME NEW r \in Sessions \ {s}
      PROVE  PairInv(s, r)'
  BY <1>1, <1>3, CallsDiffer DEF PairInv, CreatesApart, OthersStay, CreateCall
<1> QED
  BY <1>1, <1>3, <1>4, <1>5, <1>6, <1>7, SessionStep DEF SessionInv

(* create *)

LEMMA ShareDeviceStep ==
  ASSUME IInv, NEW s \in Sessions, ShareDevice(s)
  PROVE  IInv'
<1>1. CASE RollBack(s)
  BY <1>1, RollBackStep
<1>2. CASE /\ OrgOf[req[s].dev] = req[s].org /\ revokedAt[req[s].dev] = None
           /\ Goto(s, "insert") /\ UNCHANGED <<committed, req, start, todo, buf, queue>>
  <2>1. pc[s] = "device" /\ pc'[s] = "insert" /\ req[s] \in CreateCall /\ DOMAIN buf[s] = {}
    BY <1>2 DEF ShareDevice, Goto, IInv, TypeOK, SessionInv, PlaceInv
  <2>2. SessionInv(s)'
    BY <1>2, <2>1, CallsDiffer
       DEF IInv, SessionInv, PlaceInv, CreateInv, ClaimInv, FinishInv, committed
  <2> QED
    BY <1>2, <2>2, MoveStep DEF Labels, IInv, TypeOK
<1> QED
  BY <1>1, <1>2 DEF ShareDevice

LEMMA InsertStep ==
  ASSUME IInv, NEW s \in Sessions, Insert(s)
  PROVE  IInv'
<1> DEFINE c == req[s]
<1>1. pc[s] = "insert" /\ c \in CreateCall /\ DOMAIN buf[s] = {} /\ start[s] \in Nat
  BY DEF Insert, IInv, TypeOK, SessionInv, PlaceInv
<1>2. UNCHANGED <<committed, req, start, todo, queue>>
  BY DEF Insert
<1>3. CASE KeyTaken(jobs, c.org, c.dev, c.key)
  <2>1. Goto(s, "replay") /\ UNCHANGED buf
    BY <1>3 DEF Insert
  <2>2. pc'[s] = "replay"
    BY <2>1 DEF Goto, IInv, TypeOK
  <2>3. SessionInv(s)'
    BY <1>1, <1>2, <1>3, <2>1, <2>2, CallsDiffer
       DEF IInv, SessionInv, PlaceInv, CreateInv, ClaimInv, FinishInv, KeyTaken, committed
  <2> QED
    BY <1>2, <2>1, <2>3, MoveStep DEF Labels, IInv, TypeOK
<1>4. CASE ~ KeyTaken(jobs, c.org, c.dev, c.key)
  <2> DEFINE row == NewRow(c.org, c.dev, c.key, c.ttl, start[s])
  <2>1. ~ KeyInFlight(s, c.org, c.dev, c.key) /\ Write(s, c.job, row) /\ Goto(s, "audit")
    BY <1>4 DEF Insert
  <2>2. c.job \in JobIds /\ row \in Row
    BY <1>1, NewRowType DEF CreateCall
  <2>3. /\ DOMAIN buf'[s] = {c.job} /\ buf'[s][c.job] = row
        /\ \A r \in Sessions \ {s} : buf'[r] = buf[r]
        /\ TypeOK' /\ DOMAIN buf' = Sessions
    <3> HIDE DEF row
    <3>1. /\ DOMAIN buf'[s] = {c.job} /\ buf'[s][c.job] = row
          /\ \A r \in Sessions \ {s} : buf'[r] = buf[r]
          /\ DOMAIN buf' = Sessions
          /\ \A r \in Sessions : /\ DOMAIN buf'[r] \subseteq JobIds
                                 /\ \A i \in DOMAIN buf'[r] : buf'[r][i] \in Row
      BY <1>1, <2>1, <2>2, WriteType DEF IInv
    <3> QED
      BY <1>2, <2>1, <3>1 DEF IInv, TypeOK, Goto, Labels, committed, Store!TypeOK
  <2>4. OthersStay(s) /\ pc'[s] = "audit"
    BY <1>2, <2>1, <2>3 DEF Goto, IInv, TypeOK, OthersStay
  <2>5. SessionInv(s)'
    BY <1>1, <1>2, <1>4, <2>3, <2>4, CallsDiffer
       DEF IInv, SessionInv, PlaceInv, CreateInv, ClaimInv, FinishInv, KeyTaken, committed, Calls
  <2>6. ASSUME NEW r \in Sessions \ {s}
        PROVE  PairInv(s, r)'
    <3>1. jobs[c.job].status = "absent"
      BY <1>1 DEF IInv, SessionInv, CreateInv
    <3>2. c.job \notin DOMAIN buf[r]
      <4>1. CASE req[r] \in CreateCall
        BY <1>1, <4>1 DEF IInv, PairInv, CreatesApart, SessionInv, CreateInv
      <4>2. CASE req[r] \in ClaimCall
        BY <3>1, <4>2 DEF IInv, SessionInv, ClaimInv, SweptBy, LeasedBy, LeaseExpired, Claimable
      <4>3. CASE req[r] \in FinishCall
        BY <3>1, <4>3, CallsDiffer DEF IInv, SessionInv, PlaceInv, FinishInv, Finishable
      <4>4. CASE req[r] = NoCall
        BY <4>4, CallsDiffer DEF IInv, TypeOK, SessionInv, PlaceInv, Labels, Calls
      <4> QED
        BY <4>1, <4>2, <4>3, <4>4 DEF IInv, TypeOK, Calls
    <3>3. ASSUME req[r] \in CreateCall, DOMAIN buf[r] # {}, req[r].dev = c.dev
          PROVE  req[r].key # c.key
      <4>1. /\ buf[r][req[r].job].org = req[r].org
            /\ buf[r][req[r].job].dev = req[r].dev
            /\ buf[r][req[r].job].key = req[r].key
            /\ req[r].job \in DOMAIN buf[r]
            /\ OrgOf[req[r].dev] = req[r].org
        <5>1. pc[r] # "device"
          BY <3>3 DEF IInv, SessionInv, PlaceInv
        <5>2. /\ OrgOf[req[r].dev] = req[r].org /\ DOMAIN buf[r] = {req[r].job}
              /\ buf[r][req[r].job] =
                   NewRow(req[r].org, req[r].dev, req[r].key, req[r].ttl, start[r])
          BY <3>3, <5>1 DEF IInv, SessionInv, CreateInv
        <5> QED
          BY <5>2 DEF NewRow
      <4>2. OrgOf[c.dev] = c.org
        BY <1>1 DEF IInv, SessionInv, CreateInv
      <4> QED
        BY <2>1, <3>3, <4>1, <4>2 DEF KeyInFlight
    <3> QED
      BY <1>2, <2>3, <2>4, <3>2, <3>3 DEF IInv, PairInv, CreatesApart, OthersStay
  <2> QED
    BY <1>2, <2>3, <2>4, <2>5, <2>6, SessionStep
<1> QED
  BY <1>3, <1>4

LEMMA ReplayStep ==
  ASSUME IInv, NEW s \in Sessions, Replay(s)
  PROVE  IInv'
<1>1. CASE RollBack(s)
  BY <1>1, RollBackStep
<1>2. CASE Goto(s, "commit") /\ UNCHANGED <<committed, req, start, todo, buf, queue>>
  <2>1. pc[s] = "replay" /\ pc'[s] = "commit" /\ req[s] \in CreateCall /\ DOMAIN buf[s] = {}
    BY <1>2 DEF Replay, Goto, IInv, TypeOK, SessionInv, PlaceInv
  <2>2. SessionInv(s)'
    BY <1>2, <2>1, CallsDiffer
       DEF IInv, SessionInv, PlaceInv, CreateInv, ClaimInv, FinishInv, committed, Calls
  <2> QED
    BY <1>2, <2>2, MoveStep DEF Labels, IInv, TypeOK
<1> QED
  BY <1>1, <1>2 DEF Replay

(* claim_for_device and _finish_for_device *)

\* A version of a row that no other session has locked is written.
LEMMA WriteStep ==
  ASSUME IInv, NEW s \in Sessions, NEW j \in JobIds, NEW row \in Row, Write(s, j, row),
         ~ LockedByOther(s, j), req[s] \notin CreateCall,
         NEW l \in Labels, pc' = [pc EXCEPT ![s] = l],
         UNCHANGED <<committed, req, start>>,
         todo' \in [Sessions -> SUBSET JobIds], queue' \in [JobIds -> Seq(Sessions)],
         SessionInv(s)'
  PROVE  IInv'
<1>1. /\ DOMAIN buf' = Sessions
      /\ \A r \in Sessions : /\ DOMAIN buf'[r] \subseteq JobIds
                             /\ \A i \in DOMAIN buf'[r] : buf'[r][i] \in Row
      /\ \A r \in Sessions \ {s} : buf'[r] = buf[r]
      /\ DOMAIN buf'[s] = DOMAIN buf[s] \cup {j}
  BY WriteType DEF IInv
<1>2. TypeOK'
  BY <1>1 DEF IInv, TypeOK, committed, Store!TypeOK
<1>3. OthersStay(s)
  BY <1>1 DEF IInv, TypeOK, OthersStay
<1>4. ASSUME NEW r \in Sessions \ {s}
      PROVE  PairInv(s, r)'
  BY <1>1 DEF IInv, PairInv, CreatesApart, LockedByOther
<1> QED
  BY <1>1, <1>2, <1>3, <1>4, SessionStep DEF committed

LEMMA SweepSnapshotStep ==
  ASSUME IInv, NEW s \in Sessions, SweepSnapshot(s)
  PROVE  IInv'
<1> DEFINE found == {j \in JobIds : LeaseExpired(jobs[j], req[s].dev, start[s])}
           label == IF found = {} THEN "pick" ELSE "rows"
<1>1. /\ pc[s] = "sweep" /\ Goto(s, label) /\ todo' = [todo EXCEPT ![s] = found]
      /\ UNCHANGED <<committed, req, start, buf, queue>>
  BY DEF SweepSnapshot
<1>2. label \in {"pick", "rows"} /\ found \subseteq JobIds
  OBVIOUS
<1> HIDE DEF found, label
<1>3. pc'[s] \in {"pick", "rows"} /\ req[s] \in ClaimCall /\ DOMAIN buf[s] = {}
  BY <1>1, <1>2 DEF Goto, IInv, TypeOK, SessionInv, PlaceInv
<1>4. SessionInv(s)'
  BY <1>1, <1>3, CallsDiffer
     DEF IInv, SessionInv, PlaceInv, CreateInv, ClaimInv, FinishInv, committed
<1>5. label \in Labels /\ todo' \in [Sessions -> SUBSET JobIds]
  BY <1>1, <1>2 DEF IInv, TypeOK, Labels
<1> QED
  BY <1>1, <1>4, <1>5, MoveStep DEF IInv, TypeOK

LEMMA SweepRowStep ==
  ASSUME IInv, NEW s \in Sessions, NEW j \in JobIds, SweepRow(s, j)
  PROVE  IInv'
<1>1. /\ pc[s] = "rows" /\ req[s] \in ClaimCall /\ jobs[j] \in Row
      /\ \A i \in DOMAIN buf[s] : SweptBy(s, i)
  BY SameRows DEF SweepRow, IInv, TypeOK, Store!TypeOK, SessionInv, PlaceInv, ClaimInv
<1>2. /\ ~ LockedByOther(s, j)
      /\ todo' \in [Sessions -> SUBSET JobIds]
      /\ UNCHANGED <<committed, req, start>>
  BY DEF SweepRow, Granted, IInv, TypeOK
<1>3. queue' \in [JobIds -> Seq(Sessions)]
  BY LeaveQueueType DEF SweepRow, IInv
<1>4. PICK l \in {"rows", "pick"} : Goto(s, l)
  <2>1. pc = [pc EXCEPT ![s] = "rows"]
    BY <1>1 DEF IInv, TypeOK
  <2> QED
    BY <2>1 DEF SweepRow, Goto
<1>5. pc'[s] = l
  BY <1>4 DEF Goto, IInv, TypeOK
<1>6. ASSUME \A i \in DOMAIN buf'[s] : SweptBy(s, i)'
      PROVE  SessionInv(s)'
  BY <1>1, <1>2, <1>5, <1>6, CallsDiffer
     DEF IInv, SessionInv, PlaceInv, CreateInv, ClaimInv, FinishInv, committed
<1>7. CASE LeaseExpired(jobs[j], req[s].dev, start[s])
  <2>1. Write(s, j, Released(jobs[j])) /\ Released(jobs[j]) \in Row
    BY <1>1, <1>7, ReleasedType DEF SweepRow
  <2>2. /\ DOMAIN buf'[s] = DOMAIN buf[s] \cup {j}
        /\ buf'[s][j] = Released(jobs[j])
        /\ \A i \in DOMAIN buf[s] \ {j} : buf'[s][i] = buf[s][i]
    BY <2>1, WriteType DEF IInv
  <2>3. \A i \in DOMAIN buf'[s] : SweptBy(s, i)'
    BY <1>1, <1>2, <1>7, <2>2 DEF SweptBy, committed
  <2> QED
    BY <1>1, <1>2, <1>3, <1>4, <1>6, <2>1, <2>3, CallsDiffer, WriteStep DEF Goto, Labels
<1>8. CASE ~ LeaseExpired(jobs[j], req[s].dev, start[s])
  <2>1. UNCHANGED buf
    BY <1>8 DEF SweepRow
  <2>2. \A i \in DOMAIN buf'[s] : SweptBy(s, i)'
    BY <1>1, <1>2, <2>1 DEF SweptBy, committed
  <2> QED
    BY <1>2, <1>3, <1>4, <1>6, <2>1, <2>2, MoveStep DEF Labels
<1> QED
  BY <1>7, <1>8

LEMMA PickNoneStep ==
  ASSUME IInv, NEW s \in Sessions, PickNone(s)
  PROVE  IInv'
<1>1. /\ pc[s] = "pick" /\ Goto(s, "commit")
      /\ UNCHANGED <<committed, req, start, todo, buf, queue>>
  BY DEF PickNone
<1>2. pc'[s] = "commit" /\ req[s] \in ClaimCall
  BY <1>1 DEF Goto, IInv, TypeOK, SessionInv, PlaceInv
<1>3. \A i \in DOMAIN buf[s] : SweptBy(s, i)
  BY <1>1, <1>2 DEF IInv, SessionInv, ClaimInv
<1>4. \A i \in DOMAIN buf'[s] : SweptBy(s, i)'
  BY <1>1, <1>3 DEF SweptBy, committed
<1>5. SessionInv(s)'
  BY <1>1, <1>2, <1>4, CallsDiffer
     DEF IInv, SessionInv, PlaceInv, CreateInv, ClaimInv, FinishInv, committed, Calls
<1> QED
  BY <1>1, <1>5, MoveStep DEF Labels, IInv, TypeOK

LEMMA PickStep ==
  ASSUME IInv, NEW s \in Sessions, NEW j \in JobIds, Pick(s, j)
  PROVE  IInv'
<1> DEFINE d == req[s].dev
           row == Leased(View(s, j), start[s])
<1>1. /\ pc[s] = "pick" /\ Write(s, j, row) /\ Goto(s, "audit")
      /\ UNCHANGED <<committed, req, start, todo, queue>>
      /\ j \in Candidates(s)
  BY DEF Pick, Oldest
<1>2. /\ revokedAt[d] = None /\ Claimable(View(s, j), d, start[s]) /\ ~ LockedByOther(s, j)
  BY <1>1 DEF Candidates
<1>3. pc'[s] = "audit" /\ req[s] \in ClaimCall /\ start[s] \in Nat /\ jobs[j] \in Row
  BY <1>1, SameRows DEF Goto, IInv, TypeOK, Store!TypeOK, SessionInv, PlaceInv
<1>4. \A i \in DOMAIN buf[s] : SweptBy(s, i)
  BY <1>1, <1>3 DEF IInv, SessionInv, ClaimInv
<1>5. View(s, j) \in Row
  BY <1>3, ReleasedType, <1>4 DEF View, SweptBy
<1>6. row \in Row
  BY <1>3, <1>5, LeasedType
<1>7. /\ DOMAIN buf'[s] = DOMAIN buf[s] \cup {j}
      /\ buf'[s][j] = row
      /\ \A i \in DOMAIN buf[s] \ {j} : buf'[s][i] = buf[s][i]
  <2> HIDE DEF row
  <2> QED
    BY <1>1, <1>6, WriteType DEF IInv
<1>8. LeasedBy(s, j)'
  <2>1. CASE j \in DOMAIN buf[s]
    BY <1>1, <1>2, <1>4, <1>7, <2>1 DEF View, SweptBy, LeasedBy, committed
  <2>2. CASE j \notin DOMAIN buf[s]
    BY <1>1, <1>2, <1>7, <2>2 DEF View, LeasedBy, committed
  <2> QED
    BY <2>1, <2>2
<1>9. \A i \in DOMAIN buf'[s] \ {j} : SweptBy(s, i)'
  BY <1>1, <1>4, <1>7 DEF SweptBy, committed
<1>10. Store!ActiveSince(d, start[s])'
  BY <1>1, <1>2 DEF Store!ActiveSince, committed
<1>11. ClaimInv(s)'
  BY <1>1, <1>3, <1>7, <1>8, <1>9, <1>10 DEF ClaimInv
<1>12. SessionInv(s)'
  BY <1>1, <1>3, <1>11, CallsDiffer
     DEF IInv, SessionInv, PlaceInv, CreateInv, FinishInv, committed, Calls
<1> HIDE DEF row
<1> QED
  BY <1>1, <1>2, <1>3, <1>6, <1>12, CallsDiffer, WriteStep DEF Goto, Labels, IInv, TypeOK

LEMMA MatchStep ==
  ASSUME IInv, NEW s \in Sessions, Match(s)
  PROVE  IInv'
<1>1. CASE RollBack(s)
  BY <1>1, RollBackStep
<1>2. CASE /\ revokedAt[req[s].dev] = None
           /\ Goto(s, "lock") /\ UNCHANGED <<committed, req, start, todo, buf, queue>>
  <2>1. pc[s] = "match" /\ pc'[s] = "lock" /\ req[s] \in FinishCall /\ DOMAIN buf[s] = {}
    BY <1>2 DEF Match, Goto, IInv, TypeOK, SessionInv, PlaceInv
  <2>2. Store!ActiveSince(req[s].dev, start[s])'
    BY <1>2 DEF Store!ActiveSince, committed
  <2>3. SessionInv(s)'
    BY <1>2, <2>1, <2>2, CallsDiffer
       DEF IInv, SessionInv, PlaceInv, CreateInv, ClaimInv, FinishInv, committed
  <2> QED
    BY <1>2, <2>3, MoveStep DEF Labels, IInv, TypeOK
<1> QED
  BY <1>1, <1>2 DEF Match

LEMMA LockAndFinishStep ==
  ASSUME IInv, NEW s \in Sessions, LockAndFinish(s)
  PROVE  IInv'
<1> DEFINE c == req[s]
           row == Finished(jobs[c.job], c.outcome, start[s])
<1>1. CASE RollBack(s)
  BY <1>1, RollBackStep
<1>2. CASE /\ Finishable(jobs[c.job], c.dev)
           /\ Write(s, c.job, row) /\ Goto(s, "audit") /\ LeaveQueue(s)
           /\ UNCHANGED <<committed, req, start, todo>>
  <2>1. /\ pc[s] = "lock" /\ pc'[s] = "audit" /\ c \in FinishCall /\ DOMAIN buf[s] = {}
        /\ start[s] \in Nat
    BY <1>2 DEF LockAndFinish, Goto, IInv, TypeOK, SessionInv, PlaceInv
  <2>2. c.job \in JobIds /\ c.outcome \in Outcomes /\ jobs[c.job] \in Row
    BY <2>1, SameRows DEF FinishCall, IInv, TypeOK, Store!TypeOK
  <2>3. row \in Row
    BY <2>1, <2>2, FinishedType
  <2>4. DOMAIN buf'[s] = {c.job} /\ buf'[s][c.job] = row
    <3> HIDE DEF row
    <3> QED
      BY <1>2, <2>1, <2>2, <2>3, WriteType DEF IInv
  <2>5. Store!ActiveSince(c.dev, start[s])'
    BY <1>2, <2>1 DEF IInv, SessionInv, FinishInv, Store!ActiveSince, committed
  <2>6. FinishInv(s)'
    BY <1>2, <2>1, <2>4, <2>5 DEF FinishInv, committed
  <2>7. SessionInv(s)'
    BY <1>2, <2>1, <2>6, CallsDiffer
       DEF IInv, SessionInv, PlaceInv, CreateInv, ClaimInv, committed, Calls
  <2>8. queue' \in [JobIds -> Seq(Sessions)] /\ ~ LockedByOther(s, c.job)
    BY <1>2, <2>1, LeaveQueueType DEF IInv, LockAndFinish, Granted
  <2> HIDE DEF row
  <2> QED
    BY <1>2, <2>1, <2>2, <2>3, <2>7, <2>8, CallsDiffer, WriteStep
       DEF Goto, Labels, IInv, TypeOK
<1> QED
  BY <1>1, <1>2 DEF LockAndFinish

LEMMA WaitStep ==
  ASSUME IInv, NEW s \in Sessions, NEW j \in JobIds, Wait(s, j)
  PROVE  IInv'
<1>1. queue' = [queue EXCEPT ![j] = Append(@, s)] /\ UNCHANGED <<committed, pc, req, start, todo, buf>>
  BY DEF Wait
<1>2. queue' \in [JobIds -> Seq(Sessions)]
  BY <1>1 DEF IInv, TypeOK
<1>3. TypeOK' /\ DOMAIN buf' = Sessions
  BY <1>1, <1>2 DEF IInv, TypeOK, committed, Store!TypeOK
<1>4. \A r \in Sessions : SessionInv(r)'
  BY <1>1, StayingSession DEF IInv, committed
<1> QED
  BY <1>1, <1>3, <1>4 DEF IInv, PairInv, CreatesApart

LEMMA TakeAuditLockStep ==
  ASSUME IInv, NEW s \in Sessions, TakeAuditLock(s)
  PROVE  IInv'
<1>1. /\ pc[s] = "audit" /\ Goto(s, "commit")
      /\ UNCHANGED <<committed, req, start, todo, buf, queue>>
  BY DEF TakeAuditLock
<1>2. pc'[s] = "commit" /\ req[s] \in Calls
  BY <1>1 DEF Goto, IInv, TypeOK, SessionInv, PlaceInv
<1>3. PlaceInv(s)' /\ CreateInv(s)' /\ FinishInv(s)'
  BY <1>1, <1>2
     DEF IInv, SessionInv, PlaceInv, CreateInv, FinishInv, committed, KeyTaken, Store!ActiveSince
<1>4. ClaimInv(s)'
  BY <1>1, <1>2 DEF IInv, SessionInv, ClaimInv, SweptBy, LeasedBy, committed, Store!ActiveSince
<1> QED
  BY <1>1, <1>3, <1>4, MoveStep DEF SessionInv, Labels, IInv, TypeOK

-----------------------------------------------------------------------------
(* The commit. *)

LEMMA CommitRows ==
  ASSUME IInv, NEW s \in Sessions, Commit(s), NEW j \in JobIds
  PROVE  /\ jobs'[j] \in Row
         /\ j \notin DOMAIN buf[s] => jobs'[j] = jobs[j]
         /\ j \in DOMAIN buf[s] => jobs'[j] = buf[s][j] /\ jobs'[j].status # "absent"
         /\ j \in DOMAIN buf[s] /\ req[s] \notin CreateCall =>
              /\ jobs[j].status # "absent"
              /\ jobs'[j].org = jobs[j].org
              /\ jobs'[j].dev = jobs[j].dev
              /\ jobs'[j].key = jobs[j].key
         /\ j \in DOMAIN buf[s] /\ req[s] \in CreateCall =>
              /\ j = req[s].job
              /\ jobs[j].status = "absent"
              /\ jobs'[j].org = req[s].org
              /\ jobs'[j].dev = req[s].dev
              /\ jobs'[j].key = req[s].key
<1>1. /\ pc[s] = "commit" /\ req[s] \in Calls /\ start[s] \in Nat
      /\ jobs'[j] = View(s, j) /\ jobs[j] \in Row
  BY SameRows DEF Commit, IInv, TypeOK, Store!TypeOK, SessionInv, PlaceInv
<1>2. CASE j \notin DOMAIN buf[s]
  BY <1>1, <1>2 DEF View
<1>3. CASE j \in DOMAIN buf[s] /\ req[s] \in CreateCall
  <2>1. /\ j = req[s].job /\ jobs[j].status = "absent" /\ jobs'[j] = buf[s][j]
        /\ buf[s][j] = NewRow(req[s].org, req[s].dev, req[s].key, req[s].ttl, start[s])
    BY <1>1, <1>3 DEF View, IInv, SessionInv, CreateInv
  <2>2. jobs'[j] \in Row
    BY <1>1, <1>3, <2>1 DEF IInv, TypeOK
  <2> QED
    BY <1>3, <2>1, <2>2 DEF NewRow
<1>4. CASE j \in DOMAIN buf[s] /\ req[s] \in ClaimCall
  <2>1. jobs'[j] = buf[s][j]
    BY <1>1, <1>4 DEF View
  <2>2. SweptBy(s, j) \/ LeasedBy(s, j)
    BY <1>1, <1>4 DEF IInv, SessionInv, ClaimInv
  <2>3. CASE SweptBy(s, j)
    BY <1>1, <1>4, <2>1, <2>3, ReleasedType, CallsDiffer DEF SweptBy, LeaseExpired
  <2>4. CASE LeasedBy(s, j)
    <3>1. PICK row \in {jobs[j], Released(jobs[j])} : buf[s][j] = Leased(row, start[s])
      BY <2>4 DEF LeasedBy
    <3>2. jobs[j].status # "absent"
      BY <2>4 DEF LeasedBy, Claimable, LeaseExpired
    <3>3. row \in Row /\ row.org = jobs[j].org /\ row.dev = jobs[j].dev /\ row.key = jobs[j].key
      BY <1>1, <3>1, ReleasedType
    <3> QED
      BY <1>1, <1>4, <2>1, <3>1, <3>2, <3>3, LeasedType, CallsDiffer
  <2> QED
    BY <2>2, <2>3, <2>4
<1>5. CASE j \in DOMAIN buf[s] /\ req[s] \in FinishCall
  <2>1. /\ jobs'[j] = Finished(jobs[j], req[s].outcome, start[s]) /\ jobs'[j] = buf[s][j]
        /\ jobs[j].status = "claimed" /\ req[s].outcome \in Outcomes
    BY <1>1, <1>5 DEF View, IInv, SessionInv, FinishInv, Finishable, FinishCall
  <2> DEFINE row == Finished(jobs[j], req[s].outcome, start[s])
  <2>2. /\ row \in Row
        /\ row.status = req[s].outcome
        /\ row.org = jobs[j].org /\ row.dev = jobs[j].dev /\ row.key = jobs[j].key
    <3>1. req[s].outcome \in Outcomes
      BY <2>1
    <3> QED
      BY <1>1, <3>1, FinishedType
  <2> HIDE DEF row
  <2>3. jobs'[j] = row
    BY <2>1 DEF row
  <2> QED
    BY <1>5, <2>1, <2>2, <2>3, CallsDiffer DEF Outcomes
<1> QED
  BY <1>1, <1>2, <1>3, <1>4, <1>5 DEF Calls

\* Keys stay taken, and only the committed create's is taken anew.
LEMMA CommitKeys ==
  ASSUME IInv, NEW s \in Sessions, Commit(s), NEW o, NEW d, NEW k
  PROVE  /\ KeyTaken(jobs, o, d, k) => KeyTaken(jobs', o, d, k)
         /\ KeyTaken(jobs', o, d, k) =>
              \/ KeyTaken(jobs, o, d, k)
              \/ /\ req[s] \in CreateCall /\ DOMAIN buf[s] # {}
                 /\ d = req[s].dev /\ k = req[s].key
<1>1. ASSUME NEW j \in JobIds, jobs[j].status # "absent", jobs[j].org = o, jobs[j].dev = d,
             jobs[j].key = k
      PROVE  KeyTaken(jobs', o, d, k)
  BY <1>1, CommitRows DEF KeyTaken
<1>2. ASSUME NEW j \in JobIds, jobs'[j].status # "absent", jobs'[j].org = o,
             jobs'[j].dev = d, jobs'[j].key = k
      PROVE  \/ KeyTaken(jobs, o, d, k)
             \/ /\ req[s] \in CreateCall /\ DOMAIN buf[s] # {}
                /\ d = req[s].dev /\ k = req[s].key
  <2>1. CASE j \in DOMAIN buf[s] /\ req[s] \in CreateCall
    BY <1>2, <2>1, CommitRows
  <2>2. CASE ~ (j \in DOMAIN buf[s] /\ req[s] \in CreateCall)
    BY <1>2, <2>2, CommitRows DEF KeyTaken
  <2> QED
    BY <2>1, <2>2
<1> QED
  BY <1>1, <1>2 DEF KeyTaken

LEMMA CommitType ==
  ASSUME IInv, NEW s \in Sessions, Commit(s)
  PROVE  TypeOK' /\ DOMAIN buf' = Sessions
<1>1. jobs' \in [JobIds -> Row]
  <2>1. jobs' = [j \in JobIds |-> View(s, j)]
    BY DEF Commit
  <2>2. \A j \in JobIds : jobs'[j] \in Row
    BY CommitRows
  <2> QED
    BY <2>1, <2>2
<1>2. audit' \in [JobIds -> [Store!AuditActions -> Nat]]
  <2>1. EventOf(s) \in Store!AuditActions
    <3>1. req[s] \in Calls
      BY DEF Commit, IInv, SessionInv, PlaceInv
    <3> QED
      BY <3>1, SameRows
         DEF EventOf, Store!AuditActions, Calls, CreateCall, ClaimCall, FinishCall
  <2>2. audit \in [JobIds -> [Store!AuditActions -> Nat]]
    BY DEF IInv, TypeOK, Store!TypeOK
  <2>3. audit' = [j \in JobIds |-> IF j \in AuditedRows(s)
                                   THEN [audit[j] EXCEPT ![EventOf(s)] = @ + 1]
                                   ELSE audit[j]]
    BY DEF Commit
  <2> HIDE DEF EventOf
  <2> QED
    BY <2>1, <2>2, <2>3
<1>3. UNCHANGED <<revokedAt, now>> /\ End(s)
  BY DEF Commit
<1> QED
  BY <1>1, <1>2, <1>3, EndType, SameRows DEF IInv, TypeOK, Store!TypeOK

LEMMA CommitStep ==
  ASSUME IInv, NEW s \in Sessions, Commit(s)
  PROVE  IInv'
<1>1. UNCHANGED <<revokedAt, now>>
  BY DEF Commit
<1>2. /\ pc'[s] = "idle" /\ req'[s] = NoCall /\ start'[s] = 0 /\ DOMAIN buf'[s] = {}
      /\ OthersStay(s)
  BY EndType DEF Commit, IInv, OthersStay
<1>3. SessionInv(s)'
  <2>1. now' \in Nat
    BY CommitType DEF TypeOK, Store!TypeOK
  <2> QED
    BY <1>2, <2>1, CallsDiffer DEF SessionInv, PlaceInv, CreateInv, ClaimInv, FinishInv
<1>4. ASSUME NEW r \in Sessions \ {s}
      PROVE  SessionInv(r)'
  <2>1. /\ SessionInv(r) /\ PairInv(s, r)
        /\ pc'[r] = pc[r] /\ req'[r] = req[r] /\ start'[r] = start[r] /\ buf'[r] = buf[r]
    BY <1>2, <1>4 DEF IInv, OthersStay
  <2>2. \A j \in DOMAIN buf[r] : jobs'[j] = jobs[j]
    BY <2>1, CommitRows DEF PairInv, IInv, TypeOK
  <2>3. PlaceInv(r)'
    BY <1>1, <2>1 DEF SessionInv, PlaceInv
  <2>4. ASSUME req[r] \in CreateCall
        PROVE  CreateInv(r)'
    <3> DEFINE c == req[r]
    <3>1. c.job \in JobIds /\ jobs[c.job].status = "absent"
      BY <2>1, <2>4 DEF SessionInv, CreateInv, CreateCall
    <3>2. c.job \notin DOMAIN buf[s]
      BY <2>1, <2>4, <3>1, CommitRows DEF PairInv, CreatesApart
    <3>3. jobs'[c.job].status = "absent"
      BY <3>1, <3>2, CommitRows
    <3>4. KeyTaken(jobs, c.org, c.dev, c.key) => KeyTaken(jobs', c.org, c.dev, c.key)
      BY CommitKeys
    <3>5. ASSUME DOMAIN buf[r] # {}
          PROVE  ~ KeyTaken(jobs', c.org, c.dev, c.key)
      BY <2>1, <2>4, <3>5, CommitKeys DEF SessionInv, CreateInv, PairInv, CreatesApart
    <3> QED
      BY <1>1, <2>1, <2>4, <3>3, <3>4, <3>5 DEF SessionInv, CreateInv
  <2>5. ClaimInv(r)'
    BY <1>1, <2>1, <2>2 DEF SessionInv, ClaimInv, SweptBy, LeasedBy, Store!ActiveSince
  <2>6. FinishInv(r)'
    BY <1>1, <2>1, <2>2 DEF SessionInv, FinishInv, Store!ActiveSince
  <2> QED
    BY <2>1, <2>3, <2>4, <2>5, <2>6 DEF SessionInv, CreateInv
<1>5. ASSUME NEW q \in Sessions, NEW r \in Sessions, q # r
      PROVE  PairInv(q, r)'
  <2>1. CASE q = s \/ r = s
    BY <1>2, <2>1, CallsDiffer DEF PairInv, CreatesApart
  <2>2. CASE q # s /\ r # s
    BY <1>2, <1>5, <2>2 DEF IInv, OthersStay, PairInv, CreatesApart
  <2> QED
    BY <2>1, <2>2
<1> QED
  BY <1>3, <1>4, <1>5, CommitType DEF IInv

-----------------------------------------------------------------------------
(* The invariant. *)

\* The share lock of a create keeps its device active until the create has
\* ended; the transactions of other calls began before the revocation.
LEMMA RevokeStep ==
  ASSUME IInv, NEW d \in Devices, Revoke(d)
  PROVE  IInv'
<1>1. /\ revokedAt[d] = None /\ ~ DeviceShared(d)
      /\ revokedAt' = [revokedAt EXCEPT ![d] = now]
      /\ UNCHANGED <<jobs, audit, now, pc, req, start, todo, buf, queue>>
  BY DEF Revoke, session
<1>2. TypeOK' /\ DOMAIN buf' = Sessions
  BY <1>1 DEF IInv, TypeOK, Store!TypeOK
<1>3. ASSUME NEW s \in Sessions
      PROVE  SessionInv(s)'
  <2>1. start[s] \in Nat /\ now \in Nat /\ start[s] <= now
    BY DEF IInv, TypeOK, Store!TypeOK, SessionInv, PlaceInv
  <2>2. PlaceInv(s)'
    BY <1>1 DEF IInv, SessionInv, PlaceInv
  <2>3. CreateInv(s)'
    <3>1. ASSUME req[s] \in CreateCall, pc[s] # "device"
          PROVE  req[s].dev # d
      <4>1. pc[s] \in {"insert", "replay", "audit", "commit"}
        BY <3>1, CallsDiffer DEF IInv, TypeOK, Labels, SessionInv, PlaceInv
      <4> QED
        BY <1>1, <3>1, <4>1 DEF DeviceShared, CreateCall
    <3> QED
      BY <1>1, <3>1 DEF IInv, TypeOK, Store!TypeOK, SessionInv, CreateInv, KeyTaken
  <2>4. ASSUME NEW e, Store!ActiveSince(e, start[s])
        PROVE  Store!ActiveSince(e, start[s])'
    BY <1>1, <2>1, <2>4 DEF Store!ActiveSince, IInv, TypeOK, Store!TypeOK
  <2>5. ClaimInv(s)'
    BY <1>1, <2>4 DEF IInv, SessionInv, ClaimInv, SweptBy, LeasedBy
  <2>6. FinishInv(s)'
    BY <1>1, <2>4 DEF IInv, SessionInv, FinishInv
  <2> QED
    BY <2>2, <2>3, <2>5, <2>6 DEF SessionInv
<1> QED
  BY <1>1, <1>2, <1>3 DEF IInv, PairInv, CreatesApart

LEMMA TickStep ==
  ASSUME IInv, Tick
  PROVE  IInv'
<1>1. /\ now' = now + 1
      /\ UNCHANGED <<jobs, revokedAt, audit, pc, req, start, todo, buf, queue>>
  BY DEF Tick, session
<1>2. TypeOK' /\ DOMAIN buf' = Sessions
  BY <1>1 DEF IInv, TypeOK, Store!TypeOK
<1>3. ASSUME NEW s \in Sessions
      PROVE  SessionInv(s)'
  <2>1. PlaceInv(s)'
    BY <1>1 DEF IInv, TypeOK, Store!TypeOK, SessionInv, PlaceInv
  <2>2. CreateInv(s)' /\ ClaimInv(s)' /\ FinishInv(s)'
    BY <1>1 DEF IInv, SessionInv, CreateInv, ClaimInv, FinishInv, SweptBy, LeasedBy,
                KeyTaken, Store!ActiveSince
  <2> QED
    BY <2>1, <2>2 DEF SessionInv
<1> QED
  BY <1>1, <1>2, <1>3 DEF IInv, PairInv, CreatesApart

LEMMA NextInv == IInv /\ [Next]_vars => IInv'
<1> SUFFICES ASSUME IInv, [Next]_vars PROVE IInv'
  OBVIOUS
<1>1. ASSUME NEW s \in Sessions, NEW call \in CreateCall, BeginCreate(s, call)
      PROVE  IInv'
  BY <1>1, BeginStep DEF BeginCreate
<1>2. ASSUME NEW s \in Sessions, NEW call \in ClaimCall, BeginClaim(s, call)
      PROVE  IInv'
  BY <1>2, BeginStep DEF BeginClaim
<1>3. ASSUME NEW s \in Sessions, NEW call \in FinishCall, BeginFinish(s, call)
      PROVE  IInv'
  BY <1>3, BeginStep DEF BeginFinish
<1>4. ASSUME NEW s \in Sessions, Execute(s)
      PROVE  IInv'
  BY <1>4, ShareDeviceStep, InsertStep, ReplayStep, SweepSnapshotStep, SweepRowStep,
     PickNoneStep, PickStep, MatchStep, LockAndFinishStep, WaitStep, TakeAuditLockStep,
     CommitStep
     DEF Execute
<1>5. ASSUME NEW s \in Sessions, DeadlockVictim(s) \/ Disconnect(s)
      PROVE  IInv'
  BY <1>5, RollBackStep DEF DeadlockVictim, Disconnect
<1>6. CASE UNCHANGED vars
  <2>1. UNCHANGED <<jobs, revokedAt, audit, now, pc, req, start, todo, buf, queue>>
    BY <1>6 DEF vars, session
  <2>2. \A s \in Sessions : SessionInv(s)'
    BY <2>1, StayingSession DEF IInv
  <2> QED
    BY <2>1, <2>2 DEF IInv, TypeOK, Store!TypeOK, PairInv, CreatesApart
<1> QED
  BY <1>1, <1>2, <1>3, <1>4, <1>5, <1>6, RevokeStep, TickStep DEF Next, Serve

LEMMA InvariantHolds == Spec => []IInv
<1> QED
  BY InitInv, NextInv, PTL DEF Spec

\* Every session's statement, call, found rows and uncommitted versions, the
\* queues of every row and the committed tables keep their types.
THEOREM TypeCorrect == Spec => []TypeOK
<1>1. IInv => TypeOK
  BY DEF IInv
<1> QED
  BY <1>1, InvariantHolds, PTL

\* No two sessions ever hold versions of the same row, so no commit overwrites
\* what another transaction wrote (the row locks of create, claim_for_device and
\* _finish_for_device).
THEOREM UpdatesAreNotLost == Spec => []NoLostUpdate
<1>1. IInv => NoLostUpdate
  BY DEF IInv, PairInv, NoLostUpdate
<1> QED
  BY <1>1, InvariantHolds, PTL

\* A create whose insert ran into its idempotency key always finds the job it
\* ran into: the error job_create_failed of create cannot be raised.
THEOREM ReplaysFindTheirJob == Spec => []ReplayFindsJob
<1>1. IInv => ReplayFindsJob
  BY DEF IInv, SessionInv, PlaceInv, CreateInv, ReplayFindsJob
<1> QED
  BY <1>1, InvariantHolds, PTL

-----------------------------------------------------------------------------
(* Every commit is one step of JobStore and nothing else is seen of a call. *)

LEMMA AuditedOnce ==
  ASSUME IInv, NEW s \in Sessions, Commit(s), NEW j \in JobIds, NEW action,
         AuditedRows(s) = {j}, EventOf(s) = action
  PROVE  Store!Audited(j, action)
<1>1. audit' = [i \in JobIds |-> IF i = j THEN [audit[i] EXCEPT ![action] = @ + 1]
                                          ELSE audit[i]]
  BY DEF Commit
<1>2. DOMAIN audit = JobIds /\ audit = [i \in JobIds |-> audit[i]]
  BY DEF IInv, TypeOK, Store!TypeOK
<1>3. audit' = [audit EXCEPT ![j] = [audit[j] EXCEPT ![action] = @ + 1]]
  BY <1>1, <1>2
<1> QED
  BY <1>3 DEF Store!Audited

LEMMA NothingAudited ==
  ASSUME IInv, NEW s \in Sessions, Commit(s), AuditedRows(s) = {}
  PROVE  audit' = audit
<1>1. audit' = [i \in JobIds |-> audit[i]]
  BY DEF Commit
<1> QED
  BY <1>1 DEF IInv, TypeOK, Store!TypeOK

\* The committed rows after s has written those of buf[s].
LEMMA CommittedRows ==
  ASSUME IInv, NEW s \in Sessions, Commit(s)
  PROVE  /\ jobs \in [JobIds -> Row] /\ DOMAIN buf[s] \subseteq JobIds
         /\ jobs' = [j \in JobIds |-> IF j \in DOMAIN buf[s] THEN buf[s][j] ELSE jobs[j]]
BY SameRows DEF Commit, View, IInv, TypeOK, Store!TypeOK

LEMMA CommitCreate ==
  ASSUME IInv, NEW s \in Sessions, Commit(s), req[s] \in CreateCall
  PROVE  [Store!Next]_(Store!vars)
<1> DEFINE c == req[s]
<1>1. UNCHANGED <<revokedAt, now>> /\ pc[s] = "commit"
  BY DEF Commit
<1>2. CASE DOMAIN buf[s] = {}
  <2>1. audit' = audit
    BY <1>2, NothingAudited DEF AuditedRows
  <2>2. jobs' = jobs
    BY <1>2, CommittedRows
  <2> QED
    BY <1>1, <2>1, <2>2 DEF Store!vars
<1>3. CASE DOMAIN buf[s] # {}
  <2>1. /\ DOMAIN buf[s] = {c.job}
        /\ buf[s][c.job] = NewRow(c.org, c.dev, c.key, c.ttl, start[s])
        /\ ~ KeyTaken(jobs, c.org, c.dev, c.key)
        /\ jobs[c.job].status = "absent"
        /\ OrgOf[c.dev] = c.org /\ revokedAt[c.dev] = None
    BY <1>1, <1>3 DEF IInv, SessionInv, CreateInv
  <2>2. /\ c.org \in Orgs /\ c.dev \in Devices /\ c.key \in Keys /\ c.ttl \in TTLs
        /\ c.job \in JobIds /\ c.op = "create"
    BY DEF CreateCall
  <2>3. start[s] \in 0 .. now
    BY DEF IInv, TypeOK, Store!TypeOK, SessionInv, PlaceInv
  <2>4. Store!Audited(c.job, "created")
    <3>1. AuditedRows(s) = {c.job} /\ EventOf(s) = "created"
      BY <2>1, <2>2 DEF AuditedRows, EventOf
    <3> QED
      BY <2>2, <3>1, AuditedOnce
  <2>5. jobs' = [jobs EXCEPT ![c.job] = NewRow(c.org, c.dev, c.key, c.ttl, start[s])]
    BY <2>1, <2>2, CommittedRows
  <2>6. Store!Create(c.org, c.dev, c.key, c.ttl, start[s], c.job)
    <3>1. /\ Store!NewRow(c.org, c.dev, c.key, c.ttl, start[s])
               = NewRow(c.org, c.dev, c.key, c.ttl, start[s])
          /\ Store!KeyTaken(jobs, c.org, c.dev, c.key) <=> KeyTaken(jobs, c.org, c.dev, c.key)
      BY SameStatements
    <3> QED
      BY <1>1, <2>1, <2>4, <2>5, <3>1 DEF Store!Create
  <2> QED
    BY <2>2, <2>3, <2>6 DEF Store!Next
<1> QED
  BY <1>2, <1>3

LEMMA CommitClaim ==
  ASSUME IInv, NEW s \in Sessions, Commit(s), req[s] \in ClaimCall
  PROVE  Store!Next
<1> DEFINE d == req[s].dev
           t == start[s]
           Expired == {j \in JobIds : Store!LeaseExpired(jobs[j], d, t)}
<1>1. UNCHANGED <<revokedAt, now>> /\ pc[s] = "commit" /\ req[s].op = "claim" /\ d \in Devices
  BY DEF Commit, ClaimCall
<1>2. t \in 0 .. now
  BY DEF IInv, TypeOK, Store!TypeOK, SessionInv, PlaceInv
<1>3. /\ jobs \in [JobIds -> Row] /\ DOMAIN buf[s] \subseteq JobIds
      /\ jobs' = [j \in JobIds |-> IF j \in DOMAIN buf[s] THEN buf[s][j] ELSE jobs[j]]
  BY CommittedRows
<1>4. ASSUME NEW i \in DOMAIN buf[s], SweptBy(s, i)
      PROVE  /\ i \in Expired /\ buf[s][i] = Store!Released(jobs[i])
             /\ buf[s][i].status = "pending"
  BY <1>3, <1>4, SameStatements, ReleasedType DEF SweptBy
<1>5. CASE \A j \in DOMAIN buf[s] : SweptBy(s, j)
  <2>1. AuditedRows(s) = {}
    BY <1>1, <1>4, <1>5 DEF AuditedRows
  <2>2. audit' = audit
    BY <2>1, NothingAudited
  <2>3. DOMAIN buf[s] \in SUBSET Expired
    BY <1>4, <1>5
  <2>4. jobs' = Store!Swept(DOMAIN buf[s])
    BY <1>3, <1>4, <1>5 DEF Store!Swept
  <2>5. Store!ClaimNothing(d, t)
    BY <1>1, <2>2, <2>3, <2>4 DEF Store!ClaimNothing
  <2> QED
    BY <1>1, <1>2, <2>5 DEF Store!Next
<1>6. CASE /\ Store!ActiveSince(d, t)
           /\ \E j \in DOMAIN buf[s] :
                LeasedBy(s, j) /\ \A i \in DOMAIN buf[s] \ {j} : SweptBy(s, i)
  <2>1. PICK j \in DOMAIN buf[s] :
          LeasedBy(s, j) /\ \A i \in DOMAIN buf[s] \ {j} : SweptBy(s, i)
    BY <1>6
  <2>2. PICK R \in {DOMAIN buf[s], DOMAIN buf[s] \ {j}} :
          /\ R \in SUBSET Expired
          /\ Claimable(Store!Swept(R)[j], d, t)
          /\ buf[s][j] = Leased(Store!Swept(R)[j], t)
    <3>1. CASE Claimable(jobs[j], d, t) /\ buf[s][j] = Leased(jobs[j], t)
      <4>1. Store!Swept(DOMAIN buf[s] \ {j})[j] = jobs[j]
        BY <1>3, <2>1 DEF Store!Swept
      <4> QED
        BY <1>4, <2>1, <3>1, <4>1
    <3>2. CASE /\ LeaseExpired(jobs[j], d, t)
               /\ Claimable(Released(jobs[j]), d, t)
               /\ buf[s][j] = Leased(Released(jobs[j]), t)
      <4>1. Store!Swept(DOMAIN buf[s])[j] = Released(jobs[j])
        BY <1>3, <2>1, SameStatements DEF Store!Swept
      <4>2. j \in Expired
        BY <1>3, <3>2, SameStatements
      <4> QED
        BY <1>4, <2>1, <3>2, <4>1, <4>2
    <3> QED
      BY <2>1, <3>1, <3>2 DEF LeasedBy
  <2>3. jobs' = [Store!Swept(R) EXCEPT ![j] = Leased(@, t)]
    <3>1. ASSUME NEW i \in JobIds \ {j}
          PROVE  jobs'[i] = Store!Swept(R)[i]
      BY <1>3, <1>4, <2>1, <2>2, <3>1 DEF Store!Swept
    <3>2. jobs'[j] = Leased(Store!Swept(R)[j], t)
      BY <1>3, <2>1, <2>2
    <3>3. Store!Swept(R) = [i \in JobIds |-> Store!Swept(R)[i]]
      BY DEF Store!Swept
    <3> QED
      BY <1>3, <2>1, <3>1, <3>2, <3>3
  <2>4. AuditedRows(s) = {j}
    <3>1. buf[s][j].status = "claimed"
      BY <2>2 DEF Leased, Claimable
    <3> QED
      BY <1>1, <1>4, <2>1, <3>1 DEF AuditedRows
  <2>5. Store!Audited(j, "claimed")
    BY <1>1, <1>3, <2>4, AuditedOnce DEF EventOf
  <2>6. Store!ClaimJob(d, t, j)
    BY <1>1, <1>6, <2>2, <2>3, <2>5, SameStatements DEF Store!ClaimJob
  <2> QED
    BY <1>1, <1>2, <1>3, <2>6 DEF Store!Next
<1> QED
  BY <1>5, <1>6 DEF IInv, SessionInv, ClaimInv

LEMMA CommitFinish ==
  ASSUME IInv, NEW s \in Sessions, Commit(s), req[s] \in FinishCall
  PROVE  Store!Next
<1> DEFINE c == req[s]
           t == start[s]
<1>1. UNCHANGED <<revokedAt, now>> /\ pc[s] = "commit"
  BY DEF Commit
<1>2. c.dev \in Devices /\ c.job \in JobIds /\ c.outcome \in Outcomes /\ c.op = "finish"
  BY DEF FinishCall
<1>3. t \in 0 .. now
  BY DEF IInv, TypeOK, Store!TypeOK, SessionInv, PlaceInv
<1>4. /\ DOMAIN buf[s] = {c.job}
      /\ Finishable(jobs[c.job], c.dev)
      /\ buf[s][c.job] = Finished(jobs[c.job], c.outcome, t)
      /\ Store!ActiveSince(c.dev, t)
  BY <1>1 DEF IInv, SessionInv, FinishInv
<1>5. Store!Audited(c.job, c.outcome)
  <2>1. AuditedRows(s) = {c.job} /\ EventOf(s) = c.outcome
    BY <1>2, <1>4 DEF AuditedRows, EventOf
  <2> QED
    BY <1>2, <2>1, AuditedOnce
<1>6. jobs' = [jobs EXCEPT ![c.job] = Finished(@, c.outcome, t)]
  BY <1>2, <1>4, CommittedRows
<1>7. Store!Finish(c.dev, c.job, c.outcome, t)
  BY <1>1, <1>4, <1>5, <1>6, SameStatements DEF Store!Finish, Finishable
<1> QED
  BY <1>2, <1>3, <1>7, SameRows DEF Store!Next

LEMMA StoreStep == IInv /\ [Next]_vars => [Store!Next]_(Store!vars)
<1> SUFFICES ASSUME IInv, [Next]_vars PROVE [Store!Next]_(Store!vars)
  OBVIOUS
<1>1. ASSUME NEW s \in Sessions, Commit(s)
      PROVE  [Store!Next]_(Store!vars)
  <2>1. req[s] \in Calls
    BY <1>1 DEF Commit, IInv, SessionInv, PlaceInv
  <2> QED
    BY <1>1, <2>1, CommitCreate, CommitClaim, CommitFinish DEF Calls
<1>2. ASSUME NEW s \in Sessions, Execute(s), ~ Commit(s)
      PROVE  UNCHANGED committed
  BY <1>2 DEF Execute, ShareDevice, Insert, Replay, SweepSnapshot, SweepRow, PickNone, Pick,
              Match, LockAndFinish, Wait, TakeAuditLock, RollBack
<1>3. ASSUME NEW s \in Sessions,
             \/ \E call \in CreateCall : BeginCreate(s, call)
             \/ \E call \in ClaimCall : BeginClaim(s, call)
             \/ \E call \in FinishCall : BeginFinish(s, call)
             \/ DeadlockVictim(s)
             \/ Disconnect(s)
      PROVE  UNCHANGED committed
  BY <1>3 DEF BeginCreate, BeginClaim, BeginFinish, Begin, DeadlockVictim, Disconnect, RollBack
<1>4. ASSUME NEW d \in Devices, Revoke(d)
      PROVE  Store!Next
  <2>1. Store!Revoke(d)
    BY <1>4 DEF Revoke, Store!Revoke
  <2> QED
    BY <2>1 DEF Store!Next
<1>5. CASE Tick
  BY <1>5 DEF Tick, Store!Tick, Store!Next
<1>6. CASE UNCHANGED vars
  BY <1>6 DEF vars, Store!vars
<1>7. UNCHANGED committed => UNCHANGED Store!vars
  BY DEF committed, Store!vars
<1> QED
  BY <1>1, <1>2, <1>3, <1>4, <1>5, <1>6, <1>7 DEF Next, Serve

\* The statements and locks of PostgresJobRepository make every call one atomic
\* step on the jobs, the audit trail and the devices, taken at its commit.
THEOREM CallsAreAtomic == Spec => ImplementsJobStore
<1>1. Init => Store!Init
  BY DEF Init
<1>2. IInv /\ [Next]_vars => [Store!Next]_(Store!vars)
  BY StoreStep
<1> QED
  BY <1>1, <1>2, InvariantHolds, PTL DEF Spec, ImplementsJobStore, Store!Spec

-----------------------------------------------------------------------------
(* What is proved of JobStore holds of the statements. *)

Proved == INSTANCE JobStoreProofs

LEMMA SameSpecification == Store!Spec => Proved!Spec
<1>1. Store!Init => Proved!Init
  BY DEF Store!Init, Proved!Init, Store!NoRow, Proved!NoRow, Store!AuditActions,
         Proved!AuditActions, Store!Outcomes, Proved!Outcomes
<1>2. Store!Next => Proved!Next
  BY DEF Store!Next, Proved!Next, Store!Create, Proved!Create, Store!ClaimNothing,
         Proved!ClaimNothing, Store!ClaimJob, Proved!ClaimJob, Store!Finish, Proved!Finish,
         Store!Revoke, Proved!Revoke, Store!Tick, Proved!Tick, Store!Swept, Proved!Swept,
         Store!Audited, Proved!Audited, Store!ActiveSince, Proved!ActiveSince,
         Store!Claimable, Proved!Claimable, Store!Released, Proved!Released,
         Store!Leased, Proved!Leased, Store!Finished, Proved!Finished,
         Store!LeaseExpired, Proved!LeaseExpired, Store!NewRow, Proved!NewRow,
         Store!KeyTaken, Proved!KeyTaken, Store!Outcomes, Proved!Outcomes
<1>3. UNCHANGED Store!vars => UNCHANGED Proved!vars
  BY DEF Store!vars, Proved!vars
<1>4. [Store!Next]_(Store!vars) => [Proved!Next]_(Proved!vars)
  BY <1>2, <1>3
<1> QED
  BY <1>1, <1>4, PTL DEF Store!Spec, Proved!Spec

LEMMA SameInvariants ==
  /\ Proved!AttemptsBounded => Store!AttemptsBounded
  /\ Proved!AuditAccountsForJobs => Store!AuditAccountsForJobs
  /\ Proved!OneJobPerKey => Store!OneJobPerKey
  /\ Proved!ReleasedLeaseIsOver => Store!ReleasedLeaseIsOver
BY DEF Proved!AttemptsBounded, Store!AttemptsBounded, Proved!AuditAccountsForJobs,
       Store!AuditAccountsForJobs, Proved!OneJobPerKey, Store!OneJobPerKey,
       Proved!ReleasedLeaseIsOver, Store!ReleasedLeaseIsOver, Store!Outcomes, Proved!Outcomes

\* However the statements of concurrent calls interleave, the committed table keeps
\* the attempt limit, one job for each idempotency key, an audit trail that accounts
\* for every row, and leases that are over in real time when they are released.
THEOREM InterleavingsKeepInvariants ==
  Spec => [](/\ Store!AttemptsBounded
             /\ Store!AuditAccountsForJobs
             /\ Store!OneJobPerKey
             /\ Store!ReleasedLeaseIsOver)
<1>1. Spec => Proved!Spec
  BY CallsAreAtomic, SameSpecification, PTL DEF ImplementsJobStore
<1>2. /\ Proved!Spec => []Proved!AttemptsBounded
      /\ Proved!Spec => []Proved!AuditAccountsForJobs
      /\ Proved!Spec => []Proved!OneJobPerKey
      /\ Proved!Spec => []Proved!ReleasedLeaseIsOver
  BY Proved!AttemptsStayBounded, Proved!AuditTrailIsExact, Proved!KeysStayUnique,
     Proved!ReleasedOnlyWhenOver, ConstantsAssumption, PTL
<1> QED
  BY <1>1, <1>2, SameInvariants, PTL

\* However the statements of concurrent calls interleave, an outcome is final and
\* two leases of a job never overlap in real time.
THEOREM InterleavingsKeepSteps ==
  Spec => Store!OutcomeIsFinal /\ Store!LeasesDoNotOverlap
<1>1. Spec => Proved!Spec
  BY CallsAreAtomic, SameSpecification, PTL DEF ImplementsJobStore
<1>2. Proved!OutcomeIsFinal => Store!OutcomeIsFinal
  <2>1. Proved!Outcomes = Store!Outcomes
    BY DEF Proved!Outcomes, Store!Outcomes
  <2>2. [\A j \in JobIds : jobs[j].status \in Proved!Outcomes => jobs'[j] = jobs[j]]_(Proved!vars)
          => [\A j \in JobIds : jobs[j].status \in Store!Outcomes => jobs'[j] = jobs[j]]_(Store!vars)
    BY <2>1 DEF Proved!vars, Store!vars
  <2> QED
    BY <2>2, PTL DEF Proved!OutcomeIsFinal, Store!OutcomeIsFinal
<1>3. Proved!LeasesDoNotOverlap => Store!LeasesDoNotOverlap
  BY PTL DEF Proved!LeasesDoNotOverlap, Store!LeasesDoNotOverlap, Proved!vars, Store!vars
<1>4. /\ Proved!Spec => Proved!OutcomeIsFinal
      /\ Proved!Spec => Proved!LeasesDoNotOverlap
  BY Proved!OutcomesStay, Proved!LeasesStayApart, ConstantsAssumption, PTL
<1> QED
  BY <1>1, <1>2, <1>3, <1>4, PTL
=============================================================================
