------------------------ MODULE DeviceTransactionsProofs ------------------------
(***************************************************************************)
(* The statements and locks of DeviceRepository and InventoryRepository    *)
(* make every call one atomic step, for every value of the constants:      *)
(* DeviceTransactions implements DeviceRegistry.                           *)
(***************************************************************************)
EXTENDS DeviceTransactions, TLAPS

-----------------------------------------------------------------------------
(* The inductive invariant. *)

\* Where a session is says which call it executes.  A heartbeat was close to the
\* clock when it came in, and the clock only goes on.
PlaceInv(s) ==
  /\ start[s] <= now
  /\ pc[s] = "idle" => req[s] = NoCall
  /\ pc[s] \in {"token", "insert", "mark"} => req[s] \in EnrollCall
  /\ pc[s] \in {"match", "row"} => req[s] \in BeatCall
  /\ pc[s] \in {"select", "find", "delete", "replace", "audit"} => req[s] \in SubmitCall
  /\ pc[s] = "commit" => req[s] \in EnrollCall \cup BeatCall \cup SubmitCall
  /\ req[s] \in BeatCall => req[s].observed <= now + Skew
  /\ pc[s] \notin {"delete", "replace", "audit", "commit"} => found[s] = {}

\* From its lock on an enroll's token stays valid, from its insert on the serial
\* number stays free; nobody else has its device id.
EnrollInv(s) ==
  LET c == req[s] IN
  c \in EnrollCall =>
    /\ ~ devices[c.dev].enrolled
    /\ pc[s] # "token" => Registry!ValidToken(c.token, start[s])
    /\ pc[s] \in {"mark", "commit"} => ~ Registry!SerialTaken(c.serial)

\* A heartbeat past its match has an enrolled device, and once it holds the row
\* the device cannot be revoked.
BeatInv(s) ==
  LET c == req[s] IN
  c \in BeatCall =>
    /\ pc[s] # "match" => devices[c.dev].enrolled
    /\ pc[s] = "commit" => devices[c.dev].revoked = None

\* What a submit deletes are committed snapshots of its device, and once it has
\* inserted its own no other one has the same hash.
SubmitInv(s) ==
  LET c == req[s] IN
  c \in SubmitCall =>
    /\ pc[s] # "select" => devices[c.dev].enrolled
    /\ found[s] \subseteq Registry!Of(c.dev)
    /\ pc[s] \in {"audit", "commit"} =>
         [dev |-> c.dev, hash |-> c.hash] \notin snapshots \ found[s]

SessionInv(s) == PlaceInv(s) /\ EnrollInv(s) /\ BeatInv(s) /\ SubmitInv(s)

\* Enrolls in progress differ in what they take, submits in what they insert.
EnrollsApart(s, r) ==
  req[s] \in EnrollCall /\ req[r] \in EnrollCall =>
    /\ req[s].dev # req[r].dev
    /\ pc[s] # "token" /\ pc[r] # "token" => req[s].token # req[r].token
    /\ pc[s] \in {"mark", "commit"} /\ pc[r] \in {"mark", "commit"} /\ req[s].serial # None
         => req[s].serial # req[r].serial

SubmitsApart(s, r) ==
  /\ req[s] \in SubmitCall /\ pc[s] \in {"audit", "commit"}
  /\ req[r] \in SubmitCall /\ pc[r] \in {"audit", "commit"}
  => ~ (req[s].dev = req[r].dev /\ req[s].hash = req[r].hash)

PairInv(s, r) == EnrollsApart(s, r) /\ SubmitsApart(s, r)

IInv ==
  /\ TypeOK
  /\ \A s \in Sessions : SessionInv(s)
  /\ \A s, r \in Sessions : s # r => PairInv(s, r)

-----------------------------------------------------------------------------
(* Types. *)

LEMMA CallsDiffer ==
  /\ \A c \in EnrollCall : c \notin BeatCall /\ c \notin SubmitCall /\ c.op = "enroll"
  /\ \A c \in BeatCall : c \notin SubmitCall /\ c.op = "heartbeat"
  /\ \A c \in SubmitCall : c.op = "submit"
  /\ NoCall \notin EnrollCall /\ NoCall \notin BeatCall /\ NoCall \notin SubmitCall
BY DEF EnrollCall, BeatCall, SubmitCall, NoCall

\* DeviceRegistry's rows are those of this module.
LEMMA SameRows ==
  /\ Registry!Token = Token /\ Registry!Device = Device /\ Registry!Snapshot = Snapshot
  /\ Registry!NoDevice = NoDevice
  /\ \A serial, t : Registry!NewDevice(serial, t) = NewDevice(serial, t)
BY DEF Registry!Token, Token, Registry!Device, Device, Registry!Snapshot, Snapshot,
       Registry!NoDevice, NoDevice, Registry!NewDevice, NewDevice

LEMMA RegistryTypes ==
  Registry!TypeOK <=> /\ tokens \in [Tokens -> Token]
                      /\ devices \in [DeviceIds -> Device]
                      /\ snapshots \subseteq Snapshot
                      /\ now \in Nat
BY SameRows DEF Registry!TypeOK

LEMMA InitInv == Init => IInv
<1> SUFFICES ASSUME Init PROVE IInv
  OBVIOUS
<1>1. Registry!TypeOK
  <2>1. NoDevice \in Device /\ [expires |-> 0, usedBy |-> None] \in Token
    BY DEF NoDevice, Device, Token
  <2> QED
    BY <2>1, SameRows, RegistryTypes DEF Init, Registry!Init
<1>2. TypeOK
  BY <1>1 DEF Init, TypeOK, Labels
<1>3. ASSUME NEW s \in Sessions
      PROVE  SessionInv(s)
  BY CallsDiffer DEF Init, Registry!Init, SessionInv, PlaceInv, EnrollInv, BeatInv, SubmitInv
<1>4. ASSUME NEW s \in Sessions, NEW r \in Sessions
      PROVE  PairInv(s, r)
  BY CallsDiffer DEF Init, PairInv, EnrollsApart, SubmitsApart
<1> QED
  BY <1>2, <1>3, <1>4 DEF IInv

-----------------------------------------------------------------------------
(* The steps of one session. *)

\* The other sessions stay where they are.
OthersStay(s) ==
  \A r \in Sessions \ {s} :
    pc'[r] = pc[r] /\ req'[r] = req[r] /\ start'[r] = start[r] /\ found'[r] = found[r]

\* While the committed state stays, a session that stays keeps its invariant.
LEMMA StayingSession ==
  ASSUME NEW r \in Sessions, SessionInv(r), UNCHANGED <<tokens, devices, snapshots, now>>,
         pc'[r] = pc[r], req'[r] = req[r], start'[r] = start[r], found'[r] = found[r]
  PROVE  SessionInv(r)'
BY DEF SessionInv, PlaceInv, EnrollInv, BeatInv, SubmitInv, Registry!ValidToken,
       Registry!SerialTaken, Registry!Of

LEMMA SessionStep ==
  ASSUME IInv, NEW s \in Sessions, OthersStay(s), UNCHANGED committed, TypeOK',
         SessionInv(s)', \A r \in Sessions \ {s} : PairInv(s, r)'
  PROVE  IInv'
<1>1. ASSUME NEW r \in Sessions \ {s}
      PROVE  SessionInv(r)'
  BY StayingSession DEF IInv, OthersStay, committed
<1>2. ASSUME NEW q \in Sessions, NEW r \in Sessions, q # r
      PROVE  PairInv(q, r)'
  <2>1. CASE q = s
    BY <1>2, <2>1
  <2>2. CASE r = s
    BY <1>2, <2>2 DEF PairInv, EnrollsApart, SubmitsApart
  <2>3. CASE q # s /\ r # s
    BY <1>2, <2>3 DEF IInv, OthersStay, PairInv, EnrollsApart, SubmitsApart
  <2> QED
    BY <2>1, <2>2, <2>3
<1> QED
  BY <1>1, <1>2 DEF IInv

\* What a session that goes on to label changes.
LEMMA ProceedStep ==
  ASSUME IInv, NEW s \in Sessions, NEW label \in Labels, Proceed(s, label),
         SessionInv(s)', \A r \in Sessions \ {s} : PairInv(s, r)'
  PROVE  IInv'
<1>1. OthersStay(s) /\ UNCHANGED committed
  BY DEF IInv, TypeOK, Proceed, Goto, OthersStay
<1>2. TypeOK'
  BY DEF IInv, TypeOK, Proceed, Goto, committed, Registry!TypeOK
<1> QED
  BY <1>1, <1>2, SessionStep

\* The places at which a session holds what another one may want.
Holding == {"insert", "mark", "audit", "commit"}

LEMMA QuietProceedStep ==
  ASSUME IInv, NEW s \in Sessions, NEW label \in Labels \ Holding, Proceed(s, label),
         req[s] \notin EnrollCall, SessionInv(s)'
  PROVE  IInv'
<1>1. pc'[s] = label /\ UNCHANGED req
  BY DEF IInv, TypeOK, Proceed, Goto
<1>2. \A r \in Sessions \ {s} : PairInv(s, r)'
  BY <1>1 DEF IInv, PairInv, EnrollsApart, SubmitsApart, Holding
<1> QED
  BY <1>2, ProceedStep

LEMMA RollBackStep ==
  ASSUME IInv, NEW s \in Sessions, RollBack(s)
  PROVE  IInv'
<1>1. /\ UNCHANGED committed /\ OthersStay(s)
      /\ pc'[s] = "idle" /\ req'[s] = NoCall /\ start'[s] = 0 /\ found'[s] = {}
  BY DEF RollBack, End, Goto, IInv, TypeOK, OthersStay
<1>2. TypeOK'
  BY DEF RollBack, End, Goto, IInv, TypeOK, Labels, committed, Registry!TypeOK
<1>3. now' \in Nat
  BY <1>2, RegistryTypes DEF TypeOK, Registry!TypeOK
<1>4. SessionInv(s)'
  BY <1>1, <1>3, CallsDiffer DEF SessionInv, PlaceInv, EnrollInv, BeatInv, SubmitInv
<1>5. \A r \in Sessions \ {s} : PairInv(s, r)'
  BY <1>1, CallsDiffer DEF PairInv, EnrollsApart, SubmitsApart
<1> QED
  BY <1>1, <1>2, <1>4, <1>5, SessionStep

LEMMA BeginStep ==
  ASSUME IInv, NEW s \in Sessions, NEW call, NEW label, Begin(s, call, label),
         \/ /\ call \in EnrollCall /\ label = "token"
            /\ ~ devices[call.dev].enrolled
            /\ \A r \in Sessions : req[r].op = "enroll" => req[r].dev # call.dev
         \/ call \in BeatCall /\ label = "match" /\ Near(call.observed, now)
         \/ call \in SubmitCall /\ label = "select"
  PROVE  IInv'
<1>1. /\ pc[s] = "idle" /\ pc' = [pc EXCEPT ![s] = label]
      /\ req' = [req EXCEPT ![s] = call]
      /\ UNCHANGED <<tokens, devices, snapshots, now, found>>
  BY DEF Begin, Goto, committed
<1>2. now \in Nat /\ label \in Labels /\ call \in EnrollCall \cup BeatCall \cup SubmitCall
  BY RegistryTypes DEF IInv, TypeOK, Labels
<1>3. PICK t \in 0 .. now : start' = [start EXCEPT ![s] = t]
  <2>1. start' = [start EXCEPT ![s] = IF call.op = "enroll" THEN now ELSE 0]
    BY DEF Begin
  <2>2. (IF call.op = "enroll" THEN now ELSE 0) \in 0 .. now
    BY <1>2
  <2> QED
    BY <2>1, <2>2
<1>4. /\ pc'[s] = label /\ req'[s] = call /\ start'[s] = t /\ OthersStay(s)
      /\ UNCHANGED committed
  BY <1>1, <1>3 DEF IInv, TypeOK, OthersStay, committed
<1>5. TypeOK'
  <2>1. t \in Nat
    BY <1>2, <1>3
  <2>2. Registry!TypeOK'
    BY <1>1 DEF IInv, TypeOK, Registry!TypeOK
  <2> QED
    BY <1>1, <1>2, <1>3, <2>1, <2>2 DEF IInv, TypeOK
<1>6. found[s] = {} /\ found'[s] = {}
  BY <1>1 DEF IInv, SessionInv, PlaceInv
<1>7. PlaceInv(s)'
  BY <1>1, <1>2, <1>3, <1>4, <1>6, CallsDiffer DEF PlaceInv, Near
<1>8. EnrollInv(s)' /\ BeatInv(s)' /\ SubmitInv(s)'
  BY <1>1, <1>4, <1>6, CallsDiffer DEF EnrollInv, BeatInv, SubmitInv
<1>9. \A r \in Sessions \ {s} : PairInv(s, r)'
  BY <1>4, CallsDiffer DEF PairInv, EnrollsApart, SubmitsApart, OthersStay
<1> QED
  BY <1>4, <1>5, <1>7, <1>8, <1>9, SessionStep DEF SessionInv

(* enroll *)

LEMMA LockTokenStep ==
  ASSUME IInv, NEW s \in Sessions, LockToken(s)
  PROVE  IInv'
<1>1. CASE RollBack(s)
  BY <1>1, RollBackStep
<1>2. CASE Registry!ValidToken(req[s].token, start[s]) /\ Proceed(s, "insert")
  <2>1. /\ pc[s] = "token" /\ pc'[s] = "insert" /\ req[s] \in EnrollCall
        /\ UNCHANGED <<tokens, devices, snapshots, now, req, start, found>>
        /\ ~ TokenHeld(s, req[s].token)
    BY <1>2 DEF LockToken, Proceed, Goto, committed, IInv, TypeOK, SessionInv, PlaceInv
  <2>2. SessionInv(s)'
    BY <1>2, <2>1, CallsDiffer
       DEF IInv, SessionInv, PlaceInv, EnrollInv, BeatInv, SubmitInv, Registry!ValidToken
  <2>3. ASSUME NEW r \in Sessions \ {s}
        PROVE  PairInv(s, r)'
    <3>1. pc'[r] = pc[r]
      BY <1>2 DEF Proceed, Goto, IInv, TypeOK
    <3>2. ASSUME req[r] \in EnrollCall, pc[r] # "token"
          PROVE  req[r].token # req[s].token
      <4>1. pc[r] \in {"insert", "mark", "commit"}
        BY <3>2, CallsDiffer DEF IInv, TypeOK, Labels, SessionInv, PlaceInv
      <4> QED
        BY <2>1, <3>2, <4>1, CallsDiffer DEF TokenHeld
    <3> QED
      BY <2>1, <3>1, <3>2, CallsDiffer DEF IInv, PairInv, EnrollsApart, SubmitsApart
  <2> QED
    BY <1>2, <2>2, <2>3, ProceedStep DEF Labels
<1> QED
  BY <1>1, <1>2 DEF LockToken

LEMMA InsertDeviceStep ==
  ASSUME IInv, NEW s \in Sessions, InsertDevice(s)
  PROVE  IInv'
<1>1. CASE RollBack(s)
  BY <1>1, RollBackStep
<1>2. CASE ~ Registry!SerialTaken(req[s].serial) /\ Proceed(s, "mark")
  <2>1. /\ pc[s] = "insert" /\ pc'[s] = "mark" /\ req[s] \in EnrollCall
        /\ UNCHANGED <<tokens, devices, snapshots, now, req, start, found>>
        /\ ~ SerialInFlight(s, req[s].serial)
    BY <1>2 DEF InsertDevice, Proceed, Goto, committed, IInv, TypeOK, SessionInv, PlaceInv
  <2>2. SessionInv(s)'
    BY <1>2, <2>1, CallsDiffer
       DEF IInv, SessionInv, PlaceInv, EnrollInv, BeatInv, SubmitInv, Registry!ValidToken,
           Registry!SerialTaken
  <2>3. ASSUME NEW r \in Sessions \ {s}
        PROVE  PairInv(s, r)'
    <3>1. pc'[r] = pc[r]
      BY <1>2 DEF Proceed, Goto, IInv, TypeOK
    <3> QED
      BY <2>1, <3>1, CallsDiffer DEF IInv, PairInv, EnrollsApart, SubmitsApart, SerialInFlight
  <2> QED
    BY <1>2, <2>2, <2>3, ProceedStep DEF Labels
<1> QED
  BY <1>1, <1>2 DEF InsertDevice

LEMMA MarkTokenStep ==
  ASSUME IInv, NEW s \in Sessions, MarkToken(s)
  PROVE  IInv'
<1>1. /\ pc[s] = "mark" /\ pc'[s] = "commit" /\ req[s] \in EnrollCall
      /\ UNCHANGED <<tokens, devices, snapshots, now, req, start, found>>
  BY DEF MarkToken, Proceed, Goto, committed, IInv, TypeOK, SessionInv, PlaceInv
<1>2. SessionInv(s)'
  BY <1>1, CallsDiffer
     DEF IInv, SessionInv, PlaceInv, EnrollInv, BeatInv, SubmitInv, Registry!ValidToken,
         Registry!SerialTaken
<1>3. ASSUME NEW r \in Sessions \ {s}
      PROVE  PairInv(s, r)'
  <2>1. pc'[r] = pc[r]
    BY DEF MarkToken, Proceed, Goto, IInv, TypeOK
  <2> QED
    BY <1>1, <2>1, CallsDiffer DEF IInv, PairInv, EnrollsApart, SubmitsApart
<1> QED
  BY <1>2, <1>3, ProceedStep DEF MarkToken, Labels

(* heartbeat *)

LEMMA MatchStep ==
  ASSUME IInv, NEW s \in Sessions, Match(s)
  PROVE  IInv'
<1>1. CASE RollBack(s)
  BY <1>1, RollBackStep
<1>2. CASE devices[req[s].dev].enrolled /\ Proceed(s, "row")
  <2>1. /\ pc[s] = "match" /\ pc'[s] = "row" /\ req[s] \in BeatCall
        /\ UNCHANGED <<tokens, devices, snapshots, now, req, start, found>>
    BY <1>2 DEF Match, Proceed, Goto, committed, IInv, TypeOK, SessionInv, PlaceInv
  <2>2. SessionInv(s)'
    BY <1>2, <2>1, CallsDiffer
       DEF IInv, SessionInv, PlaceInv, EnrollInv, BeatInv, SubmitInv
  <2> QED
    BY <1>2, <2>1, <2>2, CallsDiffer, QuietProceedStep DEF Labels, Holding
<1> QED
  BY <1>1, <1>2 DEF Match

LEMMA UpdateRowStep ==
  ASSUME IInv, NEW s \in Sessions, UpdateRow(s)
  PROVE  IInv'
<1>1. CASE RollBack(s)
  BY <1>1, RollBackStep
<1>2. CASE devices[req[s].dev].revoked = None /\ Proceed(s, "commit")
  <2>1. /\ pc[s] = "row" /\ pc'[s] = "commit" /\ req[s] \in BeatCall
        /\ UNCHANGED <<tokens, devices, snapshots, now, req, start, found>>
    BY <1>2 DEF UpdateRow, Proceed, Goto, committed, IInv, TypeOK, SessionInv, PlaceInv
  <2>2. SessionInv(s)'
    BY <1>2, <2>1, CallsDiffer
       DEF IInv, SessionInv, PlaceInv, EnrollInv, BeatInv, SubmitInv
  <2>3. \A r \in Sessions \ {s} : PairInv(s, r)'
    BY <2>1, CallsDiffer DEF PairInv, EnrollsApart, SubmitsApart
  <2> QED
    BY <1>2, <2>2, <2>3, ProceedStep DEF Labels
<1> QED
  BY <1>1, <1>2 DEF UpdateRow

(* submit *)

LEMMA SelectDeviceStep ==
  ASSUME IInv, NEW s \in Sessions, SelectDevice(s)
  PROVE  IInv'
<1>1. CASE RollBack(s)
  BY <1>1, RollBackStep
<1>2. CASE devices[req[s].dev].enrolled /\ Proceed(s, "find")
  <2>1. /\ pc[s] = "select" /\ pc'[s] = "find" /\ req[s] \in SubmitCall
        /\ UNCHANGED <<tokens, devices, snapshots, now, req, start, found>>
    BY <1>2 DEF SelectDevice, Proceed, Goto, committed, IInv, TypeOK, SessionInv, PlaceInv
  <2>2. SessionInv(s)'
    BY <1>2, <2>1, CallsDiffer
       DEF IInv, SessionInv, PlaceInv, EnrollInv, BeatInv, SubmitInv, Registry!Of
  <2> QED
    BY <1>2, <2>1, <2>2, CallsDiffer, QuietProceedStep DEF Labels, Holding
<1> QED
  BY <1>1, <1>2 DEF SelectDevice

LEMMA FindSnapshotsStep ==
  ASSUME IInv, NEW s \in Sessions, FindSnapshots(s)
  PROVE  IInv'
<1>1. /\ pc[s] = "find" /\ pc' = [pc EXCEPT ![s] = "delete"]
      /\ found' = [found EXCEPT ![s] = Registry!Of(req[s].dev)]
      /\ UNCHANGED <<tokens, devices, snapshots, now, req, start>>
  BY DEF FindSnapshots, Goto, committed
<1>2. Registry!Of(req[s].dev) \subseteq Snapshot
  BY RegistryTypes DEF IInv, TypeOK, Registry!Of
<1>3. TypeOK' /\ OthersStay(s) /\ UNCHANGED committed
  BY <1>1, <1>2 DEF IInv, TypeOK, OthersStay, Labels, Registry!TypeOK, committed
<1>4. pc'[s] = "delete" /\ found'[s] = Registry!Of(req[s].dev) /\ req[s] \in SubmitCall
  BY <1>1 DEF IInv, TypeOK, SessionInv, PlaceInv
<1>5. SessionInv(s)'
  BY <1>1, <1>4, CallsDiffer
     DEF IInv, SessionInv, PlaceInv, EnrollInv, BeatInv, SubmitInv, Registry!Of
<1>6. \A r \in Sessions \ {s} : PairInv(s, r)'
  BY <1>1, <1>4, CallsDiffer DEF PairInv, EnrollsApart, SubmitsApart
<1> QED
  BY <1>3, <1>5, <1>6, SessionStep

LEMMA DeleteSnapshotsStep ==
  ASSUME IInv, NEW s \in Sessions, DeleteSnapshots(s)
  PROVE  IInv'
<1>1. /\ pc[s] = "delete" /\ pc'[s] = "replace" /\ req[s] \in SubmitCall
      /\ UNCHANGED <<tokens, devices, snapshots, now, req, start, found>>
  BY DEF DeleteSnapshots, Proceed, Goto, committed, IInv, TypeOK, SessionInv, PlaceInv
<1>2. SessionInv(s)'
  BY <1>1, CallsDiffer
     DEF IInv, SessionInv, PlaceInv, EnrollInv, BeatInv, SubmitInv, Registry!Of
<1> QED
  BY <1>1, <1>2, CallsDiffer, QuietProceedStep DEF DeleteSnapshots, Labels, Holding

LEMMA InsertSnapshotStep ==
  ASSUME IInv, NEW s \in Sessions, InsertSnapshot(s)
  PROVE  IInv'
<1> DEFINE row == [dev |-> req[s].dev, hash |-> req[s].hash]
<1>1. CASE RollBack(s)
  BY <1>1, RollBackStep
<1>2. CASE row \notin snapshots \ found[s] /\ Proceed(s, "audit")
  <2>1. /\ pc[s] = "replace" /\ pc'[s] = "audit" /\ req[s] \in SubmitCall
        /\ UNCHANGED <<tokens, devices, snapshots, now, req, start, found>>
        /\ \A r \in Sessions \ {s} : row \notin Inserted(r)
    BY <1>2 DEF InsertSnapshot, Proceed, Goto, committed, IInv, TypeOK, SessionInv, PlaceInv
  <2>2. SessionInv(s)'
    BY <1>2, <2>1, CallsDiffer
       DEF IInv, SessionInv, PlaceInv, EnrollInv, BeatInv, SubmitInv, Registry!Of
  <2>3. ASSUME NEW r \in Sessions \ {s}
        PROVE  PairInv(s, r)'
    <3>1. pc'[r] = pc[r]
      BY <1>2 DEF Proceed, Goto, IInv, TypeOK
    <3>2. ASSUME req[r] \in SubmitCall, pc[r] \in {"audit", "commit"}
          PROVE  ~ (req[r].dev = req[s].dev /\ req[r].hash = req[s].hash)
      BY <2>1, <3>2, CallsDiffer DEF Inserted
    <3> QED
      BY <2>1, <3>1, <3>2, CallsDiffer DEF PairInv, EnrollsApart, SubmitsApart
  <2> QED
    BY <1>2, <2>2, <2>3, ProceedStep DEF Labels
<1> QED
  BY <1>1, <1>2 DEF InsertSnapshot

LEMMA TakeAuditLockStep ==
  ASSUME IInv, NEW s \in Sessions, TakeAuditLock(s)
  PROVE  IInv'
<1>1. /\ pc[s] = "audit" /\ pc'[s] = "commit" /\ req[s] \in SubmitCall
      /\ UNCHANGED <<tokens, devices, snapshots, now, req, start, found>>
  BY DEF TakeAuditLock, Proceed, Goto, committed, IInv, TypeOK, SessionInv, PlaceInv
<1>2. SessionInv(s)'
  BY <1>1, CallsDiffer
     DEF IInv, SessionInv, PlaceInv, EnrollInv, BeatInv, SubmitInv, Registry!Of
<1>3. ASSUME NEW r \in Sessions \ {s}
      PROVE  PairInv(s, r)'
  <2>1. pc'[r] = pc[r]
    BY DEF TakeAuditLock, Proceed, Goto, IInv, TypeOK
  <2> QED
    BY <1>1, <2>1, CallsDiffer DEF IInv, PairInv, EnrollsApart, SubmitsApart
<1> QED
  BY <1>2, <1>3, ProceedStep DEF TakeAuditLock, Labels

-----------------------------------------------------------------------------
(* The commit. *)

LEMMA CommitSessions ==
  ASSUME IInv, NEW s \in Sessions, Commit(s)
  PROVE  /\ pc' \in [Sessions -> Labels] /\ pc'[s] = "idle"
         /\ req' \in [Sessions -> EnrollCall \cup BeatCall \cup SubmitCall \cup {NoCall}]
         /\ req'[s] = NoCall
         /\ start' \in [Sessions -> Nat] /\ start'[s] = 0
         /\ found' \in [Sessions -> SUBSET Snapshot] /\ found'[s] = {}
         /\ \A r \in Sessions \ {s} :
              /\ pc'[r] = pc[r] /\ req'[r] = req[r] /\ start'[r] = start[r]
              /\ found'[r] = found[r] \ Deleted(s)
BY DEF Commit, Goto, IInv, TypeOK, Labels

\* The committed state after each kind of call.
LEMMA CommitEnroll ==
  ASSUME IInv, NEW s \in Sessions, Commit(s), req[s] \in EnrollCall
  PROVE  /\ devices' = [devices EXCEPT ![req[s].dev] = NewDevice(req[s].serial, start[s])]
         /\ tokens' = [tokens EXCEPT ![req[s].token].usedBy = req[s].dev]
         /\ UNCHANGED <<snapshots, now>>
         /\ Deleted(s) = {}
         /\ req[s].dev \in DeviceIds /\ req[s].token \in Tokens
         /\ req[s].serial \in Serials \cup {None} /\ start[s] \in 0 .. now
         /\ Registry!TypeOK'
<1>1. req[s].op = "enroll" /\ pc[s] = "commit"
  BY CallsDiffer DEF Commit
<1>2. /\ devices' = [devices EXCEPT ![req[s].dev] = NewDevice(req[s].serial, start[s])]
      /\ tokens' = [tokens EXCEPT ![req[s].token].usedBy = req[s].dev]
      /\ UNCHANGED <<snapshots, now>>
  BY <1>1 DEF Commit, Apply
<1>3. /\ req[s].dev \in DeviceIds /\ req[s].token \in Tokens
      /\ req[s].serial \in Serials \cup {None}
  BY DEF EnrollCall
<1>4. start[s] \in 0 .. now /\ start[s] \in Nat
  BY RegistryTypes DEF IInv, TypeOK, SessionInv, PlaceInv
<1>5. NewDevice(req[s].serial, start[s]) \in Device
  BY <1>3, <1>4 DEF NewDevice, Device
<1>6. devices' \in [DeviceIds -> Device] /\ tokens' \in [Tokens -> Token]
  BY <1>2, <1>3, <1>5, RegistryTypes DEF IInv, TypeOK, Token
<1>7. Registry!TypeOK'
  BY <1>2, <1>6, RegistryTypes, SameRows DEF IInv, TypeOK, Registry!TypeOK
<1>8. Deleted(s) = {}
  BY <1>1 DEF Deleted
<1> QED
  BY <1>2, <1>3, <1>4, <1>7, <1>8

LEMMA CommitBeat ==
  ASSUME IInv, NEW s \in Sessions, Commit(s), req[s] \in BeatCall
  PROVE  /\ devices' = [devices EXCEPT ![req[s].dev].seen = req[s].observed]
         /\ UNCHANGED <<tokens, snapshots, now>>
         /\ Deleted(s) = {}
         /\ req[s].dev \in DeviceIds /\ req[s].observed \in 0 .. now + Skew
         /\ Registry!TypeOK'
<1>1. req[s].op = "heartbeat" /\ pc[s] = "commit"
  BY CallsDiffer DEF Commit
<1>2. /\ devices' = [devices EXCEPT ![req[s].dev].seen = req[s].observed]
      /\ UNCHANGED <<tokens, snapshots, now>>
  BY <1>1 DEF Commit, Apply
<1>3. req[s].dev \in DeviceIds /\ req[s].observed \in Nat
  BY DEF BeatCall
<1>4. req[s].observed <= now + Skew
  BY DEF IInv, SessionInv, PlaceInv
<1>5. now \in Nat /\ Skew \in Nat
  BY RegistryTypes, ConstantsAssumption DEF IInv, TypeOK
<1>6. req[s].observed \in 0 .. now + Skew
  BY <1>3, <1>4, <1>5
<1>7. devices' \in [DeviceIds -> Device]
  BY <1>2, <1>3, RegistryTypes DEF IInv, TypeOK, Device
<1>8. Registry!TypeOK'
  BY <1>2, <1>7, SameRows DEF IInv, TypeOK, Registry!TypeOK
<1>9. Deleted(s) = {}
  BY <1>1 DEF Deleted
<1> QED
  BY <1>2, <1>3, <1>6, <1>8, <1>9

LEMMA CommitSubmit ==
  ASSUME IInv, NEW s \in Sessions, Commit(s), req[s] \in SubmitCall
  PROVE  /\ snapshots' = (snapshots \ found[s]) \cup {[dev |-> req[s].dev, hash |-> req[s].hash]}
         /\ UNCHANGED <<tokens, devices, now>>
         /\ Deleted(s) = found[s]
         /\ req[s].dev \in DeviceIds /\ req[s].hash \in Hashes
         /\ Registry!TypeOK'
<1>1. req[s].op = "submit" /\ pc[s] = "commit"
  BY CallsDiffer DEF Commit
<1>2. /\ Deleted(s) = found[s]
      /\ Inserted(s) = {[dev |-> req[s].dev, hash |-> req[s].hash]}
  BY <1>1 DEF Deleted, Inserted
<1>3. /\ snapshots' = (snapshots \ found[s]) \cup {[dev |-> req[s].dev, hash |-> req[s].hash]}
      /\ UNCHANGED <<tokens, devices, now>>
  BY <1>1, <1>2 DEF Commit, Apply
<1>4. req[s].dev \in DeviceIds /\ req[s].hash \in Hashes
  BY DEF SubmitCall
<1>5. snapshots' \subseteq Snapshot
  BY <1>3, <1>4, RegistryTypes DEF IInv, TypeOK, Snapshot
<1>6. Registry!TypeOK'
  BY <1>3, <1>5, SameRows DEF IInv, TypeOK, Registry!TypeOK
<1> QED
  BY <1>2, <1>3, <1>4, <1>6

LEMMA CommitKeepsOthers ==
  ASSUME IInv, NEW s \in Sessions, Commit(s), NEW r \in Sessions \ {s}
  PROVE  SessionInv(r)'
<1>1. /\ SessionInv(r) /\ SessionInv(s) /\ PairInv(s, r) /\ PairInv(r, s)
      /\ pc[s] = "commit" /\ req[s] \in EnrollCall \cup BeatCall \cup SubmitCall
  BY DEF Commit, IInv, SessionInv, PlaceInv
<1>2. /\ pc'[r] = pc[r] /\ req'[r] = req[r] /\ start'[r] = start[r]
      /\ found'[r] = found[r] \ Deleted(s)
  BY CommitSessions
<1>3. PlaceInv(r)'
  BY <1>1, <1>2 DEF Commit, SessionInv, PlaceInv
<1>4. CASE req[s] \in EnrollCall
  <2> DEFINE c == req[s]
  <2>1. /\ ~ devices[c.dev].enrolled
        /\ devices'[c.dev] = NewDevice(c.serial, start[s])
        /\ \A d \in DeviceIds \ {c.dev} : devices'[d] = devices[d]
        /\ \A tk \in Tokens \ {c.token} : tokens'[tk] = tokens[tk]
        /\ UNCHANGED snapshots /\ found'[r] = found[r]
    BY <1>1, <1>2, <1>4, CommitEnroll, RegistryTypes
       DEF IInv, TypeOK, SessionInv, EnrollInv
  <2>2. ASSUME req[r] \in EnrollCall
        PROVE  EnrollInv(r)'
    <3>1. req[r].dev \in DeviceIds /\ req[r].dev # c.dev /\ req[r].token \in Tokens
      BY <1>1, <1>4, <2>2 DEF PairInv, EnrollsApart, EnrollCall
    <3>2. ~ devices'[req[r].dev].enrolled
      BY <1>1, <2>1, <2>2, <3>1 DEF SessionInv, EnrollInv
    <3>3. ASSUME pc[r] # "token"
          PROVE  Registry!ValidToken(req[r].token, start[r])'
      <4>1. req[r].token # c.token
        BY <1>1, <1>4, <2>2, <3>3 DEF PairInv, EnrollsApart
      <4> QED
        BY <1>1, <1>2, <2>1, <2>2, <3>1, <3>3, <4>1
           DEF SessionInv, EnrollInv, Registry!ValidToken
    <3>4. ASSUME pc[r] \in {"mark", "commit"}
          PROVE  ~ Registry!SerialTaken(req[r].serial)'
      <4>1. req[r].serial # None => req[r].serial # c.serial
        BY <1>1, <1>4, <2>2, <3>4 DEF PairInv, EnrollsApart
      <4>2. ~ Registry!SerialTaken(req[r].serial)
        BY <1>1, <2>2, <3>4 DEF SessionInv, EnrollInv
      <4> QED
        BY <1>2, <2>1, <4>1, <4>2 DEF Registry!SerialTaken, NewDevice
    <3> QED
      BY <1>2, <3>2, <3>3, <3>4 DEF EnrollInv
  <2>3. ASSUME NEW d \in DeviceIds, devices[d].enrolled
        PROVE  devices'[d] = devices[d]
    BY <2>1, <2>3
  <2>4. BeatInv(r)'
    BY <1>1, <1>2, <2>3 DEF SessionInv, BeatInv, BeatCall
  <2>5. SubmitInv(r)'
    BY <1>1, <1>2, <2>1, <2>3 DEF SessionInv, SubmitInv, SubmitCall, Registry!Of
  <2> QED
    BY <1>2, <1>3, <2>2, <2>4, <2>5 DEF SessionInv, EnrollInv
<1>5. CASE req[s] \in BeatCall
  <2>1. /\ \A d \in DeviceIds : /\ devices'[d].enrolled = devices[d].enrolled
                                /\ devices'[d].serial = devices[d].serial
                                /\ devices'[d].revoked = devices[d].revoked
        /\ UNCHANGED <<tokens, snapshots>> /\ found'[r] = found[r]
    <3>1. /\ devices' = [devices EXCEPT ![req[s].dev].seen = req[s].observed]
          /\ UNCHANGED <<tokens, snapshots>> /\ Deleted(s) = {}
      BY <1>5, CommitBeat
    <3>2. devices \in [DeviceIds -> Device]
      BY RegistryTypes DEF IInv, TypeOK
    <3>3. ASSUME NEW d \in DeviceIds
          PROVE  /\ devices'[d].enrolled = devices[d].enrolled
                 /\ devices'[d].serial = devices[d].serial
                 /\ devices'[d].revoked = devices[d].revoked
      BY <3>1, <3>2 DEF Device
    <3> QED
      BY <1>2, <3>1, <3>3
  <2>2. EnrollInv(r)'
    BY <1>1, <1>2, <2>1
       DEF SessionInv, EnrollInv, EnrollCall, Registry!ValidToken, Registry!SerialTaken
  <2>3. BeatInv(r)' /\ SubmitInv(r)'
    BY <1>1, <1>2, <2>1 DEF SessionInv, BeatInv, BeatCall, SubmitInv, SubmitCall, Registry!Of
  <2> QED
    BY <1>3, <2>2, <2>3 DEF SessionInv
<1>6. CASE req[s] \in SubmitCall
  <2> DEFINE row == [dev |-> req[s].dev, hash |-> req[s].hash]
  <2>1. /\ snapshots' = (snapshots \ found[s]) \cup {row}
        /\ UNCHANGED <<tokens, devices>>
        /\ found'[r] = found[r] \ found[s]
    BY <1>2, <1>6, CommitSubmit
  <2>2. EnrollInv(r)' /\ BeatInv(r)'
    BY <1>1, <1>2, <2>1
       DEF SessionInv, EnrollInv, BeatInv, Registry!ValidToken, Registry!SerialTaken
  <2>3. ASSUME req[r] \in SubmitCall
        PROVE  SubmitInv(r)'
    <3>1. found'[r] \subseteq Registry!Of(req[r].dev)'
      BY <1>1, <1>2, <2>1, <2>3 DEF SessionInv, SubmitInv, Registry!Of
    <3>2. ASSUME pc[r] \in {"audit", "commit"}
          PROVE  [dev |-> req[r].dev, hash |-> req[r].hash] \notin snapshots' \ found'[r]
      <4>1. [dev |-> req[r].dev, hash |-> req[r].hash] # row
        BY <1>1, <1>6, <2>3, <3>2 DEF PairInv, SubmitsApart
      <4>2. [dev |-> req[r].dev, hash |-> req[r].hash] \notin snapshots \ found[r]
        BY <1>1, <2>3, <3>2 DEF SessionInv, SubmitInv
      <4> QED
        BY <2>1, <4>1, <4>2
    <3> QED
      BY <1>1, <1>2, <2>1, <3>1, <3>2 DEF SessionInv, SubmitInv
  <2> QED
    BY <1>2, <1>3, <2>2, <2>3 DEF SessionInv, SubmitInv
<1> QED
  BY <1>1, <1>4, <1>5, <1>6

LEMMA CommitStep ==
  ASSUME IInv, NEW s \in Sessions, Commit(s)
  PROVE  IInv'
<1>1. Registry!TypeOK' /\ UNCHANGED now
  <2>1. req[s] \in EnrollCall \cup BeatCall \cup SubmitCall
    BY DEF Commit, IInv, SessionInv, PlaceInv
  <2> QED
    BY <2>1, CommitEnroll, CommitBeat, CommitSubmit
<1>2. TypeOK'
  BY <1>1, CommitSessions DEF TypeOK
<1>3. SessionInv(s)'
  <2>1. now' \in Nat
    BY <1>1 DEF Registry!TypeOK
  <2> QED
    BY <2>1, CommitSessions, CallsDiffer DEF SessionInv, PlaceInv, EnrollInv, BeatInv, SubmitInv
<1>4. ASSUME NEW q \in Sessions, NEW r \in Sessions, q # r
      PROVE  PairInv(q, r)'
  <2>1. CASE q = s \/ r = s
    BY <2>1, CommitSessions, CallsDiffer DEF PairInv, EnrollsApart, SubmitsApart
  <2>2. CASE q # s /\ r # s
    BY <1>4, <2>2, CommitSessions DEF IInv, PairInv, EnrollsApart, SubmitsApart
  <2> QED
    BY <2>1, <2>2
<1> QED
  BY <1>2, <1>3, <1>4, CommitKeepsOthers DEF IInv

-----------------------------------------------------------------------------
(* The invariant. *)

LEMMA IssueTokenStep ==
  ASSUME IInv, NEW tk \in Tokens, NEW ttl \in TTLs, IssueToken(tk, ttl)
  PROVE  IInv'
<1>1. /\ tokens[tk].expires = 0 /\ tokens' = [tokens EXCEPT ![tk].expires = now + ttl]
      /\ UNCHANGED <<devices, snapshots, now, pc, req, start, found>>
  BY DEF IssueToken, Registry!IssueToken, session
<1>2. tokens \in [Tokens -> Token] /\ now + ttl \in Nat
  BY RegistryTypes, ConstantsAssumption DEF IInv, TypeOK
<1>3. Registry!TypeOK'
  <2>1. tokens' \in [Tokens -> Token]
    BY <1>1, <1>2 DEF Token
  <2> QED
    BY <1>1, <2>1, SameRows DEF IInv, TypeOK, Registry!TypeOK
<1>4. ASSUME NEW s \in Sessions
      PROVE  SessionInv(s)'
  <2>1. PlaceInv(s)' /\ BeatInv(s)' /\ SubmitInv(s)'
    BY <1>1 DEF IInv, SessionInv, PlaceInv, BeatInv, SubmitInv, Registry!Of
  <2>2. ASSUME NEW other \in Tokens, Registry!ValidToken(other, start[s])
        PROVE  Registry!ValidToken(other, start[s])'
    <3>1. start[s] \in Nat
      BY DEF IInv, TypeOK
    <3>2. other # tk
      BY <1>1, <2>2, <3>1 DEF Registry!ValidToken
    <3> QED
      BY <1>1, <1>2, <2>2, <3>2 DEF Registry!ValidToken
  <2>3. EnrollInv(s)'
    BY <1>1, <2>2 DEF IInv, SessionInv, EnrollInv, EnrollCall, Registry!SerialTaken
  <2> QED
    BY <2>1, <2>3 DEF SessionInv
<1> QED
  BY <1>1, <1>3, <1>4 DEF IInv, TypeOK, PairInv, EnrollsApart, SubmitsApart

\* A heartbeat that holds the device row keeps the revocation waiting.
LEMMA RevokeStep ==
  ASSUME IInv, NEW d \in DeviceIds, Revoke(d)
  PROVE  IInv'
<1>1. /\ devices[d].enrolled /\ devices[d].revoked = None
      /\ devices' = [devices EXCEPT ![d].revoked = now]
      /\ UNCHANGED <<tokens, snapshots, now, pc, req, start, found>>
      /\ \A s \in Sessions : ~ (pc[s] = "commit" /\ req[s].op = "heartbeat" /\ req[s].dev = d)
  BY DEF Revoke, Registry!Revoke, session
<1>2. devices \in [DeviceIds -> Device] /\ now \in Nat
  BY RegistryTypes DEF IInv, TypeOK
<1>3. Registry!TypeOK'
  <2>1. devices' \in [DeviceIds -> Device]
    BY <1>1, <1>2 DEF Device
  <2> QED
    BY <1>1, <2>1, SameRows DEF IInv, TypeOK, Registry!TypeOK
<1>4. ASSUME NEW e \in DeviceIds
      PROVE  /\ devices'[e].enrolled = devices[e].enrolled
             /\ devices'[e].serial = devices[e].serial
             /\ e # d => devices'[e].revoked = devices[e].revoked
  BY <1>1, <1>2 DEF Device
<1>5. ASSUME NEW s \in Sessions
      PROVE  SessionInv(s)'
  <2>1. PlaceInv(s)'
    BY <1>1 DEF IInv, SessionInv, PlaceInv
  <2>2. EnrollInv(s)'
    BY <1>1, <1>4
       DEF IInv, SessionInv, EnrollInv, EnrollCall, Registry!ValidToken, Registry!SerialTaken
  <2>3. BeatInv(s)'
    BY <1>1, <1>4, CallsDiffer DEF IInv, SessionInv, BeatInv, BeatCall
  <2>4. SubmitInv(s)'
    BY <1>1, <1>4 DEF IInv, SessionInv, SubmitInv, SubmitCall, Registry!Of
  <2> QED
    BY <2>1, <2>2, <2>3, <2>4 DEF SessionInv
<1> QED
  BY <1>1, <1>3, <1>5 DEF IInv, TypeOK, PairInv, EnrollsApart, SubmitsApart

LEMMA TickStep ==
  ASSUME IInv, Tick
  PROVE  IInv'
<1>1. now' = now + 1 /\ UNCHANGED <<tokens, devices, snapshots, pc, req, start, found>>
  BY DEF Tick, Registry!Tick, session
<1>2. now \in Nat /\ Skew \in Nat
  BY RegistryTypes, ConstantsAssumption DEF IInv, TypeOK
<1>3. Registry!TypeOK'
  BY <1>1, <1>2 DEF IInv, TypeOK, Registry!TypeOK
<1>4. ASSUME NEW s \in Sessions
      PROVE  SessionInv(s)'
  <2>1. PlaceInv(s)'
    <3>1. SessionInv(s) /\ start[s] \in Nat
      BY DEF IInv, TypeOK
    <3>2. req[s] \in BeatCall => req[s].observed \in Nat
      BY DEF BeatCall
    <3> QED
      BY <1>1, <1>2, <3>1, <3>2 DEF SessionInv, PlaceInv
  <2>2. EnrollInv(s)' /\ BeatInv(s)' /\ SubmitInv(s)'
    BY <1>1 DEF IInv, SessionInv, EnrollInv, BeatInv, SubmitInv, Registry!ValidToken,
                Registry!SerialTaken, Registry!Of
  <2> QED
    BY <2>1, <2>2 DEF SessionInv
<1> QED
  BY <1>1, <1>3, <1>4 DEF IInv, TypeOK, PairInv, EnrollsApart, SubmitsApart

\* A heartbeat's time is a number, also when the clock of the agent runs late.
LEMMA HeartbeatCalls ==
  ASSUME IInv, NEW d \in DeviceIds, NEW observed \in 0 .. now + Skew
  PROVE  [op |-> "heartbeat", dev |-> d, observed |-> observed] \in BeatCall
<1>1. observed \in Nat
  BY RegistryTypes, ConstantsAssumption DEF IInv, TypeOK
<1> QED
  BY <1>1 DEF BeatCall

LEMMA NextInv == IInv /\ [Next]_vars => IInv'
<1> SUFFICES ASSUME IInv, [Next]_vars PROVE IInv'
  OBVIOUS
<1>1. ASSUME NEW s \in Sessions, NEW call \in EnrollCall, BeginEnroll(s, call)
      PROVE  IInv'
  BY <1>1, BeginStep DEF BeginEnroll
<1>2. ASSUME NEW s \in Sessions, NEW d \in DeviceIds, NEW observed \in 0 .. now + Skew,
             BeginHeartbeat(s, [op |-> "heartbeat", dev |-> d, observed |-> observed])
      PROVE  IInv'
  BY <1>2, BeginStep, HeartbeatCalls DEF BeginHeartbeat
<1>3. ASSUME NEW s \in Sessions, NEW call \in SubmitCall, BeginSubmit(s, call)
      PROVE  IInv'
  BY <1>3, BeginStep DEF BeginSubmit
<1>4. ASSUME NEW s \in Sessions, Disconnect(s)
      PROVE  IInv'
  BY <1>4, RollBackStep DEF Disconnect
<1>5. ASSUME NEW s \in Sessions,
             \/ LockToken(s) \/ InsertDevice(s) \/ MarkToken(s)
             \/ Match(s) \/ UpdateRow(s)
             \/ SelectDevice(s) \/ FindSnapshots(s) \/ DeleteSnapshots(s)
             \/ InsertSnapshot(s) \/ TakeAuditLock(s) \/ Commit(s)
      PROVE  IInv'
  BY <1>5, LockTokenStep, InsertDeviceStep, MarkTokenStep, MatchStep, UpdateRowStep,
     SelectDeviceStep, FindSnapshotsStep, DeleteSnapshotsStep, InsertSnapshotStep,
     TakeAuditLockStep, CommitStep
<1>6. CASE UNCHANGED vars
  <2>1. UNCHANGED <<tokens, devices, snapshots, now, pc, req, start, found>>
    BY <1>6 DEF vars, committed, session
  <2>2. \A s \in Sessions : SessionInv(s)'
    BY <2>1, StayingSession DEF IInv
  <2> QED
    BY <2>1, <2>2 DEF IInv, TypeOK, Registry!TypeOK, PairInv, EnrollsApart, SubmitsApart
<1> QED
  BY <1>1, <1>2, <1>3, <1>4, <1>5, <1>6, IssueTokenStep, RevokeStep, TickStep DEF Next

LEMMA InvariantHolds == Spec => []IInv
<1> QED
  BY InitInv, NextInv, PTL DEF Spec

\* Every session's statement, call and found rows, and the committed tables, keep
\* their types.
THEOREM TypeCorrect == Spec => []TypeOK
<1>1. IInv => TypeOK
  BY DEF IInv
<1> QED
  BY <1>1, InvariantHolds, PTL

-----------------------------------------------------------------------------
(* Every commit is one step of DeviceRegistry. *)

LEMMA EnrollIsAtomic ==
  ASSUME IInv, NEW s \in Sessions, Commit(s), req[s] \in EnrollCall
  PROVE  Registry!Next
<1>1. /\ ~ devices[req[s].dev].enrolled
      /\ Registry!ValidToken(req[s].token, start[s])
      /\ ~ Registry!SerialTaken(req[s].serial)
  BY DEF Commit, IInv, SessionInv, EnrollInv
<1>2. Registry!Enroll(req[s].token, req[s].serial, start[s], req[s].dev)
  BY <1>1, CommitEnroll, SameRows DEF Registry!Enroll
<1> QED
  BY <1>2, CommitEnroll DEF Registry!Next

LEMMA BeatIsAtomic ==
  ASSUME IInv, NEW s \in Sessions, Commit(s), req[s] \in BeatCall
  PROVE  Registry!Next
<1>1. devices[req[s].dev].enrolled /\ devices[req[s].dev].revoked = None
  BY DEF Commit, IInv, SessionInv, BeatInv
<1>2. Registry!Heartbeat(req[s].dev, req[s].observed)
  BY <1>1, CommitBeat DEF Registry!Heartbeat
<1> QED
  BY <1>2, CommitBeat DEF Registry!Next

LEMMA SubmitIsAtomic ==
  ASSUME IInv, NEW s \in Sessions, Commit(s), req[s] \in SubmitCall
  PROVE  Registry!Next
<1> DEFINE c == req[s]
           kept == Registry!Of(c.dev) \ found[s]
<1>1. /\ devices[c.dev].enrolled /\ found[s] \subseteq Registry!Of(c.dev)
      /\ [dev |-> c.dev, hash |-> c.hash] \notin snapshots \ found[s]
  BY DEF Commit, IInv, SessionInv, SubmitInv
<1>2. /\ snapshots' = (snapshots \ found[s]) \cup {[dev |-> c.dev, hash |-> c.hash]}
      /\ UNCHANGED <<tokens, devices, now>>
      /\ c.dev \in DeviceIds /\ c.hash \in Hashes
  BY CommitSubmit
<1>3. Registry!ActiveSince(c.dev, 0) /\ 0 \in 0 .. now
  <2>1. devices[c.dev].revoked \in Nat \cup {None} /\ now \in Nat
    BY <1>2, RegistryTypes DEF IInv, TypeOK, Device
  <2> QED
    BY <1>1, <2>1 DEF Registry!ActiveSince
<1>4. kept \in SUBSET Registry!Of(c.dev)
  OBVIOUS
<1>5. ASSUME NEW x \in kept
      PROVE  x.hash # c.hash
  <2>1. x \in snapshots \ found[s] /\ x.dev = c.dev
    BY DEF Registry!Of
  <2>2. x = [dev |-> x.dev, hash |-> x.hash]
    BY <2>1, RegistryTypes DEF IInv, TypeOK, Snapshot
  <2> QED
    BY <1>1, <2>1, <2>2
<1>6. snapshots' = (snapshots \ Registry!Of(c.dev)) \cup kept
                     \cup {[dev |-> c.dev, hash |-> c.hash]}
  BY <1>1, <1>2 DEF Registry!Of
<1>7. Registry!Submit(c.dev, c.hash, 0)
  BY <1>2, <1>3, <1>4, <1>5, <1>6 DEF Registry!Submit
<1> QED
  BY <1>2, <1>3, <1>7 DEF Registry!Next

LEMMA RegistryStep == IInv /\ [Next]_vars => [Registry!Next]_(Registry!vars)
<1> SUFFICES ASSUME IInv, [Next]_vars PROVE [Registry!Next]_(Registry!vars)
  OBVIOUS
<1>1. ASSUME NEW s \in Sessions, Commit(s)
      PROVE  Registry!Next
  <2>1. req[s] \in EnrollCall \cup BeatCall \cup SubmitCall
    BY <1>1 DEF Commit, IInv, SessionInv, PlaceInv
  <2> QED
    BY <1>1, <2>1, EnrollIsAtomic, BeatIsAtomic, SubmitIsAtomic
<1>2. ASSUME NEW s \in Sessions,
             \/ LockToken(s) \/ InsertDevice(s) \/ MarkToken(s)
             \/ Match(s) \/ UpdateRow(s)
             \/ SelectDevice(s) \/ FindSnapshots(s) \/ DeleteSnapshots(s)
             \/ InsertSnapshot(s) \/ TakeAuditLock(s) \/ Disconnect(s)
             \/ \E call \in EnrollCall : BeginEnroll(s, call)
             \/ \E d \in DeviceIds, observed \in 0 .. now + Skew :
                  BeginHeartbeat(s, [op |-> "heartbeat", dev |-> d, observed |-> observed])
             \/ \E call \in SubmitCall : BeginSubmit(s, call)
      PROVE  UNCHANGED committed
  BY <1>2 DEF LockToken, InsertDevice, MarkToken, Match, UpdateRow, SelectDevice, FindSnapshots,
              DeleteSnapshots, InsertSnapshot, TakeAuditLock, Disconnect, RollBack, Proceed,
              BeginEnroll, BeginHeartbeat, BeginSubmit, Begin, committed
<1>3. ASSUME NEW tk \in Tokens, NEW ttl \in TTLs, IssueToken(tk, ttl)
      PROVE  Registry!Next
  BY <1>3 DEF IssueToken, Registry!Next
<1>4. ASSUME NEW d \in DeviceIds, Revoke(d)
      PROVE  Registry!Next
  BY <1>4 DEF Revoke, Registry!Next
<1>5. CASE Tick
  BY <1>5 DEF Tick, Registry!Next
<1>6. CASE UNCHANGED vars
  BY <1>6 DEF vars, committed, Registry!vars
<1>7. UNCHANGED committed => UNCHANGED Registry!vars
  BY DEF committed, Registry!vars
<1> QED
  BY <1>1, <1>2, <1>3, <1>4, <1>5, <1>6, <1>7 DEF Next

\* The statements and locks of enroll, heartbeat and submit make every call one
\* atomic step on the tokens, the devices and the snapshots, taken at its commit.
THEOREM CallsAreAtomic == Spec => ImplementsDeviceRegistry
<1>1. Init => Registry!Init
  BY DEF Init
<1> QED
  BY <1>1, RegistryStep, InvariantHolds, PTL DEF Spec, ImplementsDeviceRegistry, Registry!Spec

-----------------------------------------------------------------------------
(* What is proved of DeviceRegistry holds of the statements. *)

Proved == INSTANCE DeviceRegistryProofs

LEMMA SameSpecification == Registry!Spec => Proved!Spec
<1>1. Registry!Init => Proved!Init
  BY DEF Registry!Init, Proved!Init, Registry!NoDevice, Proved!NoDevice
<1>2. Registry!Next => Proved!Next
  BY DEF Registry!Next, Proved!Next, Registry!IssueToken, Proved!IssueToken,
         Registry!Enroll, Proved!Enroll, Registry!Heartbeat, Proved!Heartbeat,
         Registry!Submit, Proved!Submit, Registry!Revoke, Proved!Revoke,
         Registry!Tick, Proved!Tick, Registry!ValidToken, Proved!ValidToken,
         Registry!SerialTaken, Proved!SerialTaken, Registry!ActiveSince,
         Proved!ActiveSince, Registry!Of, Proved!Of, Registry!NewDevice, Proved!NewDevice
<1>3. UNCHANGED Registry!vars => UNCHANGED Proved!vars
  BY DEF Registry!vars, Proved!vars
<1>4. [Registry!Next]_(Registry!vars) => [Proved!Next]_(Proved!vars)
  BY <1>2, <1>3
<1> QED
  BY <1>1, <1>4, PTL DEF Registry!Spec, Proved!Spec

LEMMA StatementsRefineProved == Spec => Proved!Spec
BY CallsAreAtomic, SameSpecification, PTL DEF ImplementsDeviceRegistry

\* However the statements of concurrent calls interleave, a token buys one device
\* and the serial numbers of the committed devices stay apart.
THEOREM InterleavingsKeepInvariants ==
  Spec => [](Registry!OneDevicePerToken /\ Registry!SerialsUnique)
<1>1. /\ Proved!OneDevicePerToken => Registry!OneDevicePerToken
      /\ Proved!SerialsUnique => Registry!SerialsUnique
  BY DEF Proved!OneDevicePerToken, Registry!OneDevicePerToken,
         Proved!SerialsUnique, Registry!SerialsUnique
<1>2. /\ Proved!Spec => []Proved!OneDevicePerToken
      /\ Proved!Spec => []Proved!SerialsUnique
  BY Proved!TokensBuyOneDevice, Proved!SerialsStayUnique, ConstantsAssumption, PTL
<1> QED
  BY <1>1, <1>2, StatementsRefineProved, PTL

\* However the statements of concurrent calls interleave, no call that was under
\* way when a device was revoked changes its row.
THEOREM InterleavingsKeepRevocations == Spec => Registry!RevocationIsFinal
<1>1. Proved!RevocationIsFinal => Registry!RevocationIsFinal
  BY PTL DEF Proved!RevocationIsFinal, Registry!RevocationIsFinal, Proved!vars, Registry!vars
<1>2. Proved!Spec => Proved!RevocationIsFinal
  BY Proved!RevocationStays, ConstantsAssumption, PTL
<1> QED
  BY <1>1, <1>2, StatementsRefineProved, PTL

\* Replacing a snapshot never leaves a device without one, whichever of the
\* submissions that race fails: a submit that is rolled back after its delete has
\* deleted nothing, and one that commits has inserted its own row.
THEOREM InventoryStays == Spec => InventoryIsKept
<1>1. Proved!InventoryIsKept => Registry!InventoryIsKept
  <2>1. [\A d \in DeviceIds : Proved!Of(d) # {} => Proved!Of(d)' # {}]_(Proved!vars)
          => [\A d \in DeviceIds : Registry!Of(d) # {} => Registry!Of(d)' # {}]_(Registry!vars)
    BY DEF Proved!vars, Registry!vars, Proved!Of, Registry!Of
  <2> QED
    BY <2>1, PTL DEF Proved!InventoryIsKept, Registry!InventoryIsKept
<1>2. Proved!Spec => Proved!InventoryIsKept
  BY Proved!InventoryStays, ConstantsAssumption, PTL
<1> QED
  BY <1>1, <1>2, StatementsRefineProved, PTL DEF InventoryIsKept
=============================================================================
