---------------------------- MODULE WindowsAgentProofs ----------------------------
(***************************************************************************)
(* Proofs about WindowsAgent for every set of machines, tokens and devices *)
(* and every bound on the faults: its types, that an agent only stores the *)
(* credential its token was consumed for, and that every device without an *)
(* owner comes from a fault.  The service's calls are steps of             *)
(* DeviceRegistry, so what is proved of the registry holds here too.       *)
(***************************************************************************)
EXTENDS WindowsAgent, DeviceRegistryProofs, FiniteSetTheorems

-----------------------------------------------------------------------------
(* The inductive invariant. *)

\* The agent's token was consumed for this device.
Owns(a, d) == tokens[TokenOf[a]].usedBy = d /\ devices[d].enrolled

\* Once stored, the credential is the only one the agent can have.
AgentInv(a) ==
  /\ reply[a] # None => pc[a] \in Calls \cup {"save"}
  /\ pc[a] = "save" => reply[a] # None /\ reply[a].ok
  /\ pc[a] \in {"heartbeat", "collect"} => credential[a] # None
  /\ credential[a] # None => credential[a] = disk[a]
  /\ disk[a] # None => Owns(a, disk[a])

\* An answer brings the credential that was just made or the one in use.
ReplyInv(a) ==
  reply[a] # None =>
    /\ reply[a].ok <=> reply[a].dev # None
    /\ reply[a].ok /\ pc[a] \in {"enroll", "save"} => Owns(a, reply[a].dev)
    /\ reply[a].ok /\ pc[a] \in {"heartbeat", "inventory"} => reply[a].dev = disk[a]

\* A request carries the credential its agent stored, however late it is; a live
\* one has no answer yet.
RequestInv(m) ==
  /\ m.call = "enroll" => m.dev = None
  /\ m.call # "enroll" => m.dev # None /\ m.dev = disk[m.from]
  /\ m.live => pc[m.from] = m.call /\ reply[m.from] = None

AgentsInv ==
  /\ AgentTypeOK
  /\ \A a \in Agents : AgentInv(a) /\ ReplyInv(a)
  /\ \A m \in wire : RequestInv(m)

\* Enrollments that nobody waits for: each may still make a device of its own.
LateEnrollments == {m \in wire : m.call = "enroll" /\ ~ m.live}

Faults == faults["breaks"] + faults["exceptions"] + faults["stops"]

\* A fault pays for one enrollment that comes late or for one answer that is lost.
FaultsPay ==
  /\ IsFiniteSet(Orphans) /\ IsFiniteSet(LateEnrollments)
  /\ Cardinality(Orphans) + Cardinality(LateEnrollments) <= Faults

-----------------------------------------------------------------------------
(* What the steps have in common. *)

LEMMA InitAgents == AgentInit => AgentsInv
<1> SUFFICES ASSUME AgentInit PROVE AgentsInv
  OBVIOUS
<1>1. AgentTypeOK
  BY InitTypeOK DEF AgentInit, AgentTypeOK, Labels, Calls
<1>2. \A a \in Agents : AgentInv(a) /\ ReplyInv(a)
  BY DEF AgentInit, AgentInv, ReplyInv
<1>3. \A m \in wire : RequestInv(m)
  BY DEF AgentInit
<1> QED
  BY <1>1, <1>2, <1>3 DEF AgentsInv

\* An agent's step leaves the registry and the other agents alone.
LEMMA OneAgent ==
  ASSUME AgentsInv, NEW a \in Agents,
         AgentTypeOK', UNCHANGED registry,
         \A b \in Agents \ {a} : /\ pc'[b] = pc[b] /\ credential'[b] = credential[b]
                                 /\ disk'[b] = disk[b] /\ reply'[b] = reply[b],
         AgentInv(a)', ReplyInv(a)',
         \A m \in wire' : m.from # a => m \in wire,
         \A m \in wire' : m.from = a => RequestInv(m)'
  PROVE  AgentsInv'
<1>1. ASSUME NEW b \in Agents
      PROVE  AgentInv(b)' /\ ReplyInv(b)'
  <2>1. CASE b = a
    BY <2>1
  <2>2. CASE b # a
    BY <2>2 DEF AgentsInv, AgentInv, ReplyInv, Owns, registry
  <2> QED
    BY <2>1, <2>2
<1>2. ASSUME NEW m \in wire'
      PROVE  RequestInv(m)'
  <2>1. CASE m.from = a
    BY <2>1
  <2>2. CASE m.from # a
    <3>1. m \in wire /\ m.from \in Agents \ {a}
      BY <2>2 DEF AgentsInv, AgentTypeOK, Request
    <3> QED
      BY <3>1 DEF AgentsInv, RequestInv
  <2> QED
    BY <2>1, <2>2
<1> QED
  BY <1>1, <1>2 DEF AgentsInv

\* A stored credential is never replaced by another one.
LEMMA StoredStays ==
  ASSUME AgentsInv, NEW a \in Agents, pc[a] = "save"
  PROVE  /\ reply[a] # None /\ reply[a].dev \in DeviceIds /\ Owns(a, reply[a].dev)
         /\ disk[a] # None => disk[a] = reply[a].dev
BY DEF AgentsInv, AgentTypeOK, AgentInv, ReplyInv, Owns, Answer, Calls

LEMMA SendsRequest ==
  ASSUME AgentsInv, NEW a \in Agents, pc[a] \in {"cycle", "save", "collect"},
         NEW call \in Calls, NEW dev \in DeviceIds \cup {None}, Send(a, call, dev),
         reply'[a] = None,
         disk[a] # None => disk'[a] = disk[a],
         IF call = "enroll" THEN dev = None ELSE dev # None /\ dev = disk'[a]
  PROVE  /\ pc' \in [Agents -> Labels] /\ wire' \subseteq Request
         /\ pc'[a] = call
         /\ \A b \in Agents \ {a} : pc'[b] = pc[b]
         /\ \A m \in wire' : m.from # a => m \in wire
         /\ \A m \in wire' : m.from = a => RequestInv(m)'
<1> DEFINE new == [call |-> call, from |-> a, dev |-> dev, live |-> TRUE]
<1>1. /\ pc' \in [Agents -> Labels] /\ pc'[a] = call
      /\ \A b \in Agents \ {a} : pc'[b] = pc[b]
  BY DEF Send, Goto, AgentsInv, AgentTypeOK, Labels
<1>2. new \in Request /\ wire' = wire \cup {new}
  BY DEF Send, Request
<1>3. RequestInv(new)'
  BY <1>1 DEF RequestInv
<1>4. ASSUME NEW m \in wire, m.from = a
      PROVE  RequestInv(m)'
  <2>1. RequestInv(m) /\ ~ m.live
    BY <1>4 DEF AgentsInv, RequestInv, AgentTypeOK, Request, Calls
  <2> QED
    BY <1>4, <2>1 DEF RequestInv
<1>5. wire' \subseteq Request /\ new.from = a
  BY <1>2 DEF AgentsInv, AgentTypeOK
<1> HIDE DEF new
<1>6. \A m \in wire' : m = new \/ m \in wire
  BY <1>2
<1> QED
  BY <1>1, <1>3, <1>4, <1>5, <1>6

LEMMA GivesUp ==
  ASSUME AgentsInv, NEW a \in Agents, GiveUp(a),
         disk[a] # None => disk'[a] = disk[a]
  PROVE  /\ wire' \subseteq Request
         /\ \A m \in wire' : m.from # a => m \in wire
         /\ \A m \in wire' : m.from = a => RequestInv(m)'
         /\ reply' = [reply EXCEPT ![a] = None]
         /\ reply' \in [Agents -> Answer \cup {None}]
<1>1. /\ reply' = [reply EXCEPT ![a] = None]
      /\ reply' \in [Agents -> Answer \cup {None}]
  BY DEF GiveUp, Read, AgentsInv, AgentTypeOK
<1>2. ASSUME NEW m \in Live(a)
      PROVE  /\ [m EXCEPT !.live = FALSE] \in Request
             /\ [m EXCEPT !.live = FALSE].from = a
             /\ RequestInv([m EXCEPT !.live = FALSE])'
  BY DEF Live, AgentsInv, AgentTypeOK, Request, RequestInv
<1>3. ASSUME NEW m \in wire \ Live(a), m.from = a
      PROVE  RequestInv(m)'
  BY <1>3 DEF Live, AgentsInv, AgentTypeOK, Request, RequestInv
<1>4. wire \subseteq Request
  BY DEF AgentsInv, AgentTypeOK
<1>5. CASE wire' = wire \ Live(a)
  BY <1>1, <1>3, <1>4, <1>5
<1>6. CASE wire' = (wire \ Live(a)) \cup {[m EXCEPT !.live = FALSE] : m \in Live(a)}
  <2>1. ASSUME NEW m \in wire'
        PROVE  /\ m \in Request
               /\ m.from # a => m \in wire
               /\ m.from = a => RequestInv(m)'
    <3>1. CASE m \in wire \ Live(a)
      BY <1>3, <1>4, <3>1
    <3>2. CASE \E l \in Live(a) : m = [l EXCEPT !.live = FALSE]
      BY <1>2, <3>2
    <3> QED
      BY <1>6, <3>1, <3>2
  <2> QED
    BY <1>1, <2>1
<1> QED
  BY <1>5, <1>6 DEF GiveUp

-----------------------------------------------------------------------------
(* The steps of the service keep AgentsInv. *)

\* Steps that send nothing.
LEMMA QuietStepsKeepAgentsInv ==
  ASSUME AgentsInv, NEW a \in Agents,
         Start(a) \/ Enrolled(a) \/ HeartbeatAccepted(a) \/ InventoryAccepted(a) \/ Refused(a)
  PROVE  AgentsInv'
<1>1. UNCHANGED registry /\ wire' = wire /\ faults' = faults /\ disk' = disk
  BY DEF Start, Enrolled, HeartbeatAccepted, InventoryAccepted, Refused
<1>2. AgentTypeOK'
  <2>1. TypeOK'
    BY <1>1 DEF AgentsInv, AgentTypeOK, TypeOK, registry
  <2>2. /\ pc' \in [Agents -> Labels]
        /\ credential' \in [Agents -> DeviceIds \cup {None}]
        /\ reply' \in [Agents -> Answer \cup {None}]
    BY DEF Start, Enrolled, HeartbeatAccepted, InventoryAccepted, Refused, Goto, Read, Labels,
           AgentsInv, AgentTypeOK
  <2> QED
    BY <1>1, <2>1, <2>2 DEF AgentsInv, AgentTypeOK
<1>3. \A b \in Agents \ {a} : /\ pc'[b] = pc[b] /\ credential'[b] = credential[b]
                              /\ disk'[b] = disk[b] /\ reply'[b] = reply[b]
  BY DEF Start, Enrolled, HeartbeatAccepted, InventoryAccepted, Refused, Goto, Read,
         AgentsInv, AgentTypeOK
<1>4. \A d : Owns(a, d) <=> Owns(a, d)'
  BY <1>1 DEF Owns, registry
<1>5. AgentInv(a)' /\ ReplyInv(a)'
  <2>1. AgentInv(a) /\ ReplyInv(a)
    BY DEF AgentsInv
  <2>2. CASE Start(a)
    BY <1>1, <1>4, <2>1, <2>2 DEF Start, Goto, AgentInv, ReplyInv, AgentsInv, AgentTypeOK, Calls
  <2>3. CASE Enrolled(a)
    BY <1>1, <1>4, <2>1, <2>3
       DEF Enrolled, Accepted, Goto, AgentInv, ReplyInv, AgentsInv, AgentTypeOK, Calls
  <2>4. CASE HeartbeatAccepted(a) \/ InventoryAccepted(a) \/ Refused(a)
    BY <1>1, <1>4, <2>1, <2>4
       DEF HeartbeatAccepted, InventoryAccepted, Refused, Accepted, Goto, Read, AgentInv,
           ReplyInv, AgentsInv, AgentTypeOK, Calls
  <2> QED
    BY <2>2, <2>3, <2>4
<1>6. \A m \in wire' : m.from # a => m \in wire
  BY <1>1
<1>7. ASSUME NEW m \in wire', m.from = a
      PROVE  RequestInv(m)'
  <2>1. RequestInv(m) /\ m \in Request
    BY <1>1 DEF AgentsInv, AgentTypeOK
  <2>2. m.live => (pc[a] \in Calls /\ reply[a] = None)
    BY <1>7, <2>1 DEF RequestInv, Request
  <2>3. ~ m.live
    BY <2>2 DEF Start, Enrolled, HeartbeatAccepted, InventoryAccepted, Refused, Accepted, Calls
  <2> QED
    BY <1>1, <2>1, <2>3 DEF RequestInv
<1> QED
  BY <1>1, <1>2, <1>3, <1>5, <1>6, <1>7, OneAgent

LEMMA CycleKeepsAgentsInv ==
  ASSUME AgentsInv, NEW a \in Agents, Cycle(a)
  PROVE  AgentsInv'
<1> DEFINE call == IF credential[a] = None THEN "enroll" ELSE "heartbeat"
<1>1. UNCHANGED <<registry, credential, disk, reply, faults>> /\ pc[a] = "cycle"
  BY DEF Cycle
<1>2. AgentInv(a) /\ ReplyInv(a) /\ reply[a] = None
  BY <1>1 DEF AgentsInv, AgentInv, Calls
<1>3. Send(a, call, credential[a])
  BY DEF Cycle
<1>4. credential[a] \in DeviceIds \cup {None} /\ call \in Calls
  BY DEF AgentsInv, AgentTypeOK, Calls
<1>5. IF call = "enroll" THEN credential[a] = None
                         ELSE credential[a] # None /\ credential[a] = disk'[a]
  BY <1>1, <1>2 DEF AgentInv
<1> HIDE DEF call
<1>6. /\ pc' \in [Agents -> Labels] /\ wire' \subseteq Request
      /\ pc'[a] = call
      /\ \A b \in Agents \ {a} : pc'[b] = pc[b]
      /\ \A m \in wire' : m.from # a => m \in wire
      /\ \A m \in wire' : m.from = a => RequestInv(m)'
  BY <1>1, <1>2, <1>3, <1>4, <1>5, SendsRequest
<1>7. AgentTypeOK'
  BY <1>1, <1>6 DEF AgentsInv, AgentTypeOK, TypeOK, registry
<1>8. AgentInv(a)' /\ ReplyInv(a)'
  <2>1. call = "heartbeat" => credential[a] # None
    BY DEF call
  <2> QED
    BY <1>1, <1>2, <1>4, <1>6, <2>1 DEF AgentInv, ReplyInv, Owns, registry, Calls
<1> QED
  BY <1>1, <1>6, <1>7, <1>8, OneAgent

LEMMA SaveKeepsAgentsInv ==
  ASSUME AgentsInv, NEW a \in Agents, Save(a)
  PROVE  AgentsInv'
<1> DEFINE dev == reply[a].dev
<1>1. UNCHANGED <<registry, faults>> /\ pc[a] = "save" /\ Send(a, "heartbeat", dev) /\ Read(a)
  BY DEF Save
<1>2. /\ dev \in DeviceIds /\ Owns(a, dev)
      /\ disk[a] # None => disk[a] = dev
  BY <1>1, StoredStays
<1> HIDE DEF dev
<1>3. /\ disk' = [disk EXCEPT ![a] = dev]
      /\ credential' = [credential EXCEPT ![a] = dev]
      /\ reply' = [reply EXCEPT ![a] = None]
  BY DEF Save, Read, dev
<1>4. disk'[a] = dev /\ credential'[a] = dev /\ reply'[a] = None
  BY <1>3 DEF AgentsInv, AgentTypeOK
<1>5. dev # None
  BY <1>2, ConstantsAssumption
<1>6. /\ pc' \in [Agents -> Labels] /\ wire' \subseteq Request
      /\ pc'[a] = "heartbeat"
      /\ \A b \in Agents \ {a} : pc'[b] = pc[b]
      /\ \A m \in wire' : m.from # a => m \in wire
      /\ \A m \in wire' : m.from = a => RequestInv(m)'
  BY <1>1, <1>2, <1>4, <1>5, SendsRequest DEF Calls
<1>7. AgentTypeOK'
  <2>1. TypeOK'
    BY <1>1 DEF AgentsInv, AgentTypeOK, TypeOK, registry
  <2>2. /\ disk' \in [Agents -> DeviceIds \cup {None}]
        /\ credential' \in [Agents -> DeviceIds \cup {None}]
        /\ reply' \in [Agents -> Answer \cup {None}]
    BY <1>2, <1>3 DEF AgentsInv, AgentTypeOK
  <2> QED
    BY <1>1, <1>6, <2>1, <2>2 DEF AgentsInv, AgentTypeOK
<1>8. AgentInv(a)' /\ ReplyInv(a)'
  BY <1>1, <1>2, <1>4, <1>5, <1>6 DEF AgentInv, ReplyInv, Owns, registry
<1>9. \A b \in Agents \ {a} : /\ credential'[b] = credential[b]
                              /\ disk'[b] = disk[b] /\ reply'[b] = reply[b]
  BY <1>3 DEF AgentsInv, AgentTypeOK
<1> QED
  BY <1>1, <1>6, <1>7, <1>8, <1>9, OneAgent

LEMMA CollectKeepsAgentsInv ==
  ASSUME AgentsInv, NEW a \in Agents, Collect(a)
  PROVE  AgentsInv'
<1>1. /\ UNCHANGED <<registry, credential, disk, reply, faults>> /\ pc[a] = "collect"
      /\ Send(a, "inventory", credential[a])
  BY DEF Collect
<1>2. AgentInv(a) /\ ReplyInv(a) /\ reply[a] = None
  BY <1>1 DEF AgentsInv, AgentInv, Calls
<1>3. /\ credential[a] \in DeviceIds \cup {None}
      /\ credential[a] # None /\ credential[a] = disk[a]
  BY <1>1, <1>2 DEF AgentsInv, AgentTypeOK, AgentInv
<1>4. /\ pc' \in [Agents -> Labels] /\ wire' \subseteq Request
      /\ pc'[a] = "inventory"
      /\ \A b \in Agents \ {a} : pc'[b] = pc[b]
      /\ \A m \in wire' : m.from # a => m \in wire
      /\ \A m \in wire' : m.from = a => RequestInv(m)'
  BY <1>1, <1>2, <1>3, SendsRequest DEF Calls
<1>5. AgentTypeOK'
  BY <1>1, <1>4 DEF AgentsInv, AgentTypeOK, TypeOK, registry
<1>6. AgentInv(a)' /\ ReplyInv(a)'
  BY <1>1, <1>2, <1>4 DEF AgentInv, ReplyInv, Owns, registry
<1> QED
  BY <1>1, <1>4, <1>5, <1>6, OneAgent

\* Whatever goes wrong, the agent waits for nothing afterwards, and its disk holds
\* what it held or the credential that was just made.
LEMMA FaultsKeepAgentsInv ==
  ASSUME AgentsInv, NEW a \in Agents, ConnectionBreaks(a) \/ OtherException(a) \/ Stop(a)
  PROVE  AgentsInv'
<1>1. /\ UNCHANGED registry /\ GiveUp(a)
      /\ \E label \in {"cycle", "off"} : Goto(a, label)
      /\ \/ UNCHANGED credential
         \/ credential' = [credential EXCEPT ![a] = None]
      /\ \/ UNCHANGED disk
         \/ pc[a] = "save" /\ disk' = [disk EXCEPT ![a] = reply[a].dev]
      /\ pc[a] = "save" => credential'[a] = None
  BY DEF ConnectionBreaks, OtherException, Stop, Calls, AgentsInv, AgentTypeOK
<1>2. \E kind \in FaultKinds : Fault(kind)
  BY DEF ConnectionBreaks, OtherException, Stop, FaultKinds
<1>3. /\ disk' \in [Agents -> DeviceIds \cup {None}]
      /\ disk[a] # None => disk'[a] = disk[a]
      /\ disk'[a] # None => Owns(a, disk'[a])
      /\ \A b \in Agents \ {a} : disk'[b] = disk[b]
  <2>1. CASE UNCHANGED disk
    BY <2>1 DEF AgentsInv, AgentTypeOK, AgentInv
  <2>2. CASE pc[a] = "save" /\ disk' = [disk EXCEPT ![a] = reply[a].dev]
    <3>1. /\ reply[a].dev \in DeviceIds /\ Owns(a, reply[a].dev)
          /\ disk[a] # None => disk[a] = reply[a].dev
      BY <2>2, StoredStays
    <3> QED
      BY <2>2, <3>1 DEF AgentsInv, AgentTypeOK
  <2> QED
    BY <1>1, <2>1, <2>2
<1>4. /\ wire' \subseteq Request
      /\ \A m \in wire' : m.from # a => m \in wire
      /\ \A m \in wire' : m.from = a => RequestInv(m)'
      /\ reply' = [reply EXCEPT ![a] = None]
      /\ reply' \in [Agents -> Answer \cup {None}]
  BY <1>1, <1>3, GivesUp
<1>5. /\ pc' \in [Agents -> Labels] /\ pc'[a] \in {"cycle", "off"}
      /\ credential' \in [Agents -> DeviceIds \cup {None}]
      /\ credential'[a] # None => credential'[a] = disk'[a]
      /\ reply'[a] = None
      /\ \A b \in Agents \ {a} : /\ pc'[b] = pc[b] /\ credential'[b] = credential[b]
                                 /\ reply'[b] = reply[b]
  BY <1>1, <1>3, <1>4 DEF Goto, AgentsInv, AgentTypeOK, AgentInv, Labels
<1>6. faults' \in [FaultKinds -> Nat]
  BY <1>2 DEF Fault, AgentsInv, AgentTypeOK
<1>7. AgentTypeOK'
  <2>1. TypeOK'
    BY <1>1 DEF AgentsInv, AgentTypeOK, TypeOK, registry
  <2> QED
    BY <1>3, <1>4, <1>5, <1>6, <2>1 DEF AgentTypeOK
<1>8. AgentInv(a)' /\ ReplyInv(a)'
  BY <1>1, <1>3, <1>5 DEF AgentInv, ReplyInv, Owns, registry
<1> QED
  BY <1>1, <1>3, <1>4, <1>5, <1>7, <1>8, OneAgent

-----------------------------------------------------------------------------
(* The steps of the API keep AgentsInv. *)

\* A token that was consumed stays consumed, and devices are never deleted.
LEMMA OwnsStays ==
  ASSUME TypeOK, [Next]_vars, NEW a \in Agents, NEW e \in DeviceIds, Owns(a, e)
  PROVE  Owns(a, e)'
<1> DEFINE own == TokenOf[a]
<1>1. /\ own \in Tokens /\ tokens[own].usedBy = e /\ e # None
      /\ devices[e].enrolled
  BY AgentsAssumption, ConstantsAssumption DEF Owns
<1> SUFFICES tokens'[own].usedBy = e /\ devices'[e].enrolled
  BY DEF Owns
<1> HIDE DEF own
<1> USE <1>1 DEF TypeOK, Token, Device
<1>2. ASSUME NEW tk \in Tokens, NEW ttl \in TTLs, IssueToken(tk, ttl)
      PROVE  tokens'[own].usedBy = e /\ devices'[e].enrolled
  BY <1>2 DEF IssueToken
<1>3. ASSUME NEW tk \in Tokens, NEW serial \in Serials \cup {None}, NEW t \in 0 .. now,
             NEW d \in DeviceIds, Enroll(tk, serial, t, d)
      PROVE  tokens'[own].usedBy = e /\ devices'[e].enrolled
  BY <1>3 DEF Enroll, ValidToken, NewDevice
<1>4. ASSUME NEW d \in DeviceIds, NEW observed \in 0 .. now + Skew, Heartbeat(d, observed)
      PROVE  tokens'[own].usedBy = e /\ devices'[e].enrolled
  BY <1>4 DEF Heartbeat
<1>5. ASSUME NEW d \in DeviceIds, Revoke(d)
      PROVE  tokens'[own].usedBy = e /\ devices'[e].enrolled
  BY <1>5 DEF Revoke
<1>6. CASE UNCHANGED <<tokens, devices>>
  BY <1>6
<1> QED
  BY <1>2, <1>3, <1>4, <1>5, <1>6 DEF Next, vars, Submit, Tick

\* What the API does with a request is a step of the registry, a success is
\* answered with the device made or the one the credential is of, and an
\* enrollment makes no other device.
LEMMA Executed ==
  ASSUME AgentsInv, NEW m \in wire, Execute(m)
  PROVE  /\ [Next]_vars
         /\ \E answer \in Answer :
              /\ Respond(m, answer)
              /\ answer.ok <=> answer.dev # None
              /\ answer.ok /\ m.call = "enroll" => Owns(m.from, answer.dev)'
              /\ answer.ok /\ m.call # "enroll" => answer.dev = m.dev
              /\ \A d \in DeviceIds :
                   devices'[d].enrolled =>
                     devices[d].enrolled \/ (m.call = "enroll" /\ d = answer.dev)
<1>1. /\ m \in Request /\ RequestInv(m) /\ TypeOK
      /\ now \in 0 .. now /\ now \in 0 .. now + Skew
  BY ConstantsAssumption DEF AgentsInv, AgentTypeOK, TypeOK
<1>2. ASSUME Refuse(m)
      PROVE  /\ UNCHANGED <<vars, devices>>
             /\ \E answer \in Answer : /\ Respond(m, answer)
                                       /\ ~ answer.ok /\ answer.dev = None
  <2> DEFINE refusal == [ok |-> FALSE, dev |-> None]
  <2>1. refusal \in Answer /\ ~ refusal.ok /\ refusal.dev = None
    BY DEF Answer
  <2>2. UNCHANGED registry /\ Respond(m, refusal)
    BY <1>2 DEF Refuse
  <2>3. UNCHANGED <<vars, devices>>
    BY <2>2 DEF registry, vars
  <2> HIDE DEF refusal
  <2> QED
    BY <2>1, <2>2, <2>3
<1>3. ASSUME NEW d \in DeviceIds
      PROVE  [ok |-> TRUE, dev |-> d] \in Answer /\ d # None
  BY ConstantsAssumption DEF Answer
<1>4. CASE ExecuteEnroll(m)
  <2>1. ASSUME NEW d \in DeviceIds, Enroll(TokenOf[m.from], SerialOf[m.from], now, d)
        PROVE  /\ Next /\ Owns(m.from, d)'
               /\ \A e \in DeviceIds : devices'[e].enrolled => devices[e].enrolled \/ e = d
    <3>1. TokenOf[m.from] \in Tokens /\ SerialOf[m.from] \in Serials \cup {None}
      BY <1>1, AgentsAssumption DEF Request
    <3>2. Next
      BY <1>1, <2>1, <3>1 DEF Next
    <3>3. Owns(m.from, d)'
      BY <1>1, <2>1, <3>1 DEF Enroll, Owns, NewDevice, TypeOK, Token
    <3>4. \A e \in DeviceIds : devices'[e].enrolled => devices[e].enrolled \/ e = d
      BY <1>1, <2>1 DEF Enroll, TypeOK
    <3> QED
      BY <3>2, <3>3, <3>4
  <2>2. m.call = "enroll"
    BY <1>4 DEF ExecuteEnroll
  <2> QED
    BY <1>2, <1>3, <1>4, <2>1, <2>2 DEF ExecuteEnroll
<1>5. CASE ExecuteHeartbeat(m)
  <2>1. m.dev \in DeviceIds /\ m.call # "enroll"
    BY <1>1, <1>5 DEF ExecuteHeartbeat, RequestInv, Request
  <2>2. Heartbeat(m.dev, now) => Next
    BY <1>1, <2>1 DEF Next
  <2>3. Heartbeat(m.dev, now) => \A d \in DeviceIds : devices'[d].enrolled => devices[d].enrolled
    BY <1>1, <2>1 DEF Heartbeat, TypeOK, Device
  <2> QED
    BY <1>2, <1>3, <1>5, <2>1, <2>2, <2>3 DEF ExecuteHeartbeat
<1>6. CASE ExecuteSubmit(m)
  <2>1. m.dev \in DeviceIds /\ m.call # "enroll"
    BY <1>1, <1>6 DEF ExecuteSubmit, RequestInv, Request
  <2>2. \A hash \in Hashes : Submit(m.dev, hash, now) => Next /\ UNCHANGED devices
    BY <1>1, <2>1 DEF Next, Submit
  <2> QED
    BY <1>2, <1>3, <1>6, <2>1, <2>2 DEF ExecuteSubmit
<1> QED
  BY <1>4, <1>5, <1>6 DEF Execute

LEMMA ExecuteKeepsAgentsInv ==
  ASSUME AgentsInv, NEW m \in wire, Execute(m)
  PROVE  AgentsInv'
<1>1. PICK answer \in Answer :
        /\ Respond(m, answer)
        /\ answer.ok <=> answer.dev # None
        /\ answer.ok /\ m.call = "enroll" => Owns(m.from, answer.dev)'
        /\ answer.ok /\ m.call # "enroll" => answer.dev = m.dev
  BY Executed
<1>2. [Next]_vars
  BY Executed
<1>3. /\ m \in Request /\ m.from \in Agents /\ RequestInv(m) /\ TypeOK
      /\ AgentInv(m.from) /\ ReplyInv(m.from)
  BY DEF AgentsInv, AgentTypeOK, Request
<1>4. /\ wire' = wire \ {m}
      /\ UNCHANGED <<pc, credential, disk, faults>>
      /\ reply' = IF m.live THEN [reply EXCEPT ![m.from] = answer] ELSE reply
  BY <1>1 DEF Respond
<1>5. AgentTypeOK'
  BY <1>2, <1>3, <1>4, NextTypeOK DEF AgentsInv, AgentTypeOK
<1>6. ASSUME NEW a \in Agents
      PROVE  AgentInv(a)' /\ ReplyInv(a)'
  <2>1. AgentInv(a) /\ ReplyInv(a)
    BY DEF AgentsInv
  <2>2. \A d \in DeviceIds : Owns(a, d) => Owns(a, d)'
    BY <1>2, <1>3, OwnsStays
  <2>3. disk[a] \in DeviceIds \cup {None} /\ reply[a] \in Answer \cup {None}
    BY DEF AgentsInv, AgentTypeOK
  <2>4. CASE reply'[a] = reply[a]
    BY <1>4, <2>1, <2>2, <2>3, <2>4 DEF AgentInv, ReplyInv, Answer
  <2>5. CASE reply'[a] # reply[a]
    <3>1. /\ a = m.from /\ m.live /\ reply'[a] = answer
          /\ pc[a] = m.call /\ reply[a] = None
      BY <1>3, <1>4, <2>5 DEF AgentsInv, AgentTypeOK, RequestInv
    <3>2. AgentInv(a)'
      BY <1>3, <1>4, <2>1, <2>2, <2>3, <3>1 DEF AgentInv, Request, Calls
    <3>3. ReplyInv(a)'
      BY <1>1, <1>3, <1>4, <3>1 DEF ReplyInv, RequestInv, Request, Calls
    <3> QED
      BY <3>2, <3>3
  <2> QED
    BY <2>4, <2>5
<1>7. ASSUME NEW l \in wire'
      PROVE  RequestInv(l)'
  <2>1. l \in wire /\ l # m /\ l \in Request /\ RequestInv(l)
    BY <1>4 DEF AgentsInv, AgentTypeOK
  <2>2. CASE l.live /\ m.live /\ l.from = m.from
    <3>1. l.call = m.call /\ l.dev = m.dev
      BY <1>3, <2>1, <2>2 DEF RequestInv, Request
    <3>2. l = m
      BY <1>3, <2>1, <2>2, <3>1 DEF Request
    <3> QED
      BY <2>1, <3>2
  <2>3. CASE ~ (l.live /\ m.live /\ l.from = m.from)
    BY <1>3, <1>4, <2>1, <2>3 DEF RequestInv, AgentsInv, AgentTypeOK, Request
  <2> QED
    BY <2>2, <2>3
<1> QED
  BY <1>5, <1>6, <1>7 DEF AgentsInv

LEMMA AdministerIsRegistryStep == Administer => Next
BY DEF Administer, Next

LEMMA AdministerKeepsAgentsInv ==
  ASSUME AgentsInv, Administer
  PROVE  AgentsInv'
<1>1. [Next]_vars /\ TypeOK
  BY AdministerIsRegistryStep DEF AgentsInv, AgentTypeOK
<1>2. UNCHANGED agent
  BY DEF Administer
<1>3. AgentTypeOK'
  BY <1>1, <1>2, NextTypeOK DEF AgentsInv, AgentTypeOK, agent
<1>4. ASSUME NEW a \in Agents
      PROVE  AgentInv(a)' /\ ReplyInv(a)'
  <2>1. AgentInv(a) /\ ReplyInv(a)
    BY DEF AgentsInv
  <2>2. \A d \in DeviceIds : Owns(a, d) => Owns(a, d)'
    BY <1>1, OwnsStays
  <2>3. disk[a] \in DeviceIds \cup {None} /\ reply[a] \in Answer \cup {None}
    BY DEF AgentsInv, AgentTypeOK
  <2> QED
    BY <1>2, <2>1, <2>2, <2>3 DEF AgentInv, ReplyInv, agent, Answer
<1>5. \A m \in wire' : RequestInv(m)'
  BY <1>2 DEF AgentsInv, RequestInv, agent
<1> QED
  BY <1>3, <1>4, <1>5 DEF AgentsInv

LEMMA AgentsInvStep == AgentsInv /\ [AgentNext]_allVars => AgentsInv'
<1> SUFFICES ASSUME AgentsInv, [AgentNext]_allVars PROVE AgentsInv'
  OBVIOUS
<1>1. ASSUME NEW a \in Agents, Work(a)
      PROVE  AgentsInv'
  BY <1>1, QuietStepsKeepAgentsInv, CycleKeepsAgentsInv, SaveKeepsAgentsInv,
     CollectKeepsAgentsInv DEF Work
<1>2. ASSUME NEW a \in Agents, ConnectionBreaks(a) \/ OtherException(a) \/ Stop(a)
      PROVE  AgentsInv'
  BY <1>2, FaultsKeepAgentsInv
<1>3. ASSUME NEW m \in wire, Execute(m)
      PROVE  AgentsInv'
  BY <1>3, ExecuteKeepsAgentsInv
<1>4. CASE Administer
  BY <1>4, AdministerKeepsAgentsInv
<1>5. CASE UNCHANGED allVars
  BY <1>5 DEF allVars, registry, agent, AgentsInv, AgentTypeOK, TypeOK, AgentInv, ReplyInv,
              RequestInv, Owns
<1> QED
  BY <1>1, <1>2, <1>3, <1>4, <1>5 DEF AgentNext

LEMMA AgentsInvHolds == AgentSpec => []AgentsInv
BY InitAgents, AgentsInvStep, PTL DEF AgentSpec

\* Types are right in every reachable state of the agents.
THEOREM AgentTypesCorrect == AgentSpec => []AgentTypeOK
<1>1. AgentsInv => AgentTypeOK
  BY DEF AgentsInv
<1> QED
  BY <1>1, AgentsInvHolds, PTL

\* The credential an agent stored is the one its token was consumed for, however
\* often it enrolled before and whatever answers it lost.
THEOREM CredentialsAreOwn == AgentSpec => []StoredCredentialIsItsOwn
<1>1. AgentsInv => StoredCredentialIsItsOwn
  BY DEF AgentsInv, AgentInv, Owns, StoredCredentialIsItsOwn
<1> QED
  BY <1>1, AgentsInvHolds, PTL

-----------------------------------------------------------------------------
(* The agents' calls are calls of the registry. *)

LEMMA AgentStepIsRegistryStep == AgentsInv /\ [AgentNext]_allVars => [Next]_vars
<1> SUFFICES ASSUME AgentsInv, [AgentNext]_allVars PROVE [Next]_vars
  OBVIOUS
<1>1. ASSUME NEW a \in Agents,
             Work(a) \/ ConnectionBreaks(a) \/ OtherException(a) \/ Stop(a)
      PROVE  UNCHANGED registry
  BY <1>1 DEF Work, Start, Cycle, Enrolled, Save, HeartbeatAccepted, Collect,
              InventoryAccepted, Refused, ConnectionBreaks, OtherException, Stop
<1>2. ASSUME NEW m \in wire, Execute(m)
      PROVE  [Next]_vars
  BY <1>2, Executed
<1>3. CASE Administer
  BY <1>3, AdministerIsRegistryStep
<1>4. UNCHANGED allVars => UNCHANGED registry
  BY DEF allVars
<1>5. UNCHANGED registry => UNCHANGED vars
  BY DEF registry, vars
<1> QED
  BY <1>1, <1>2, <1>3, <1>4, <1>5 DEF AgentNext

\* Whatever the agents and their connections do, the registry sees calls of its
\* own operations only.
THEOREM AgentsUseTheRegistry == AgentSpec => Spec
<1>1. AgentInit => Init
  BY DEF AgentInit
<1> QED
  BY <1>1, AgentsInvHolds, AgentStepIsRegistryStep, PTL DEF AgentSpec, Spec

\* Lost answers, late requests and repeated enrollments do not make a token buy a
\* second device.
THEOREM AgentsBuyOneDevice == AgentSpec => []OneDevicePerToken
BY AgentsUseTheRegistry, TokensBuyOneDevice, PTL

-----------------------------------------------------------------------------
(* Devices whose credential nobody has come from faults. *)

LEMMA NoMore ==
  ASSUME NEW S, NEW T, IsFiniteSet(S), T \subseteq S
  PROVE  /\ IsFiniteSet(T) /\ Cardinality(T) \in Nat /\ Cardinality(S) \in Nat
         /\ Cardinality(T) <= Cardinality(S)
BY FS_Subset, FS_CardinalityType

LEMMA OneMore ==
  ASSUME NEW S, NEW T, NEW x, IsFiniteSet(S), T \subseteq S \cup {x}
  PROVE  /\ IsFiniteSet(T) /\ Cardinality(T) \in Nat /\ Cardinality(S) \in Nat
         /\ Cardinality(T) <= Cardinality(S) + 1
<1>1. /\ IsFiniteSet(S \cup {x}) /\ Cardinality(S) \in Nat
      /\ Cardinality(S \cup {x}) <= Cardinality(S) + 1
  <2>1. /\ IsFiniteSet(S \cup {x})
        /\ Cardinality(S \cup {x}) = IF x \in S THEN Cardinality(S) ELSE Cardinality(S) + 1
    BY FS_AddElement
  <2>2. Cardinality(S) \in Nat
    BY FS_CardinalityType
  <2> QED
    BY <2>1, <2>2
<1>2. /\ IsFiniteSet(T) /\ Cardinality(T) \in Nat /\ Cardinality(S \cup {x}) \in Nat
      /\ Cardinality(T) <= Cardinality(S \cup {x})
  BY <1>1, NoMore
<1> QED
  BY <1>1, <1>2

LEMMA OneLess ==
  ASSUME NEW S, NEW x \in S, IsFiniteSet(S)
  PROVE  /\ IsFiniteSet(S \ {x}) /\ Cardinality(S \ {x}) \in Nat /\ Cardinality(S) \in Nat
         /\ Cardinality(S \ {x}) = Cardinality(S) - 1
BY FS_RemoveElement, FS_CardinalityType

\* Some agent has the device's credential, or has an answer that brings it.
Held(d) ==
  \E a \in Agents : disk[a] = d \/ (reply[a] # None /\ reply[a].dev = d)

LEMMA OrphansAreNotHeld == Orphans = {d \in DeviceIds : devices[d].enrolled /\ ~ Held(d)}
BY DEF Orphans, Held

\* A step that enrolls no device and after which no credential is lost.
LEMMA NothingLost ==
  ASSUME FaultsPay, Faults \in Nat, Faults' = Faults,
         \A d \in DeviceIds : devices'[d].enrolled /\ ~ Held(d)' =>
                                devices[d].enrolled /\ ~ Held(d),
         LateEnrollments' \subseteq LateEnrollments
  PROVE  FaultsPay'
<1>1. Orphans' \subseteq Orphans
  BY DEF Orphans, Held
<1>2. /\ IsFiniteSet(Orphans') /\ IsFiniteSet(LateEnrollments')
      /\ Cardinality(Orphans') <= Cardinality(Orphans)
      /\ Cardinality(LateEnrollments') <= Cardinality(LateEnrollments)
      /\ Cardinality(Orphans) \in Nat /\ Cardinality(LateEnrollments) \in Nat
      /\ Cardinality(Orphans') \in Nat /\ Cardinality(LateEnrollments') \in Nat
  BY <1>1, NoMore DEF FaultsPay
<1> QED
  BY <1>2 DEF FaultsPay

LEMMA WorkLosesNothing ==
  ASSUME AgentsInv, NEW a \in Agents, Work(a)
  PROVE  /\ UNCHANGED <<devices, faults>>
         /\ \A d \in DeviceIds : Held(d) => Held(d)'
         /\ LateEnrollments' \subseteq LateEnrollments
<1>1. UNCHANGED <<devices, faults>>
  BY DEF Work, Start, Cycle, Enrolled, Save, HeartbeatAccepted, Collect, InventoryAccepted,
         Refused, registry
<1>2. LateEnrollments' \subseteq LateEnrollments
  BY DEF Work, Start, Cycle, Enrolled, Save, HeartbeatAccepted, Collect, InventoryAccepted,
         Refused, Send, LateEnrollments
<1>3. ASSUME Start(a) \/ Cycle(a) \/ Enrolled(a) \/ Collect(a)
      PROVE  UNCHANGED <<disk, reply>>
  BY <1>3 DEF Start, Cycle, Enrolled, Collect
<1>4. ASSUME Save(a), NEW d \in DeviceIds, Held(d)
      PROVE  Held(d)'
  <2>1. /\ pc[a] = "save" /\ disk' = [disk EXCEPT ![a] = reply[a].dev]
        /\ reply' = [reply EXCEPT ![a] = None]
    BY <1>4 DEF Save, Read
  <2>2. disk[a] # None => disk[a] = reply[a].dev
    BY <2>1, StoredStays
  <2> QED
    BY <1>4, <2>1, <2>2, ConstantsAssumption DEF Held, AgentsInv, AgentTypeOK
<1>5. ASSUME HeartbeatAccepted(a) \/ InventoryAccepted(a) \/ Refused(a),
             NEW d \in DeviceIds, Held(d)
      PROVE  Held(d)'
  <2>1. disk' = disk /\ reply' = [reply EXCEPT ![a] = None] /\ reply[a] # None
    BY <1>5 DEF HeartbeatAccepted, InventoryAccepted, Refused, Accepted, Read
  <2>2. reply[a].dev = disk[a] \/ reply[a].dev = None
    BY <1>5 DEF HeartbeatAccepted, InventoryAccepted, Refused, Accepted, AgentsInv, ReplyInv
  <2> QED
    BY <1>5, <2>1, <2>2, ConstantsAssumption DEF Held, AgentsInv, AgentTypeOK
<1>6. \A d \in DeviceIds : UNCHANGED <<disk, reply>> => (Held(d) => Held(d)')
  BY DEF Held
<1> QED
  BY <1>1, <1>2, <1>3, <1>4, <1>5, <1>6 DEF Work

\* A fault either loses the answer of a request that was executed or leaves behind
\* a request that is executed later.
LEMMA FaultPays ==
  ASSUME AgentsInv, FaultsPay, NEW a \in Agents,
         ConnectionBreaks(a) \/ OtherException(a) \/ Stop(a)
  PROVE  FaultsPay'
<1>1. /\ UNCHANGED devices /\ GiveUp(a)
      /\ reply' = [reply EXCEPT ![a] = None]
      /\ \/ UNCHANGED disk
         \/ pc[a] = "save" /\ disk' = [disk EXCEPT ![a] = reply[a].dev]
  BY DEF ConnectionBreaks, OtherException, Stop, registry, GiveUp, Read
<1>2. Faults \in Nat /\ Faults' = Faults + 1
  <2>1. PICK kind \in FaultKinds : Fault(kind)
    BY DEF ConnectionBreaks, OtherException, Stop, FaultKinds
  <2> QED
    BY <2>1 DEF Fault, FaultKinds, Faults, AgentsInv, AgentTypeOK
<1>3. \A d \in DeviceIds : Held(d) => Held(d)' \/ (reply[a] # None /\ d = reply[a].dev)
  <2>1. pc[a] = "save" => (disk[a] # None => disk[a] = reply[a].dev)
    BY StoredStays
  <2> QED
    BY <1>1, <2>1, ConstantsAssumption DEF Held, AgentsInv, AgentTypeOK
<1>4. CASE reply[a] = None
  <2>1. Orphans' \subseteq Orphans
    BY <1>1, <1>3, <1>4 DEF Orphans, Held
  <2>2. LateEnrollments' \subseteq
          LateEnrollments \cup {[call |-> "enroll", from |-> a, dev |-> None, live |-> FALSE]}
    <3> DEFINE late == [call |-> "enroll", from |-> a, dev |-> None, live |-> FALSE]
    <3>1. ASSUME NEW m \in Live(a), [m EXCEPT !.live = FALSE].call = "enroll"
          PROVE  [m EXCEPT !.live = FALSE] = late
      <4> DEFINE n == [m EXCEPT !.live = FALSE]
      <4>1. m \in Request /\ m.from = a /\ RequestInv(m)
        BY DEF Live, AgentsInv, AgentTypeOK
      <4>2. /\ n \in [call : Calls, from : Agents, dev : DeviceIds \cup {None}, live : BOOLEAN]
            /\ n.call = m.call /\ n.from = m.from /\ n.dev = m.dev /\ n.live = FALSE
        BY <4>1 DEF Request
      <4>3. n.call = "enroll" /\ n.dev = None
        BY <3>1, <4>1, <4>2 DEF RequestInv
      <4> HIDE DEF n
      <4>4. n = late
        BY <4>1, <4>2, <4>3
      <4> QED
        BY <4>4 DEF n
    <3> HIDE DEF late
    <3>2. ASSUME NEW m \in wire', m.call = "enroll", ~ m.live
          PROVE  m = late \/ m \in wire
      <4>1. CASE \E l \in Live(a) : m = [l EXCEPT !.live = FALSE]
        BY <3>1, <3>2, <4>1
      <4>2. CASE m \in wire
        BY <4>2
      <4> QED
        BY <1>1, <4>1, <4>2 DEF GiveUp
    <3>3. LateEnrollments' \subseteq LateEnrollments \cup {late}
      BY <3>2 DEF LateEnrollments
    <3> QED
      BY <3>3 DEF late
  <2>3. /\ IsFiniteSet(Orphans') /\ IsFiniteSet(LateEnrollments')
        /\ Cardinality(Orphans') <= Cardinality(Orphans)
        /\ Cardinality(LateEnrollments') <= Cardinality(LateEnrollments) + 1
        /\ Cardinality(Orphans) \in Nat /\ Cardinality(LateEnrollments) \in Nat
        /\ Cardinality(Orphans') \in Nat /\ Cardinality(LateEnrollments') \in Nat
    BY <2>1, <2>2, NoMore, OneMore DEF FaultsPay
  <2> QED
    BY <1>2, <2>3 DEF FaultsPay
<1>5. CASE reply[a] # None
  <2>1. Orphans' \subseteq Orphans \cup {reply[a].dev}
    BY <1>1, <1>3, OrphansAreNotHeld DEF Orphans, Held
  <2>2. Live(a) = {}
    BY <1>5 DEF Live, AgentsInv, RequestInv
  <2>3. LateEnrollments' \subseteq LateEnrollments
    BY <1>1, <2>2 DEF GiveUp, LateEnrollments
  <2>4. /\ IsFiniteSet(Orphans') /\ IsFiniteSet(LateEnrollments')
        /\ Cardinality(Orphans') <= Cardinality(Orphans) + 1
        /\ Cardinality(LateEnrollments') <= Cardinality(LateEnrollments)
        /\ Cardinality(Orphans) \in Nat /\ Cardinality(LateEnrollments) \in Nat
        /\ Cardinality(Orphans') \in Nat /\ Cardinality(LateEnrollments') \in Nat
    BY <2>1, <2>3, NoMore, OneMore DEF FaultsPay
  <2> QED
    BY <1>2, <2>4 DEF FaultsPay
<1> QED
  BY <1>4, <1>5

\* A device made for a late enrollment was paid for when its agent gave up.
LEMMA ExecuteKeepsFaultsPay ==
  ASSUME AgentsInv, FaultsPay, NEW m \in wire, Execute(m)
  PROVE  FaultsPay'
<1>1. PICK answer \in Answer :
        /\ Respond(m, answer)
        /\ \A d \in DeviceIds :
             devices'[d].enrolled => devices[d].enrolled \/ (m.call = "enroll" /\ d = answer.dev)
  BY Executed
<1>2. m \in Request /\ RequestInv(m) /\ m.from \in Agents
  BY DEF AgentsInv, AgentTypeOK, Request
<1>3. /\ wire' = wire \ {m}
      /\ UNCHANGED <<disk, faults>>
      /\ reply' = IF m.live THEN [reply EXCEPT ![m.from] = answer] ELSE reply
  BY <1>1 DEF Respond
<1>4. Faults \in Nat /\ Faults' = Faults
  BY <1>3 DEF Faults, FaultKinds, AgentsInv, AgentTypeOK
<1>5. \A d \in DeviceIds : Held(d) => Held(d)'
  BY <1>2, <1>3 DEF Held, RequestInv, AgentsInv, AgentTypeOK
<1>6. CASE m.live \/ m.call # "enroll"
  <2>1. LateEnrollments' \subseteq LateEnrollments
    BY <1>3 DEF LateEnrollments
  <2>2. ASSUME m.live
        PROVE  Held(answer.dev)'
    <3>1. reply'[m.from] = answer /\ answer # None
      BY <1>2, <1>3, <2>2, AnswersAssumption DEF AgentsInv, AgentTypeOK
    <3> QED
      BY <1>2, <3>1 DEF Held
  <2>3. \A d \in DeviceIds : devices'[d].enrolled /\ ~ Held(d)' =>
                               devices[d].enrolled /\ ~ Held(d)
    BY <1>1, <1>5, <1>6, <2>2
  <2> QED
    BY <1>4, <2>1, <2>3, NothingLost
<1>7. CASE m.call = "enroll" /\ ~ m.live
  <2>1. m \in LateEnrollments /\ LateEnrollments' = LateEnrollments \ {m}
    BY <1>3, <1>7 DEF LateEnrollments
  <2>2. Orphans' \subseteq Orphans \cup {answer.dev}
    BY <1>1, <1>5 DEF Orphans, Held
  <2>3. /\ IsFiniteSet(Orphans') /\ IsFiniteSet(LateEnrollments')
        /\ Cardinality(Orphans') <= Cardinality(Orphans) + 1
        /\ Cardinality(LateEnrollments') = Cardinality(LateEnrollments) - 1
        /\ Cardinality(Orphans) \in Nat /\ Cardinality(LateEnrollments) \in Nat
        /\ Cardinality(Orphans') \in Nat /\ Cardinality(LateEnrollments') \in Nat
    BY <2>1, <2>2, OneMore, OneLess DEF FaultsPay
  <2> QED
    BY <1>4, <2>3 DEF FaultsPay
<1> QED
  BY <1>6, <1>7

LEMMA AdministerKeepsFaultsPay ==
  ASSUME AgentsInv, FaultsPay, Administer
  PROVE  FaultsPay'
<1>1. UNCHANGED agent
  BY DEF Administer
<1>2. \A d \in DeviceIds : devices'[d].enrolled = devices[d].enrolled
  BY DEF Administer, IssueToken, Revoke, Tick, AgentsInv, AgentTypeOK, TypeOK, Device
<1>3. Faults \in Nat /\ Faults' = Faults
  BY <1>1 DEF Faults, FaultKinds, AgentsInv, AgentTypeOK, agent
<1>4. \A d \in DeviceIds : Held(d)' <=> Held(d)
  BY <1>1 DEF Held, agent
<1>5. LateEnrollments' = LateEnrollments
  BY <1>1 DEF LateEnrollments, agent
<1> QED
  BY <1>2, <1>3, <1>4, <1>5, NothingLost

\* A device whose credential nobody has comes from a fault, and each fault leaves at
\* most one behind: retries of an enrollment add none.
THEOREM OrphansArePaidFor == AgentSpec => []OrphansComeFromFaults
<1>1. AgentInit => FaultsPay
  <2> SUFFICES ASSUME AgentInit PROVE FaultsPay
    OBVIOUS
  <2>1. Orphans = {} /\ LateEnrollments = {}
    BY DEF AgentInit, Init, NoDevice, Orphans, LateEnrollments
  <2>2. Faults = 0
    BY DEF AgentInit, Faults, FaultKinds
  <2> QED
    BY <2>1, <2>2, FS_EmptySet DEF FaultsPay
<1>2. AgentsInv /\ FaultsPay /\ [AgentNext]_allVars => FaultsPay'
  <2> SUFFICES ASSUME AgentsInv, FaultsPay, [AgentNext]_allVars PROVE FaultsPay'
    OBVIOUS
  <2>1. ASSUME NEW a \in Agents, Work(a)
        PROVE  FaultsPay'
    <3>1. /\ UNCHANGED <<devices, faults>>
          /\ \A d \in DeviceIds : Held(d) => Held(d)'
          /\ LateEnrollments' \subseteq LateEnrollments
      BY <2>1, WorkLosesNothing
    <3>2. Faults \in Nat /\ Faults' = Faults
      BY <3>1 DEF Faults, FaultKinds, AgentsInv, AgentTypeOK
    <3> QED
      BY <3>1, <3>2, NothingLost
  <2>2. ASSUME NEW a \in Agents, ConnectionBreaks(a) \/ OtherException(a) \/ Stop(a)
        PROVE  FaultsPay'
    BY <2>2, FaultPays
  <2>3. ASSUME NEW m \in wire, Execute(m)
        PROVE  FaultsPay'
    BY <2>3, ExecuteKeepsFaultsPay
  <2>4. CASE Administer
    BY <2>4, AdministerKeepsFaultsPay
  <2>5. CASE UNCHANGED allVars
    BY <2>5 DEF allVars, registry, agent, FaultsPay, Orphans, LateEnrollments, Faults
  <2> QED
    BY <2>1, <2>2, <2>3, <2>4, <2>5 DEF AgentNext
<1>3. AgentsInv /\ FaultsPay => OrphansComeFromFaults
  <2> SUFFICES ASSUME AgentsInv, FaultsPay PROVE OrphansComeFromFaults
    OBVIOUS
  <2>1. /\ Cardinality(Orphans) \in Nat /\ Cardinality(LateEnrollments) \in Nat
    BY FS_CardinalityType DEF FaultsPay
  <2>2. Faults \in Nat
    BY DEF Faults, FaultKinds, AgentsInv, AgentTypeOK
  <2>3. Cardinality(Orphans) <= Faults
    BY <2>1, <2>2 DEF FaultsPay
  <2> QED
    BY <2>3 DEF OrphansComeFromFaults, Faults
<1> QED
  BY <1>1, <1>2, <1>3, AgentsInvHolds, PTL DEF AgentSpec
=============================================================================
