------------------------------ MODULE WindowsAgent ------------------------------
(***************************************************************************)
(* The Windows service (Worker.cs) and its calls of the API: agents that   *)
(* load their credential, enroll with a one-time token, send a heartbeat   *)
(* and an inventory snapshot, and start over, against the operations of    *)
(* DeviceRegistry.                                                         *)
(*                                                                         *)
(* A call can go wrong in two ways that the service tells apart.  When the *)
(* API refuses it or its connection breaks, HttpClient throws an           *)
(* HttpRequestException.  When no answer comes within 20 s it throws a     *)
(* TaskCanceledException, which the service treats like any other          *)
(* exception: it forgets its credential.  Either way the request may still *)
(* be on its way, and the API may execute it later.                        *)
(***************************************************************************)
EXTENDS DeviceRegistry, FiniteSets

CONSTANTS
  Agents,         \* machines on which the service is installed
  TokenOf,        \* the enrollment token in each agent's appsettings.json
  SerialOf,       \* the serial number in each agent's appsettings.json
  MaxBreaks,      \* bound on broken connections
  MaxExceptions,  \* bound on timeouts and other exceptions of a cycle
  MaxStops        \* bound on stops of the service

ASSUME AgentsAssumption ==
  /\ TokenOf \in [Agents -> Tokens]
  /\ SerialOf \in [Agents -> Serials \cup {None}]

VARIABLES
  pc,          \* what each agent does next
  credential,  \* the local variable of ExecuteAsync
  disk,        \* the credential in the protected file
  wire,        \* requests that are on their way to the API
  reply,       \* the answer on its way to each agent
  faults       \* how often each kind of fault happened

agent == <<pc, credential, disk, wire, reply, faults>>
registry == <<tokens, devices, snapshots, now>>
allVars == <<registry, agent>>

-----------------------------------------------------------------------------

\* "enroll", "heartbeat" and "inventory" wait for the answer of that call.
Calls == {"enroll", "heartbeat", "inventory"}
Labels == {"off", "cycle", "save", "collect"} \cup Calls

\* A request is live while its agent waits for the answer.
Request == [call : Calls, from : Agents, dev : DeviceIds \cup {None}, live : BOOLEAN]

Answer == [ok : BOOLEAN, dev : DeviceIds \cup {None}]

\* None stands for an answer that is missing.
ASSUME AnswersAssumption == None \notin Answer

FaultKinds == {"breaks", "exceptions", "stops"}
Bound == [breaks |-> MaxBreaks, exceptions |-> MaxExceptions, stops |-> MaxStops]

AgentInit ==
  /\ Init
  /\ pc = [a \in Agents |-> "off"]
  /\ credential = [a \in Agents |-> None]
  /\ disk = [a \in Agents |-> None]
  /\ wire = {}
  /\ reply = [a \in Agents |-> None]
  /\ faults = [k \in FaultKinds |-> 0]

-----------------------------------------------------------------------------
(* The service: steps of ExecuteAsync. *)

Goto(a, label) == pc' = [pc EXCEPT ![a] = label]

Send(a, call, dev) ==
  /\ wire' = wire \cup {[call |-> call, from |-> a, dev |-> dev, live |-> TRUE]}
  /\ Goto(a, call)

\* The agent reads its answer.
Read(a) == reply' = [reply EXCEPT ![a] = None]

\* The service starts and loads the credential it stored, if any.
Start(a) ==
  /\ pc[a] = "off"
  /\ credential' = [credential EXCEPT ![a] = disk[a]]
  /\ Goto(a, "cycle")
  /\ UNCHANGED <<registry, disk, wire, reply, faults>>

\* A cycle, which begins after the delay that ended the last one: the agent
\* enrolls if it has no credential.
Cycle(a) ==
  /\ pc[a] = "cycle"
  /\ IF credential[a] = None THEN Send(a, "enroll", None)
                             ELSE Send(a, "heartbeat", credential[a])
  /\ UNCHANGED <<registry, credential, disk, reply, faults>>

Accepted(a, call) == pc[a] = call /\ reply[a] # None /\ reply[a].ok

Enrolled(a) ==
  /\ Accepted(a, "enroll")
  /\ Goto(a, "save")
  /\ UNCHANGED <<registry, credential, disk, wire, reply, faults>>

\* A slip: the credential is used and never stored.
KeepInMemory(a) ==
  /\ pc[a] = "save"
  /\ credential' = [credential EXCEPT ![a] = reply[a].dev]
  /\ Send(a, "heartbeat", reply[a].dev)
  /\ Read(a)
  /\ UNCHANGED <<registry, disk, faults>>

\* The new credential is stored, then used.
Save(a) ==
  /\ pc[a] = "save"
  /\ disk' = [disk EXCEPT ![a] = reply[a].dev]
  /\ credential' = [credential EXCEPT ![a] = reply[a].dev]
  /\ Send(a, "heartbeat", reply[a].dev)
  /\ Read(a)
  /\ UNCHANGED <<registry, faults>>

HeartbeatAccepted(a) ==
  /\ Accepted(a, "heartbeat")
  /\ Goto(a, "collect")
  /\ Read(a)
  /\ UNCHANGED <<registry, credential, disk, wire, faults>>

Collect(a) ==
  /\ pc[a] = "collect"
  /\ Send(a, "inventory", credential[a])
  /\ UNCHANGED <<registry, credential, disk, reply, faults>>

InventoryAccepted(a) ==
  /\ Accepted(a, "inventory")
  /\ Goto(a, "cycle")
  /\ Read(a)
  /\ UNCHANGED <<registry, credential, disk, wire, faults>>

\* The API refuses a call: HttpRequestException, the credential is kept.
Refused(a) ==
  /\ pc[a] \in Calls /\ reply[a] # None /\ ~ reply[a].ok
  /\ Goto(a, "cycle")
  /\ Read(a)
  /\ UNCHANGED <<registry, credential, disk, wire, faults>>

-----------------------------------------------------------------------------
(* Faults *)

Fault(kind) ==
  /\ faults[kind] < Bound[kind]
  /\ faults' = [faults EXCEPT ![kind] = @ + 1]

Live(a) == {m \in wire : m.from = a /\ m.live}

\* The agent no longer waits: its answer is lost, and its request is lost or
\* executed later.
GiveUp(a) ==
  /\ Read(a)
  /\ \/ wire' = wire \ Live(a)
     \/ wire' = (wire \ Live(a)) \cup {[m EXCEPT !.live = FALSE] : m \in Live(a)}

\* A slip: a broken connection is treated like a timeout.
ConnectionBreaksForgetting(a) ==
  /\ pc[a] \in Calls
  /\ Fault("breaks")
  /\ GiveUp(a)
  /\ credential' = [credential EXCEPT ![a] = None]
  /\ Goto(a, "cycle")
  /\ UNCHANGED <<registry, disk>>

\* HttpRequestException: the credential is kept.
ConnectionBreaks(a) ==
  /\ pc[a] \in Calls
  /\ Fault("breaks")
  /\ GiveUp(a)
  /\ Goto(a, "cycle")
  /\ UNCHANGED <<registry, credential, disk>>

\* Any other exception: the credential is forgotten.  It may be a timeout of a
\* call, a failure of the inventory collection, or one of storing the credential,
\* before or after the file was replaced.
OtherException(a) ==
  /\ pc[a] \in Calls \cup {"save", "collect"}
  /\ Fault("exceptions")
  /\ GiveUp(a)
  /\ credential' = [credential EXCEPT ![a] = None]
  /\ \/ UNCHANGED disk
     \/ pc[a] = "save" /\ disk' = [disk EXCEPT ![a] = reply[a].dev]
  /\ Goto(a, "cycle")
  /\ UNCHANGED registry

\* The service or its machine stops.
Stop(a) ==
  /\ pc[a] # "off"
  /\ Fault("stops")
  /\ GiveUp(a)
  /\ credential' = [credential EXCEPT ![a] = None]
  /\ Goto(a, "off")
  /\ UNCHANGED <<registry, disk>>

-----------------------------------------------------------------------------
(* The API: a request is executed as a whole and answered. *)

Respond(m, answer) ==
  /\ wire' = wire \ {m}
  /\ reply' = IF m.live THEN [reply EXCEPT ![m.from] = answer] ELSE reply
  /\ UNCHANGED <<pc, credential, disk, faults>>

\* A slip: the answer is not an answer of the API's.
RefuseWithoutBody(m) == UNCHANGED registry /\ Respond(m, [ok |-> FALSE])

Refuse(m) == UNCHANGED registry /\ Respond(m, [ok |-> FALSE, dev |-> None])

\* A slip: enrolling again with the same token gives a new credential.
EnrollAnew(m) ==
  /\ m.call = "enroll"
  /\ \E d \in DeviceIds :
       /\ ~ devices[d].enrolled
       /\ devices' = [devices EXCEPT ![d] = NewDevice(SerialOf[m.from], now)]
       /\ tokens' = [tokens EXCEPT ![TokenOf[m.from]].usedBy = d]
       /\ UNCHANGED <<snapshots, now>>
       /\ Respond(m, [ok |-> TRUE, dev |-> d])

ExecuteEnroll(m) ==
  /\ m.call = "enroll"
  /\ IF ValidToken(TokenOf[m.from], now) /\ ~ SerialTaken(SerialOf[m.from])
     THEN \E d \in DeviceIds :
            /\ Enroll(TokenOf[m.from], SerialOf[m.from], now, d)
            /\ Respond(m, [ok |-> TRUE, dev |-> d])
     ELSE Refuse(m)

Authentic(m) == devices[m.dev].enrolled /\ devices[m.dev].revoked = None

ExecuteHeartbeat(m) ==
  /\ m.call = "heartbeat"
  /\ IF Authentic(m)
     THEN Heartbeat(m.dev, now) /\ Respond(m, [ok |-> TRUE, dev |-> m.dev])
     ELSE Refuse(m)

ExecuteSubmit(m) ==
  /\ m.call = "inventory"
  /\ IF Authentic(m)
     THEN \E hash \in Hashes : /\ Submit(m.dev, hash, now)
                               /\ Respond(m, [ok |-> TRUE, dev |-> m.dev])
     ELSE Refuse(m)

Execute(m) == ExecuteEnroll(m) \/ ExecuteHeartbeat(m) \/ ExecuteSubmit(m)

-----------------------------------------------------------------------------

Work(a) ==
  \/ Start(a) \/ Cycle(a)
  \/ Enrolled(a) \/ Save(a) \/ HeartbeatAccepted(a) \/ Collect(a) \/ InventoryAccepted(a)
  \/ Refused(a)

Administer ==
  /\ \/ \E tk \in Tokens, ttl \in TTLs : IssueToken(tk, ttl)
     \/ \E d \in DeviceIds : Revoke(d)
     \/ Tick
  /\ UNCHANGED agent

AgentNext ==
  \/ \E a \in Agents :
       Work(a) \/ ConnectionBreaks(a) \/ OtherException(a) \/ Stop(a)
  \/ \E m \in wire : Execute(m)
  \/ Administer

(***************************************************************************)
(* The service runs again after a stop (start= auto), its loop goes on,    *)
(* and the API executes the request an agent waits for.                    *)
(***************************************************************************)
AgentFairness ==
  \A a \in Agents :
    /\ WF_allVars(Work(a))
    /\ WF_allVars(\E m \in Live(a) : Execute(m))

AgentSpec == AgentInit /\ [][AgentNext]_allVars /\ AgentFairness

-----------------------------------------------------------------------------

AgentTypeOK ==
  /\ TypeOK
  /\ pc \in [Agents -> Labels]
  /\ credential \in [Agents -> DeviceIds \cup {None}]
  /\ disk \in [Agents -> DeviceIds \cup {None}]
  /\ wire \subseteq Request
  /\ reply \in [Agents -> Answer \cup {None}]
  /\ faults \in [FaultKinds -> Nat]

\* The credential an agent stored is the one its token was consumed for, however
\* often it enrolled before and whatever answers it lost.
StoredCredentialIsItsOwn ==
  \A a \in Agents :
    disk[a] # None => tokens[TokenOf[a]].usedBy = disk[a] /\ devices[disk[a]].enrolled

\* Devices that no agent has the credential of, nor an answer that brings it.
Orphans ==
  {d \in DeviceIds : /\ devices[d].enrolled
                     /\ \A a \in Agents : /\ disk[a] # d
                                          /\ reply[a] # None => reply[a].dev # d}

\* A device whose credential nobody has comes from a fault, and each fault leaves
\* at most one behind: retries of an enrollment add none.
OrphansComeFromFaults ==
  Cardinality(Orphans) <= faults["breaks"] + faults["exceptions"] + faults["stops"]

\* An exception made the service run without the credential it has stored.
Forgotten(a) ==
  /\ disk[a] # None /\ credential[a] = None /\ pc[a] # "off"
  /\ faults["exceptions"] > 0

Revoked(a) == disk[a] # None /\ devices[disk[a]].revoked # None

\* An agent that has stored its credential has a heartbeat accepted again and
\* again, through refused calls, broken connections and restarts, until its
\* device is revoked or an exception makes it forget the credential.
HeartbeatsContinueUnlessForgotten ==
  \A a \in Agents :
    disk[a] # None ~> pc[a] = "collect" \/ Revoked(a) \/ Forgotten(a)

\* "It enrolls with a one-time token, stores the device credential with Windows
\* DPAPI, then automatically sends a heartbeat and inventory snapshot every five
\* minutes": a stored credential is used until its device is revoked.
HeartbeatsContinue ==
  \A a \in Agents : disk[a] # None ~> pc[a] = "collect" \/ Revoked(a)

\* An agent whose token can be used enrolls before the token expires.
TokenEnrollsItsAgent ==
  \A a \in Agents :
    ValidToken(TokenOf[a], now) ~> disk[a] # None \/ tokens[TokenOf[a]].expires <= now
=============================================================================
