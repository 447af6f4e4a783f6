--------------------------- MODULE MacReceiverProofs ---------------------------
(***************************************************************************)
(* The receiver and the API together, for every value of the constants:    *)
(* what they do to the jobs is what JobStore allows, and a job is only     *)
(* acknowledged after an inventory.                                        *)
(***************************************************************************)
EXTENDS MacReceiver, JobStoreProofs

(***************************************************************************)
(* The invariant.                                                          *)
(***************************************************************************)

\* A request, also one that was given up, names what it is about, and a completion
\* is only sent after an inventory.
RequestInv(r) ==
  /\ r \in Requests
  /\ r.op \notin {"enroll", None} => r.dev \in Devices
  /\ r.op \in {"complete", "fail"} => r.job \in JobIds
  /\ r.op = "complete" => r.fresh

\* The request the receiver waits for is the one of its stage.
WaitInv ==
  /\ request.state = None <=> request = NoRequest
  /\ request.op = None <=> request = NoRequest
  /\ request.op \in {"enroll", "heartbeat", "inventory", "claim"} => receiver.stage = request.op
  /\ request.op \in {"complete", "fail"} => receiver.stage = "finish"
  /\ request.state = "done" /\ request.op = "enroll" => request.answer \in Devices
  /\ request.state = "done" /\ request.op = "claim" => request.answer \in JobIds \cup {None}

\* Jobs are asked for after an inventory was stored.
FreshInv ==
  /\ receiver.stage \in {"claim", "finish"} => fresh
  /\ request.state = "done" /\ request.op = "inventory" => fresh

ProcessInv ==
  /\ ReceiverTypeOK
  /\ RequestInv(request)
  /\ \A r \in abandoned : RequestInv(r)
  /\ WaitInv
  /\ FreshInv

ReceiverInv == TypeOK /\ ProcessInv

(***************************************************************************)
(* The jobs.                                                               *)
(***************************************************************************)

LEMMA HandleIsJobStep ==
  ASSUME TypeOK, enrolled \subseteq Devices, NEW r, RequestInv(r), NEW answer, Handle(r, answer)
  PROVE  [Next]_vars
<1>1. now \in 0 .. now
  BY DEF TypeOK
<1>2. CASE EnrollDevice(r, answer)
  BY <1>2 DEF EnrollDevice
<1>3. CASE Touch(r)
  BY <1>3 DEF Touch
<1>4. CASE ClaimDeviceJob(r, answer)
  <2>1. r.dev \in Devices
    BY <1>4, ReceiverAssumption DEF ClaimDeviceJob, RequestInv, Operations
  <2>2. CASE answer = None
    BY <1>1, <1>4, <2>1, <2>2 DEF ClaimDeviceJob, Next
  <2>3. CASE answer # None
    <3>1. ClaimJob(r.dev, now, answer) /\ answer \in JobIds
      BY <1>4, <2>3 DEF ClaimDeviceJob, ClaimableNow
    <3> QED
      BY <1>1, <2>1, <3>1 DEF Next
  <2> QED
    BY <2>2, <2>3
<1>5. CASE FinishDeviceJob(r)
  <2>1. r.dev \in Devices /\ r.job \in JobIds
    BY <1>5, ReceiverAssumption DEF FinishDeviceJob, RequestInv, Operations
  <2> QED
    BY <1>1, <1>5, <2>1 DEF FinishDeviceJob, Next, Outcomes
<1> QED
  BY <1>2, <1>3, <1>4, <1>5 DEF Handle

LEMMA StepIsJobStep ==
  ASSUME ReceiverInv, [ReceiverNext]_allVars
  PROVE  [Next]_vars
<1>0. enrolled \subseteq Devices /\ TypeOK
  BY DEF ReceiverInv, ProcessInv, ReceiverTypeOK
<1>1. ASSUME NEW answer \in Answers, Serve(answer)
      PROVE  [Next]_vars
  BY <1>0, <1>1, HandleIsJobStep DEF Serve, ReceiverInv, ProcessInv
<1>2. ASSUME NEW r \in abandoned, NEW answer \in Answers, ServeAbandoned(r, answer)
      PROVE  [Next]_vars
  BY <1>0, <1>2, HandleIsJobStep DEF ServeAbandoned, ReceiverInv, ProcessInv
<1>3. CASE UserCreates
  <2>1. PICK d \in enrolled, ttl \in TTLs, j \in JobIds :
          /\ NewKeys(d) # {}
          /\ Create(OrgOf[d], d, CHOOSE k \in NewKeys(d) : TRUE, ttl, now, j)
    BY <1>3 DEF UserCreates
  <2>2. PICK k \in NewKeys(d) : Create(OrgOf[d], d, k, ttl, now, j)
    BY <2>1
  <2>3. /\ d \in Devices /\ OrgOf[d] \in Orgs /\ k \in Keys /\ now \in 0 .. now
    BY <1>0, ConstantsAssumption DEF NewKeys, TypeOK
  <2> QED
    BY <2>2, <2>3 DEF Next
<1>4. CASE AdministratorRevokes
  BY <1>0, <1>4 DEF AdministratorRevokes, Next
<1>5. CASE Tick
  BY <1>5 DEF Next
<1>6. CASE UNCHANGED vars
  BY <1>6
<1> QED
  BY <1>1, <1>2, <1>3, <1>4, <1>5, <1>6
     DEF ReceiverNext, Serves, allVars, Start, StartWithoutCredential, Send, Receive,
         StoreCredential, Retry, Exit, Lose, Refuse

(***************************************************************************)
(* The process.                                                            *)
(***************************************************************************)

LEMMA NoRequestInv ==
  /\ NoRequest \in Requests
  /\ NoRequest.op = None /\ NoRequest.state = None
  /\ RequestInv(NoRequest)
BY ReceiverAssumption DEF NoRequest, Requests, RequestInv, Operations

LEMMA InitProcessInv == ReceiverInit => ProcessInv
<1> SUFFICES ASSUME ReceiverInit PROVE ProcessInv
  OBVIOUS
<1>1. ReceiverTypeOK
  BY NoRequestInv DEF ReceiverInit, ReceiverTypeOK, Off, Stages
<1>2. RequestInv(request) /\ (\A r \in abandoned : RequestInv(r))
  BY NoRequestInv DEF ReceiverInit
<1>3. WaitInv /\ FreshInv
  BY NoRequestInv, ReceiverAssumption DEF ReceiverInit, WaitInv, FreshInv, Off, Operations
<1> QED
  BY <1>1, <1>2, <1>3 DEF ProcessInv

LEMMA StrikeType ==
  ASSUME struck \in [JobIds -> Nat], NEW J, Strike(J)
  PROVE  struck' \in [JobIds -> Nat]
BY DEF Strike

LEMMA FaultType ==
  ASSUME ReceiverTypeOK, NEW j, Fault(j)
  PROVE  struck' \in [JobIds -> Nat] /\ faults' \in Nat
BY StrikeType DEF Fault, ReceiverTypeOK

\* The receiver starts or gives up: it waits for nothing and is not about to claim.
LEMMA RestartInv ==
  ASSUME ProcessInv, request' = NoRequest,
         abandoned' \subseteq abandoned \cup {request},
         receiver' \in [stage : {"off", "enroll", "heartbeat"}, cred : Devices \cup {None},
                       job : {None}],
         receiver'.stage = "heartbeat" <=> receiver'.cred # None,
         faults' \in Nat, struck' \in [JobIds -> Nat],
         UNCHANGED <<keychain, enrolled, fresh>>
  PROVE  ProcessInv'
<1>1. ReceiverTypeOK'
  BY NoRequestInv DEF ProcessInv, ReceiverTypeOK, Stages
<1>2. RequestInv(request)' /\ (\A r \in abandoned : RequestInv(r))'
  BY NoRequestInv DEF ProcessInv, RequestInv
<1>3. WaitInv' /\ FreshInv'
  BY NoRequestInv, ReceiverAssumption DEF WaitInv, FreshInv, Operations
<1> QED
  BY <1>1, <1>2, <1>3 DEF ProcessInv

\* Nothing is awaited between the calls of the loop.
LEMMA IdleStages ==
  ASSUME ProcessInv, receiver.stage \in {"off", "store"}
  PROVE  request = NoRequest
BY ReceiverAssumption DEF ProcessInv, RequestInv, Requests, Operations, WaitInv

LEMMA StartInv == ProcessInv /\ Start => ProcessInv'
<1> SUFFICES ASSUME ProcessInv, Start PROVE ProcessInv'
  OBVIOUS
<1>1. receiver' = [stage |-> "heartbeat", cred |-> keychain, job |-> None]
  BY DEF Start, Off
<1>2. request = NoRequest
  BY IdleStages DEF Start
<1> QED
  BY <1>1, <1>2, RestartInv DEF Start, ProcessInv, ReceiverTypeOK

LEMMA StartWithoutCredentialInv == ProcessInv /\ StartWithoutCredential => ProcessInv'
<1> SUFFICES ASSUME ProcessInv, StartWithoutCredential PROVE ProcessInv'
  OBVIOUS
<1>1. receiver' = [stage |-> "enroll", cred |-> None, job |-> None]
  BY DEF StartWithoutCredential, Off
<1>2. request = NoRequest
  BY IdleStages DEF StartWithoutCredential
<1>3. struck' \in [JobIds -> Nat] /\ faults' \in Nat
  BY FaultType DEF StartWithoutCredential, ProcessInv, ReceiverTypeOK
<1>4. /\ request' = NoRequest /\ abandoned' \subseteq abandoned \cup {request}
      /\ UNCHANGED <<keychain, enrolled, fresh>>
  BY <1>2 DEF StartWithoutCredential
<1> QED
  BY <1>1, <1>3, <1>4, RestartInv

LEMMA GiveUpInv == ProcessInv /\ (Retry \/ Exit) => ProcessInv'
<1> SUFFICES ASSUME ProcessInv, Retry \/ Exit PROVE ProcessInv'
  OBVIOUS
<1>1. Fault(Held) /\ GiveUp /\ UNCHANGED <<keychain, enrolled, fresh>>
  BY DEF Retry, Exit
<1>2. struck' \in [JobIds -> Nat] /\ faults' \in Nat
  BY <1>1, FaultType DEF ProcessInv
<1>3. request' = NoRequest /\ abandoned' \subseteq abandoned \cup {request}
  BY <1>1 DEF GiveUp
<1>4. CASE Retry
  <2>1. receiver' = [stage |-> "heartbeat", cred |-> receiver.cred, job |-> None]
    BY <1>4 DEF Retry, ProcessInv, ReceiverTypeOK
  <2>2. receiver.cred \in Devices /\ receiver.cred # None
    BY <1>4, ReceiverAssumption DEF Retry, ProcessInv, ReceiverTypeOK
  <2> QED
    BY <1>1, <1>2, <1>3, <2>1, <2>2, RestartInv
<1>5. CASE Exit
  <2>1. receiver' = [stage |-> "off", cred |-> None, job |-> None]
    BY <1>5 DEF Exit, Off
  <2> QED
    BY <1>1, <1>2, <1>3, <2>1, RestartInv
<1> QED
  BY <1>4, <1>5

LEMMA SendInv == ProcessInv /\ Send => ProcessInv'
<1> SUFFICES ASSUME ProcessInv, Send PROVE ProcessInv'
  OBVIOUS
<1> DEFINE op == IF receiver.stage = "finish" THEN AnswerTo(receiver.job) ELSE receiver.stage
<1>1. /\ request' = [op |-> op, dev |-> receiver.cred, job |-> receiver.job, fresh |-> fresh,
                     state |-> "sent", answer |-> None]
      /\ fresh' = IF op = "heartbeat" THEN FALSE ELSE fresh
      /\ receiver.stage \in {"enroll", "heartbeat", "inventory", "claim", "finish"}
      /\ UNCHANGED <<receiver, keychain, abandoned, enrolled, faults, struck>>
  BY DEF Send, NoRequest
<1>2. /\ op \in Operations
      /\ op \in {"complete", "fail"} <=> receiver.stage = "finish"
      /\ op \notin {"complete", "fail"} => receiver.stage = op
  BY <1>1 DEF AnswerTo, Operations
<1>3. /\ receiver.cred \in Devices \cup {None} /\ receiver.job \in JobIds \cup {None}
      /\ fresh \in BOOLEAN
      /\ op # "enroll" => receiver.cred \in Devices
      /\ op \in {"complete", "fail"} => receiver.job \in JobIds
      /\ op = "complete" => fresh
  BY <1>1, <1>2 DEF ProcessInv, ReceiverTypeOK, FreshInv
<1> HIDE DEF op
<1>4. request' \in Requests
  BY <1>1, <1>2, <1>3 DEF Requests
<1>5. RequestInv(request)' /\ (\A r \in abandoned : RequestInv(r))'
  BY <1>1, <1>2, <1>3, <1>4 DEF ProcessInv, RequestInv
<1>6. ReceiverTypeOK'
  BY <1>1, <1>3, <1>4 DEF ProcessInv, ReceiverTypeOK
<1>7. WaitInv'
  BY <1>1, <1>2, ReceiverAssumption DEF WaitInv, NoRequest
<1>8. FreshInv'
  BY <1>1, <1>2 DEF ProcessInv, FreshInv
<1> QED
  BY <1>5, <1>6, <1>7, <1>8 DEF ProcessInv

\* The process goes on with an answer, and waits for nothing.
LEMMA ProceedInv ==
  ASSUME ProcessInv, request' = NoRequest,
         receiver' \in [stage : Stages, cred : Devices \cup {None}, job : JobIds \cup {None}],
         receiver'.stage \in {"off", "enroll"} <=> receiver'.cred = None,
         receiver'.stage = "finish" <=> receiver'.job # None,
         receiver'.stage \in {"claim", "finish"} => fresh,
         keychain' \in Devices \cup {None},
         UNCHANGED <<abandoned, enrolled, fresh, faults, struck>>
  PROVE  ProcessInv'
<1>1. ReceiverTypeOK'
  BY NoRequestInv DEF ProcessInv, ReceiverTypeOK
<1>2. RequestInv(request)' /\ (\A r \in abandoned : RequestInv(r))'
  BY NoRequestInv DEF ProcessInv, RequestInv
<1>3. WaitInv' /\ FreshInv'
  BY NoRequestInv, ReceiverAssumption DEF WaitInv, FreshInv, Operations
<1> QED
  BY <1>1, <1>2, <1>3 DEF ProcessInv

LEMMA ReceiveInv == ProcessInv /\ Receive => ProcessInv'
<1> SUFFICES ASSUME ProcessInv, Receive PROVE ProcessInv'
  OBVIOUS
<1>1. /\ request' = NoRequest /\ request.state = "done"
      /\ keychain' \in Devices \cup {None}
      /\ UNCHANGED <<abandoned, enrolled, fresh, faults, struck>>
  BY DEF Receive, ProcessInv, ReceiverTypeOK
<1>2. /\ receiver.stage \in {"enroll", "heartbeat", "inventory", "claim", "finish"}
      /\ request.op \in Operations
      /\ request.op \in {"complete", "fail"} <=> receiver.stage = "finish"
      /\ request.op \notin {"complete", "fail"} => receiver.stage = request.op
  BY <1>1, NoRequestInv, ReceiverAssumption
     DEF ProcessInv, WaitInv, RequestInv, Requests, Operations
<1>3. CASE request.op = "enroll"
  <2>1. receiver' = [stage |-> "store", cred |-> request.answer, job |-> receiver.job]
    BY <1>3 DEF Receive, ProcessInv, ReceiverTypeOK
  <2>2. request.answer \in Devices /\ receiver.job = None /\ request.answer # None
    BY <1>1, <1>2, <1>3, ReceiverAssumption DEF ProcessInv, ReceiverTypeOK, WaitInv
  <2> QED
    BY <1>1, <2>1, <2>2, ProceedInv DEF Stages
<1>4. CASE request.op = "claim" /\ request.answer # None
  <2>1. receiver' = [stage |-> "finish", cred |-> receiver.cred, job |-> request.answer]
    BY <1>4 DEF Receive, ProcessInv, ReceiverTypeOK
  <2>2. request.answer \in JobIds /\ receiver.cred \in Devices /\ receiver.cred # None /\ fresh
    BY <1>1, <1>2, <1>4, ReceiverAssumption
       DEF ProcessInv, ReceiverTypeOK, WaitInv, FreshInv
  <2> QED
    BY <1>1, <1>4, <2>1, <2>2, ProceedInv DEF Stages
<1>5. CASE request.op # "enroll" /\ ~ (request.op = "claim" /\ request.answer # None)
  <2>1. receiver' = [stage |-> NextStage(receiver.stage), cred |-> receiver.cred, job |-> None]
    BY <1>5 DEF Receive, ProcessInv, ReceiverTypeOK
  <2>2. receiver.cred \in Devices /\ receiver.cred # None
    BY <1>2, <1>5, ReceiverAssumption DEF ProcessInv, ReceiverTypeOK
  <2>3. /\ NextStage(receiver.stage) \in {"heartbeat", "inventory", "claim"}
        /\ NextStage(receiver.stage) = "claim" => request.op = "inventory"
    BY <1>2 DEF NextStage
  <2>4. NextStage(receiver.stage) = "claim" => fresh
    BY <1>1, <2>3 DEF ProcessInv, FreshInv
  <2> QED
    BY <1>1, <2>1, <2>2, <2>3, <2>4, ProceedInv DEF Stages
<1> QED
  BY <1>3, <1>4, <1>5

LEMMA StoreCredentialInv == ProcessInv /\ StoreCredential => ProcessInv'
<1> SUFFICES ASSUME ProcessInv, StoreCredential PROVE ProcessInv'
  OBVIOUS
<1>1. receiver' = [stage |-> "heartbeat", cred |-> receiver.cred, job |-> receiver.job]
  BY DEF StoreCredential, ProcessInv, ReceiverTypeOK
<1>2. receiver.cred \in Devices /\ receiver.cred # None /\ receiver.job = None
  BY ReceiverAssumption DEF StoreCredential, ProcessInv, ReceiverTypeOK
<1>3. request' = NoRequest
  BY IdleStages DEF StoreCredential
<1> QED
  BY <1>1, <1>2, <1>3, ProceedInv DEF StoreCredential, Stages

LEMMA RefuseInv == ProcessInv /\ Refuse => ProcessInv'
<1> SUFFICES ASSUME ProcessInv, Refuse PROVE ProcessInv'
  OBVIOUS
<1>1. /\ request' = NoRequest /\ keychain' \in Devices \cup {None}
      /\ UNCHANGED <<abandoned, enrolled, fresh, faults, struck>>
  BY DEF Refuse, ProcessInv, ReceiverTypeOK
<1>2. CASE request.op = "enroll"
  <2>1. receiver' = [stage |-> "off", cred |-> None, job |-> None]
    BY <1>2 DEF Refuse, Off
  <2> QED
    BY <1>1, <2>1, ProceedInv DEF Stages
<1>3. CASE request.op # "enroll"
  <2>1. receiver' = [stage |-> "heartbeat", cred |-> receiver.cred, job |-> None]
    BY <1>3 DEF Refuse, ProcessInv, ReceiverTypeOK
  <2>2. receiver.cred \in Devices /\ receiver.cred # None
    BY <1>3, ReceiverAssumption DEF Refuse, ProcessInv, ReceiverTypeOK, WaitInv
  <2> QED
    BY <1>1, <2>1, <2>2, ProceedInv DEF Stages
<1> QED
  BY <1>2, <1>3

(***************************************************************************)
(* The API.                                                                *)
(***************************************************************************)

\* What the transaction of a request does outside the jobs, and its answer.
LEMMA HandleType ==
  ASSUME enrolled \subseteq Devices, fresh \in BOOLEAN, NEW r, RequestInv(r),
         NEW answer \in Answers, Handle(r, answer)
  PROVE  /\ enrolled' \subseteq Devices
         /\ fresh' \in BOOLEAN /\ (fresh => fresh')
         /\ r.op = "enroll" => answer \in Devices
         /\ r.op = "claim" => answer \in JobIds \cup {None}
         /\ r.op = "inventory" => fresh'
<1>1. CASE EnrollDevice(r, answer)
  BY <1>1 DEF EnrollDevice
<1>2. CASE answer = None /\ Touch(r)
  BY <1>2 DEF Touch
<1>3. CASE ClaimDeviceJob(r, answer)
  BY <1>3 DEF ClaimDeviceJob, ClaimableNow
<1>4. CASE answer = None /\ FinishDeviceJob(r)
  BY <1>4 DEF FinishDeviceJob
<1> QED
  BY <1>1, <1>2, <1>3, <1>4 DEF Handle

LEMMA ServeInv ==
  ASSUME ProcessInv, NEW answer \in Answers, Serve(answer)
  PROVE  ProcessInv'
<1>1. /\ enrolled' \subseteq Devices /\ fresh' \in BOOLEAN /\ (fresh => fresh')
      /\ request.op = "enroll" => answer \in Devices
      /\ request.op = "claim" => answer \in JobIds \cup {None}
      /\ request.op = "inventory" => fresh'
  BY HandleType DEF Serve, ProcessInv, ReceiverTypeOK
<1>2. request' = [op |-> request.op, dev |-> request.dev, job |-> request.job,
                  fresh |-> request.fresh, state |-> "done", answer |-> answer]
  BY DEF Serve, ProcessInv, ReceiverTypeOK, Requests
<1>3. request' \in Requests
  BY <1>2 DEF ProcessInv, ReceiverTypeOK, Requests, Answers
<1>4. RequestInv(request)' /\ (\A r \in abandoned : RequestInv(r))'
  BY <1>2, <1>3 DEF Serve, ProcessInv, RequestInv
<1>5. ReceiverTypeOK'
  BY <1>1, <1>3 DEF Serve, ProcessInv, ReceiverTypeOK
<1>6. WaitInv'
  BY <1>1, <1>2, ReceiverAssumption DEF Serve, ProcessInv, WaitInv, NoRequest
<1>7. FreshInv'
  BY <1>1, <1>2 DEF Serve, ProcessInv, FreshInv
<1> QED
  BY <1>4, <1>5, <1>6, <1>7 DEF ProcessInv

\* The process and its request stay as they are.
LEMMA ElsewhereInv ==
  ASSUME ProcessInv, abandoned' \subseteq abandoned, enrolled' \subseteq Devices,
         fresh' \in BOOLEAN, fresh => fresh', faults' = faults,
         struck' \in [JobIds -> Nat],
         UNCHANGED <<receiver, keychain, request>>
  PROVE  ProcessInv'
<1>1. ReceiverTypeOK'
  BY DEF ProcessInv, ReceiverTypeOK
<1>2. RequestInv(request)' /\ (\A r \in abandoned : RequestInv(r))'
  BY DEF ProcessInv, RequestInv
<1>3. WaitInv' /\ FreshInv'
  BY DEF ProcessInv, WaitInv, FreshInv
<1> QED
  BY <1>1, <1>2, <1>3 DEF ProcessInv

LEMMA ServeAbandonedInv ==
  ASSUME ProcessInv, NEW r \in abandoned, NEW answer \in Answers, ServeAbandoned(r, answer)
  PROVE  ProcessInv'
<1>1. enrolled' \subseteq Devices /\ fresh' \in BOOLEAN /\ (fresh => fresh')
  BY HandleType DEF ServeAbandoned, ProcessInv, ReceiverTypeOK
<1>2. struck' \in [JobIds -> Nat]
  BY StrikeType DEF ServeAbandoned, ProcessInv, ReceiverTypeOK
<1> QED
  BY <1>1, <1>2, ElsewhereInv DEF ServeAbandoned

LEMMA ProcessStep == ReceiverInv /\ [ReceiverNext]_allVars => ReceiverInv'
<1> SUFFICES ASSUME ReceiverInv, [ReceiverNext]_allVars PROVE ReceiverInv'
  OBVIOUS
<1>1. TypeOK'
  BY StepIsJobStep, NextType DEF ReceiverInv
<1>2. ProcessInv /\ enrolled \subseteq Devices /\ fresh \in BOOLEAN /\ struck \in [JobIds -> Nat]
  BY DEF ReceiverInv, ProcessInv, ReceiverTypeOK
<1>3. ASSUME NEW r \in abandoned, Lose(r)
      PROVE  ProcessInv'
  BY <1>2, <1>3, ElsewhereInv DEF Lose
<1>4. ASSUME UNCHANGED receiverVars
      PROVE  ProcessInv'
  BY <1>2, <1>4, ElsewhereInv DEF receiverVars
<1>5. ProcessInv'
  BY <1>2, <1>3, <1>4, StartInv, StartWithoutCredentialInv, SendInv, ReceiveInv,
     StoreCredentialInv, GiveUpInv, ServeInv, ServeAbandonedInv, RefuseInv
     DEF ReceiverNext, Serves, UserCreates, AdministratorRevokes, allVars
<1> QED
  BY <1>1, <1>5 DEF ReceiverInv

LEMMA ReceiverInvHolds == ReceiverSpec => []ReceiverInv
<1>1. Init /\ ReceiverInit => ReceiverInv
  BY InitType, InitProcessInv DEF ReceiverInv
<1> QED
  BY <1>1, ProcessStep, PTL DEF ReceiverSpec

(***************************************************************************)
(* The theorems.                                                           *)
(***************************************************************************)

\* The process has a credential and a job whenever it needs one.
THEOREM ReceiverTypeCorrect == ReceiverSpec => []ReceiverTypeOK
<1>1. ReceiverInv => ReceiverTypeOK
  BY DEF ReceiverInv, ProcessInv
<1> QED
  BY <1>1, ReceiverInvHolds, PTL

\* Whatever fails and however late requests are executed, what happens to the jobs
\* is what the job repository promises.
THEOREM ReceiverKeepsPromises == ReceiverSpec => Spec
<1>1. ReceiverInv /\ [ReceiverNext]_allVars => [Next]_vars
  BY StepIsJobStep
<1> QED
  BY <1>1, ReceiverInvHolds, PTL DEF ReceiverSpec, Spec

\* Every completion that was sent follows an inventory that was stored.
THEOREM CompletionsFollowInventory == ReceiverSpec => []AcknowledgedWithInventory
<1>1. ReceiverInv => AcknowledgedWithInventory
  BY DEF ReceiverInv, ProcessInv, RequestInv, AcknowledgedWithInventory
<1> QED
  BY <1>1, ReceiverInvHolds, PTL
(***************************************************************************)
(* Attempts are lost to faults only.  The receiver works on a job from the *)
(* answer to its claim until the answer it gives; a job it does not work   *)
(* on, and could be leased again, has lost each of its attempts to a       *)
(* fault.                                                                  *)
(***************************************************************************)

WorksOn(j) ==
  \/ receiver.stage = "finish" /\ receiver.job = j
  \/ request.op = "claim" /\ request.state = "done" /\ request.answer = j

Active(d) == d \in Devices /\ revokedAt[d] = None

LeaseInv(j) ==
  /\ jobs[j].attempts <= 1 + struck[j]
  /\ WorksOn(j) => jobs[j].status # "absent" /\ jobs[j].dev = receiver.cred
  /\ /\ Active(jobs[j].dev)
     /\ jobs[j].status = "pending" \/ (jobs[j].status = "claimed" /\ ~ WorksOn(j))
     => jobs[j].attempts <= struck[j]

\* Credentials are those of enrolled devices, requests carry the credential and the
\* job of the process, and an answered completion took effect.
CredentialInv ==
  /\ receiver.cred \in enrolled \cup {None}
  /\ keychain \in enrolled \cup {None}
  /\ request # NoRequest => request.dev = receiver.cred
  /\ request.op \in {"complete", "fail"} => request.job = receiver.job
  /\ request.state = "done" /\ request.op = "enroll" => request.answer \in enrolled
  /\ request.state = "done" /\ request.op \in {"complete", "fail"}
       => jobs[request.job].status \in Outcomes

LossInv == ReceiverInv /\ CredentialInv /\ \A j \in JobIds : LeaseInv(j)

LEMMA OutcomeKept ==
  ASSUME TypeOK, [Next]_vars, NEW j \in JobIds, jobs[j].status \in Outcomes
  PROVE  jobs'[j] = jobs[j]
<1>1. CASE UNCHANGED vars
  BY <1>1 DEF vars
<1>2. CASE Next
  <2>1. ~ RowCreated(j)
    BY DEF RowCreated, Outcomes
  <2>2. ~ RowReleased(j)
    BY DEF RowReleased, LeaseExpired, Outcomes
  <2>3. ~ RowLeased(j)
    BY LeasedRow DEF Outcomes
  <2>4. ~ RowFinished(j)
    BY DEF RowFinished, Outcomes
  <2> QED
    BY <1>2, <2>1, <2>2, <2>3, <2>4, RowStep DEF RowKept
<1> QED
  BY <1>1, <1>2

(***************************************************************************)
(* Steps that leave a row alone.                                           *)
(***************************************************************************)

\* The receiver stops working on a job because of a fault, because the job is no
\* longer claimed or because its device is revoked.
LEMMA LeaseKept ==
  ASSUME ReceiverInv, NEW j \in JobIds, LeaseInv(j), jobs'[j] = jobs[j],
         struck'[j] \in Nat, struck'[j] >= struck[j],
         \A d \in Devices : revokedAt'[d] = None => revokedAt[d] = None,
         WorksOn(j)' => WorksOn(j) /\ receiver'.cred = receiver.cred,
         WorksOn(j) /\ ~ WorksOn(j)' =>
           \/ struck'[j] >= struck[j] + 1
           \/ jobs[j].status # "claimed"
           \/ ~ Active(jobs[j].dev)
  PROVE  LeaseInv(j)'
<1>1. jobs[j].attempts \in Nat /\ struck[j] \in Nat
  BY DEF ReceiverInv, ProcessInv, ReceiverTypeOK, TypeOK, Row
<1>2. Active(jobs[j].dev)' => Active(jobs[j].dev)
  BY DEF Active
<1> QED
  BY <1>1, <1>2 DEF LeaseInv

\* The request is dropped or stays.
LEMMA CredentialKept ==
  ASSUME LossInv, [Next]_vars, enrolled \subseteq enrolled',
         receiver'.cred \in enrolled' \cup {None}, keychain' \in enrolled' \cup {None},
         \/ request' = NoRequest
         \/ /\ request' = request
            /\ receiver'.cred = receiver.cred /\ receiver'.job = receiver.job
  PROVE  CredentialInv'
<1>1. CASE request' = NoRequest
  BY <1>1, NoRequestInv, ReceiverAssumption DEF CredentialInv, Operations
<1>2. CASE /\ request' = request
           /\ receiver'.cred = receiver.cred /\ receiver'.job = receiver.job
  <2>1. request.op \in {"complete", "fail"} => request.job \in JobIds
    BY DEF LossInv, ReceiverInv, ProcessInv, RequestInv
  <2>2. request.op \in {"complete", "fail"} /\ jobs[request.job].status \in Outcomes
          => jobs'[request.job] = jobs[request.job]
    BY <2>1, OutcomeKept DEF LossInv, ReceiverInv
  <2> QED
    BY <1>2, <2>2 DEF LossInv, CredentialInv
<1> QED
  BY <1>1, <1>2

\* The receiver has no job while it is not in the middle of a round.
LEMMA IdleWorksOnNothing ==
  ASSUME NEW j \in JobIds, request' = NoRequest, receiver'.stage # "finish"
  PROVE  ~ WorksOn(j)'
BY NoRequestInv, ReceiverAssumption DEF WorksOn, Operations

LEMMA ProcessLoss ==
  ASSUME LossInv, UNCHANGED vars,
         \/ Start \/ StartWithoutCredential \/ Send \/ Receive \/ StoreCredential
         \/ Retry \/ Exit \/ Refuse
  PROVE  CredentialInv' /\ \A j \in JobIds : LeaseInv(j)'
<1>1. /\ ReceiverTypeOK /\ ReceiverInv /\ CredentialInv /\ WaitInv /\ ProcessInv
      /\ UNCHANGED <<jobs, revokedAt>> /\ [Next]_vars
      /\ \A j \in JobIds : LeaseInv(j)
      /\ struck \in [JobIds -> Nat]
  BY DEF LossInv, ReceiverInv, ProcessInv, ReceiverTypeOK, vars
\* A process that starts worked on nothing.
<1>2. CASE Start \/ StartWithoutCredential
  <2>1. request = NoRequest /\ receiver.stage = "off"
    BY <1>1, <1>2, IdleStages DEF Start, StartWithoutCredential
  <2>2. /\ request' = NoRequest /\ receiver'.stage # "finish"
        /\ receiver'.cred \in enrolled \cup {None}
        /\ UNCHANGED <<keychain, enrolled>>
    BY <1>1, <1>2, <2>1 DEF Start, StartWithoutCredential, Off, CredentialInv
  <2>3. ASSUME NEW j \in JobIds
        PROVE  ~ WorksOn(j) /\ ~ WorksOn(j)'
    BY <2>1, <2>2, IdleWorksOnNothing, NoRequestInv, ReceiverAssumption DEF WorksOn, Operations
  <2>4. ASSUME NEW j \in JobIds
        PROVE  struck'[j] \in Nat /\ struck'[j] >= struck[j]
    BY <1>1, <1>2 DEF Start, StartWithoutCredential, Fault, Strike
  <2> QED
    BY <1>1, <2>2, <2>3, <2>4, CredentialKept, LeaseKept DEF CredentialInv
<1>3. CASE Send
  <2>1. /\ request = NoRequest /\ request'.state = "sent" /\ request'.dev = receiver.cred
        /\ request'.job = receiver.job
        /\ UNCHANGED <<receiver, keychain, enrolled, struck>>
    BY <1>3 DEF Send, NoRequest
  <2>2. ASSUME NEW j \in JobIds
        PROVE  WorksOn(j)' <=> WorksOn(j)
    BY <2>1, NoRequestInv, ReceiverAssumption DEF WorksOn, Operations
  <2>3. CredentialInv'
    BY <1>1, <2>1 DEF CredentialInv
  <2>4. ASSUME NEW j \in JobIds
        PROVE  struck'[j] \in Nat /\ struck'[j] >= struck[j]
    BY <1>1, <2>1
  <2> QED
    BY <1>1, <2>1, <2>2, <2>3, <2>4, LeaseKept
\* A fault strikes the job the receiver works on.
<1>4. CASE Retry \/ Exit
  <2>1. /\ request' = NoRequest /\ receiver'.stage # "finish"
        /\ receiver'.cred \in enrolled \cup {None}
        /\ Fault(Held)
        /\ UNCHANGED <<keychain, enrolled>>
    <3>1. CASE Retry
      BY <1>1, <3>1 DEF Retry, GiveUp, CredentialInv, ReceiverTypeOK
    <3>2. CASE Exit
      BY <3>2 DEF Exit, GiveUp, Off
    <3> QED
      BY <1>4, <3>1, <3>2
  <2>2. ASSUME NEW j \in JobIds
        PROVE  ~ WorksOn(j)'
    BY <2>1, IdleWorksOnNothing
  <2>3. ASSUME NEW j \in JobIds
        PROVE  /\ struck'[j] \in Nat /\ struck'[j] >= struck[j]
               /\ WorksOn(j) => struck'[j] >= struck[j] + 1
    <3>1. WorksOn(j) => Held = j
      BY <1>1 DEF WorksOn, Held, WaitInv
    <3>2. struck'[j] = struck[j] + IF j \in {Held} THEN 1 ELSE 0
      BY <2>1 DEF Fault, Strike
    <3> QED
      BY <1>1, <3>1, <3>2
  <2> QED
    BY <1>1, <2>1, <2>2, <2>3, CredentialKept, LeaseKept DEF CredentialInv
\* The loop drops a job it answered.
<1>5. CASE Receive
  <2>1. /\ request' = NoRequest /\ request.state = "done" /\ request # NoRequest
        /\ UNCHANGED <<keychain, enrolled, struck>>
    BY <1>5, NoRequestInv, ReceiverAssumption DEF Receive
  <2>2. /\ request.op \in Operations
        /\ request.op \in {"complete", "fail"} <=> receiver.stage = "finish"
        /\ request.op \notin {"complete", "fail"} => receiver.stage = request.op
    BY <1>1, <2>1 DEF WaitInv, ReceiverTypeOK, Requests, Operations
  <2>3. ASSUME NEW j \in JobIds
        PROVE  struck'[j] \in Nat /\ struck'[j] >= struck[j]
    BY <1>1, <2>1
  <2>4. CASE request.op = "enroll"
    <3>1. receiver'.stage = "store" /\ receiver'.cred \in enrolled
      BY <1>1, <1>5, <2>1, <2>4 DEF Receive, ReceiverTypeOK, CredentialInv
    <3>2. ASSUME NEW j \in JobIds
          PROVE  ~ WorksOn(j) /\ ~ WorksOn(j)'
      BY <2>1, <2>2, <2>4, <3>1, IdleWorksOnNothing DEF WorksOn
    <3> QED
      BY <1>1, <2>1, <2>3, <3>1, <3>2, CredentialKept, LeaseKept DEF CredentialInv
  <2>5. CASE request.op = "claim" /\ request.answer # None
    <3>1. /\ receiver'.stage = "finish" /\ receiver'.job = request.answer
          /\ receiver'.cred = receiver.cred
      BY <1>1, <1>5, <2>5 DEF Receive, ReceiverTypeOK
    <3>2. ASSUME NEW j \in JobIds
          PROVE  WorksOn(j)' <=> WorksOn(j)
      BY <2>1, <2>2, <2>5, <3>1, NoRequestInv, ReceiverAssumption DEF WorksOn, Operations
    <3> QED
      BY <1>1, <2>1, <2>3, <3>1, <3>2, CredentialKept, LeaseKept DEF CredentialInv
  <2>6. CASE request.op # "enroll" /\ ~ (request.op = "claim" /\ request.answer # None)
    <3>1. receiver'.stage # "finish" /\ receiver'.cred = receiver.cred
      BY <1>1, <1>5, <2>6 DEF Receive, NextStage, ReceiverTypeOK
    <3>2. ASSUME NEW j \in JobIds
          PROVE  ~ WorksOn(j)'
      BY <2>1, <3>1, IdleWorksOnNothing
    <3>3. ASSUME NEW j \in JobIds, WorksOn(j)
          PROVE  jobs[j].status # "claimed"
      <4>1. receiver.stage = "finish" /\ receiver.job = j
        BY <2>6, <3>3, ReceiverAssumption DEF WorksOn
      <4>2. jobs[j].status \in Outcomes
        BY <1>1, <2>1, <2>2, <4>1 DEF CredentialInv
      <4> QED
        BY <4>2 DEF Outcomes
    <3> QED
      BY <1>1, <2>1, <2>3, <3>1, <3>2, <3>3, CredentialKept, LeaseKept DEF CredentialInv
  <2> QED
    BY <2>4, <2>5, <2>6
<1>6. CASE StoreCredential
  <2>1. /\ request = NoRequest /\ request' = NoRequest /\ receiver.stage = "store"
        /\ receiver'.stage = "heartbeat" /\ receiver'.cred = receiver.cred
        /\ keychain' = receiver.cred
        /\ UNCHANGED <<enrolled, struck>>
    BY <1>1, <1>6, IdleStages DEF StoreCredential, ReceiverTypeOK
  <2>2. ASSUME NEW j \in JobIds
        PROVE  ~ WorksOn(j) /\ ~ WorksOn(j)'
    BY <2>1, IdleWorksOnNothing, NoRequestInv, ReceiverAssumption DEF WorksOn, Operations
  <2>3. ASSUME NEW j \in JobIds
        PROVE  struck'[j] \in Nat /\ struck'[j] >= struck[j]
    BY <1>1, <2>1
  <2> QED
    BY <1>1, <2>1, <2>2, <2>3, CredentialKept, LeaseKept DEF CredentialInv
\* An answer that is refused is about a revoked device or a job that is not claimed.
<1>7. CASE Refuse
  <2>1. /\ request' = NoRequest /\ request.state = "sent" /\ request # NoRequest
        /\ receiver'.stage # "finish" /\ receiver'.cred \in enrolled \cup {None}
        /\ UNCHANGED <<keychain, enrolled, struck>>
    BY <1>1, <1>7, NoRequestInv, ReceiverAssumption
       DEF Refuse, Off, ReceiverTypeOK, CredentialInv
  <2>2. ASSUME NEW j \in JobIds
        PROVE  /\ ~ WorksOn(j)'
               /\ struck'[j] \in Nat /\ struck'[j] >= struck[j]
    BY <1>1, <2>1, IdleWorksOnNothing
  <2>3. ASSUME NEW j \in JobIds, WorksOn(j)
        PROVE  jobs[j].status # "claimed" \/ ~ Active(jobs[j].dev)
    <3>1. receiver.stage = "finish" /\ receiver.job = j
      BY <2>1, <2>3 DEF WorksOn
    <3>2. request.op \in {"complete", "fail"}
      BY <1>1, <1>7, <3>1 DEF Refuse, WaitInv
    <3>3. /\ request.dev = jobs[j].dev /\ request.job = j /\ request.dev \in enrolled
      BY <1>1, <2>1, <2>3, <3>1, <3>2 DEF CredentialInv, LeaseInv, ReceiverTypeOK
    <3> QED
      BY <1>7, <3>2, <3>3 DEF Refuse, Authentic, Active
  <2> QED
    BY <1>1, <2>1, <2>2, <2>3, CredentialKept, LeaseKept DEF CredentialInv
<1> QED
  BY <1>2, <1>3, <1>4, <1>5, <1>6, <1>7

(***************************************************************************)
(* Transactions: what one does to the row of a job.                        *)
(***************************************************************************)

RowSwept(r, j) ==
  /\ r.op = "claim" /\ jobs[j].status = "claimed" /\ jobs'[j].status = "pending"
  /\ jobs'[j].attempts = jobs[j].attempts /\ jobs'[j].dev = jobs[j].dev

RowGranted(r, j) ==
  /\ r.op = "claim" /\ Active(r.dev)
  /\ jobs[j].status \in {"pending", "claimed"} /\ jobs'[j].status = "claimed"
  /\ jobs'[j].attempts = jobs[j].attempts + 1
  /\ jobs[j].dev = r.dev /\ jobs'[j].dev = r.dev

RowAnswered(r, j) ==
  /\ r.op \in {"complete", "fail"} /\ r.job = j
  /\ jobs'[j].status \in Outcomes
  /\ jobs'[j].attempts = jobs[j].attempts /\ jobs'[j].dev = jobs[j].dev

LEMMA ReleasedRow ==
  ASSUME TypeOK, NEW R \in SUBSET JobIds, NEW d, NEW j \in JobIds,
         \A i \in R : LeaseExpired(jobs[i], d, now)
  PROVE  \/ Swept(R)[j] = jobs[j]
         \/ /\ jobs[j].status = "claimed" /\ jobs[j].dev = d
            /\ Swept(R)[j] \in Row /\ Swept(R)[j].status = "pending"
            /\ Swept(R)[j].attempts = jobs[j].attempts /\ Swept(R)[j].dev = jobs[j].dev
<1>1. CASE j \in R
  <2>1. Swept(R)[j] = Released(jobs[j]) /\ jobs[j] \in Row
    BY <1>1 DEF Swept, TypeOK
  <2>2. jobs[j].status = "claimed" /\ jobs[j].dev = d
    BY <1>1 DEF LeaseExpired
  <2> QED
    BY <2>1, <2>2, ReleasedType
<1>2. CASE j \notin R
  BY <1>2 DEF Swept
<1> QED
  BY <1>1, <1>2

LEMMA HandleRow ==
  ASSUME TypeOK, enrolled \subseteq Devices, NEW r, NEW answer \in Answers, Handle(r, answer),
         NEW j \in JobIds
  PROVE  /\ revokedAt' = revokedAt
         /\ jobs'[j] = jobs[j] \/ RowSwept(r, j) \/ RowGranted(r, j) \/ RowAnswered(r, j)
         /\ r.op = "claim" /\ answer = j => RowGranted(r, j)
         /\ r.op = "claim" /\ RowGranted(r, j) => answer = j
         /\ r.op \in {"complete", "fail"} /\ r.job = j => RowAnswered(r, j)
<1>0. jobs[j] \in Row /\ now \in Nat /\ jobs[j].attempts \in Nat
  BY DEF TypeOK, Row
<1>1. CASE EnrollDevice(r, answer)
  BY <1>1 DEF EnrollDevice, vars
<1>2. CASE Touch(r)
  BY <1>2 DEF Touch, vars
<1>3. CASE ClaimDeviceJob(r, answer)
  <2>1. CASE answer = None
    <3>1. PICK R \in SUBSET JobIds :
            (\A i \in R : LeaseExpired(jobs[i], r.dev, now)) /\ jobs' = Swept(R)
      BY <1>3, <2>1 DEF ClaimDeviceJob, ClaimNothing
    <3>2. jobs'[j] = jobs[j] \/ RowSwept(r, j)
      BY <1>3, <3>1, ReleasedRow DEF ClaimDeviceJob, RowSwept
    <3>3. ~ RowGranted(r, j)
      BY <1>0, <3>2 DEF RowSwept, RowGranted
    <3> QED
      BY <1>3, <2>1, <3>2, <3>3, ReceiverAssumption DEF ClaimDeviceJob, ClaimNothing
  <2>2. CASE answer # None
    <3>1. /\ r.op = "claim" /\ Active(r.dev) /\ answer \in JobIds
          /\ ClaimJob(r.dev, now, answer) /\ revokedAt' = revokedAt
      BY <1>3, <2>2 DEF ClaimDeviceJob, ClaimableNow, ClaimJob, Authentic, Active
    <3>2. PICK R \in SUBSET JobIds :
            /\ \A i \in R : LeaseExpired(jobs[i], r.dev, now)
            /\ Claimable(Swept(R)[answer], r.dev, now)
            /\ jobs' = [Swept(R) EXCEPT ![answer] = Leased(@, now)]
      BY <3>1 DEF ClaimJob
    <3>3. CASE j = answer
      <4>1. Swept(R)[j] \in Row /\ jobs'[j] = Leased(Swept(R)[j], now)
        BY <3>2, <3>3, SweptType DEF Swept
      <4>2. /\ Swept(R)[j].status = "pending" /\ Swept(R)[j].dev = r.dev
        BY <3>2, <3>3 DEF Claimable
      <4>3. /\ jobs[j].status \in {"pending", "claimed"} /\ jobs[j].dev = r.dev
            /\ Swept(R)[j].attempts = jobs[j].attempts
        BY <3>2, <4>2, ReleasedRow
      <4>4. PICK row \in Row : row = Swept(R)[j]
        BY <4>1
      <4>5. /\ Leased(row, now).status = "claimed"
            /\ Leased(row, now).attempts = row.attempts + 1
            /\ \A f \in {"org", "dev", "key", "created", "expires", "completed"} :
                 Leased(row, now)[f] = row[f]
        BY <1>0, LeasedType
      <4>6. Leased(row, now)["dev"] = row["dev"]
        BY <4>5
      <4>7. /\ jobs'[j].status = "claimed" /\ jobs'[j].dev = r.dev
            /\ jobs'[j].attempts = jobs[j].attempts + 1
        BY <4>1, <4>2, <4>3, <4>4, <4>5, <4>6
      <4>8. RowGranted(r, j)
        BY <3>1, <4>3, <4>7 DEF RowGranted
      <4> QED
        BY <3>1, <3>3, <4>8
    <3>4. CASE j # answer
      <4>1. jobs'[j] = Swept(R)[j]
        BY <3>2, <3>4 DEF Swept
      <4>2. jobs'[j] = jobs[j] \/ RowSwept(r, j)
        BY <3>1, <3>2, <4>1, ReleasedRow DEF RowSwept
      <4>3. ~ RowGranted(r, j)
        BY <1>0, <4>2 DEF RowSwept, RowGranted
      <4> QED
        BY <3>1, <3>4, <4>2, <4>3
    <3> QED
      BY <3>3, <3>4
  <2> QED
    BY <2>1, <2>2
<1>4. CASE FinishDeviceJob(r)
  <2>1. PICK outcome \in Outcomes :
          /\ r.op \in {"complete", "fail"}
          /\ Finish(r.dev, r.job, outcome, now)
    BY <1>4 DEF FinishDeviceJob, Outcomes
  <2>2. CASE r.job = j
    <3>1. jobs'[j] = Finished(jobs[j], outcome, now)
      BY <2>1, <2>2 DEF Finish, TypeOK
    <3>2. RowAnswered(r, j)
      BY <1>0, <2>1, <2>2, <3>1, FinishedType DEF RowAnswered
    <3> QED
      BY <2>1, <3>2 DEF Finish
  <2>3. CASE r.job # j
    BY <2>1, <2>3 DEF Finish, TypeOK
  <2> QED
    BY <2>2, <2>3
<1> QED
  BY <1>1, <1>2, <1>3, <1>4 DEF Handle

\* The answer to the receiver's own request: it works on no other job when it claims.
LEMMA ServeLoss ==
  ASSUME LossInv, NEW answer \in Answers, Serve(answer)
  PROVE  CredentialInv' /\ \A j \in JobIds : LeaseInv(j)'
<1>1. /\ TypeOK /\ enrolled \subseteq Devices /\ WaitInv /\ CredentialInv
      /\ RequestInv(request) /\ struck \in [JobIds -> Nat]
      /\ \A j \in JobIds : jobs[j].attempts \in Nat
  BY DEF LossInv, ReceiverInv, ProcessInv, ReceiverTypeOK, TypeOK, Row
<1>2. /\ Handle(request, answer) /\ request.state = "sent" /\ request # NoRequest
      /\ UNCHANGED <<receiver, keychain, abandoned, faults, struck>>
  BY NoRequestInv, ReceiverAssumption DEF Serve
<1>3. /\ request'.op = request.op /\ request'.dev = request.dev /\ request'.job = request.job
      /\ request'.state = "done" /\ request'.answer = answer
  BY DEF Serve, LossInv, ReceiverInv, ProcessInv, ReceiverTypeOK, Requests
<1>4. /\ enrolled \subseteq enrolled'
      /\ request.op = "enroll" => answer \in enrolled'
  BY <1>2 DEF Handle, EnrollDevice, Touch, ClaimDeviceJob, FinishDeviceJob
<1>5. CredentialInv'
  <2>1. request.op \in {"complete", "fail"} => jobs'[request.job].status \in Outcomes
    BY <1>1, <1>2, HandleRow DEF RequestInv, RowAnswered
  <2> QED
    BY <1>1, <1>2, <1>3, <1>4, <2>1 DEF CredentialInv
<1>6. ASSUME NEW j \in JobIds
      PROVE  LeaseInv(j)'
  <2>1. /\ LeaseInv(j) /\ revokedAt' = revokedAt
        /\ jobs'[j] = jobs[j] \/ RowSwept(request, j) \/ RowGranted(request, j)
             \/ RowAnswered(request, j)
    BY <1>1, <1>2, HandleRow DEF LossInv
  <2>2. CASE request.op = "claim"
    <3>1. ~ WorksOn(j)
      BY <1>1, <1>2, <2>2 DEF WorksOn, WaitInv
    <3>2. WorksOn(j)' <=> RowGranted(request, j)
      BY <1>1, <1>2, <1>3, <2>2, HandleRow DEF WorksOn, WaitInv
    <3>3. CASE RowGranted(request, j)
      BY <1>1, <1>2, <2>1, <3>1, <3>2, <3>3 DEF LeaseInv, RowGranted, Active, CredentialInv
    <3>4. CASE ~ RowGranted(request, j)
      BY <1>1, <1>2, <2>1, <2>2, <3>1, <3>2, <3>4
         DEF LeaseInv, RowSwept, RowAnswered, Active
    <3> QED
      BY <3>3, <3>4
  <2>3. CASE request.op # "claim"
    <3>1. WorksOn(j)' <=> WorksOn(j)
      BY <1>2, <1>3, <2>3 DEF WorksOn
    <3>2. jobs'[j] = jobs[j] \/ RowAnswered(request, j)
      BY <2>1, <2>3 DEF RowSwept, RowGranted
    <3> QED
      BY <1>2, <2>1, <3>1, <3>2 DEF LeaseInv, RowAnswered, Active, Outcomes
  <2> QED
    BY <2>2, <2>3
<1> QED
  BY <1>5, <1>6

\* A request that nobody waits for: what a claim changes, it strikes.
LEMMA ServeAbandonedLoss ==
  ASSUME LossInv, NEW r \in abandoned, NEW answer \in Answers, ServeAbandoned(r, answer)
  PROVE  CredentialInv' /\ \A j \in JobIds : LeaseInv(j)'
<1>1. /\ TypeOK /\ enrolled \subseteq Devices /\ RequestInv(r) /\ struck \in [JobIds -> Nat]
      /\ \A j \in JobIds : jobs[j].attempts \in Nat
  BY DEF LossInv, ReceiverInv, ProcessInv, ReceiverTypeOK, TypeOK, Row
<1>2. /\ Handle(r, answer)
      /\ struck' = [j \in JobIds |-> struck[j] +
                      IF j \in {i \in JobIds : r.op = "claim" /\ jobs'[i] # jobs[i]} THEN 1 ELSE 0]
      /\ UNCHANGED <<receiver, keychain, request>>
  BY DEF ServeAbandoned, Strike
<1>3. [Next]_vars
  BY <1>1, <1>2, HandleIsJobStep
<1>4. enrolled \subseteq enrolled'
  BY <1>2 DEF Handle, EnrollDevice, Touch, ClaimDeviceJob, FinishDeviceJob
<1>5. CredentialInv'
  BY <1>2, <1>3, <1>4, CredentialKept DEF LossInv, CredentialInv
<1>6. ASSUME NEW j \in JobIds
      PROVE  LeaseInv(j)'
  <2>1. /\ LeaseInv(j) /\ revokedAt' = revokedAt /\ (WorksOn(j)' <=> WorksOn(j))
        /\ struck'[j] = struck[j] + IF r.op = "claim" /\ jobs'[j] # jobs[j] THEN 1 ELSE 0
        /\ struck[j] \in Nat /\ jobs[j].attempts \in Nat
    BY <1>1, <1>2, HandleRow DEF LossInv, WorksOn
  <2>2. CASE jobs'[j] = jobs[j]
    BY <1>2, <2>1, <2>2 DEF LeaseInv, Active
  <2>3. CASE RowSwept(r, j)
    <3>1. struck'[j] = struck[j] + 1
      BY <2>1, <2>3 DEF RowSwept
    <3> QED
      BY <1>2, <2>1, <2>3, <3>1 DEF LeaseInv, RowSwept
  <2>4. CASE RowGranted(r, j)
    <3>1. struck'[j] = struck[j] + 1
      BY <2>1, <2>4 DEF RowGranted
    <3> QED
      BY <1>2, <2>1, <2>4, <3>1 DEF LeaseInv, RowGranted, Active
  <2>5. CASE RowAnswered(r, j)
    <3>1. struck'[j] = struck[j] /\ jobs'[j].status \notin {"pending", "claimed", "absent"}
      BY <2>1, <2>5 DEF RowAnswered, Outcomes
    <3> QED
      BY <1>2, <2>1, <2>5, <3>1 DEF LeaseInv, RowAnswered
  <2> QED
    BY <1>1, <1>2, <2>2, <2>3, <2>4, <2>5, HandleRow
<1> QED
  BY <1>5, <1>6

\* People and the clock.
LEMMA ElsewhereLoss ==
  ASSUME LossInv, UNCHANGED receiverVars, [Next]_vars,
         UserCreates \/ AdministratorRevokes \/ Tick \/ UNCHANGED vars
  PROVE  CredentialInv' /\ \A j \in JobIds : LeaseInv(j)'
<1>1. CredentialInv'
  BY CredentialKept DEF receiverVars, LossInv, CredentialInv
<1>2. ASSUME NEW j \in JobIds
      PROVE  LeaseInv(j)'
  <2>1. /\ ReceiverInv /\ LeaseInv(j) /\ (WorksOn(j)' <=> WorksOn(j))
        /\ struck'[j] = struck[j] /\ struck[j] \in Nat /\ receiver' = receiver
    BY DEF LossInv, ReceiverInv, ProcessInv, ReceiverTypeOK, receiverVars, WorksOn
  <2>2. /\ jobs \in [JobIds -> Row] /\ now \in Nat
        /\ revokedAt \in [Devices -> Nat \cup {None}]
    BY <2>1 DEF ReceiverInv, TypeOK
  <2>3. CASE UserCreates
    <3>1. PICK d \in enrolled, ttl \in TTLs, i \in JobIds :
            Create(OrgOf[d], d, CHOOSE k \in NewKeys(d) : TRUE, ttl, now, i)
      BY <2>3 DEF UserCreates
    <3>2. CASE i = j
      <4>1. jobs[j].status = "absent" /\ jobs'[j].attempts = 0 /\ jobs'[j].status = "pending"
        BY <2>2, <3>1, <3>2 DEF Create, NewRow
      <4> QED
        BY <2>1, <4>1 DEF LeaseInv
    <3>3. CASE i # j
      <4>1. jobs'[j] = jobs[j] /\ revokedAt' = revokedAt
        BY <2>2, <3>1, <3>3 DEF Create
      <4> QED
        BY <2>1, <4>1, LeaseKept
    <3> QED
      BY <3>2, <3>3
  <2>4. CASE AdministratorRevokes
    <3>1. PICK d \in enrolled : Revoke(d)
      BY <2>4 DEF AdministratorRevokes
    <3>2. \A e \in Devices : revokedAt'[e] = None => revokedAt[e] = None
      BY <2>2, <3>1 DEF Revoke
    <3>3. jobs' = jobs
      BY <3>1 DEF Revoke
    <3> QED
      BY <2>1, <3>2, <3>3, LeaseKept
  <2>5. CASE Tick \/ UNCHANGED vars
    <3>1. jobs' = jobs /\ revokedAt' = revokedAt
      BY <2>5 DEF Tick, vars
    <3> QED
      BY <2>1, <3>1, LeaseKept
  <2> QED
    BY <2>3, <2>4, <2>5
<1> QED
  BY <1>1, <1>2

LEMMA LossInit == Init /\ ReceiverInit => LossInv
<1> SUFFICES ASSUME Init, ReceiverInit PROVE LossInv
  OBVIOUS
<1>1. ReceiverInv
  BY InitType, InitProcessInv DEF ReceiverInv
<1>2. CredentialInv
  BY NoRequestInv, ReceiverAssumption DEF ReceiverInit, CredentialInv, Off, Operations
<1>3. ASSUME NEW j \in JobIds
      PROVE  LeaseInv(j)
  <2>1. ~ WorksOn(j)
    BY NoRequestInv, ReceiverAssumption DEF ReceiverInit, WorksOn, Off, Operations
  <2> QED
    BY <2>1 DEF Init, ReceiverInit, NoRow, LeaseInv
<1> QED
  BY <1>1, <1>2, <1>3 DEF LossInv

LEMMA LossStep == LossInv /\ [ReceiverNext]_allVars => LossInv'
<1> SUFFICES ASSUME LossInv, [ReceiverNext]_allVars PROVE LossInv'
  OBVIOUS
<1>1. ReceiverInv' /\ [Next]_vars
  BY ProcessStep, StepIsJobStep DEF LossInv
<1>2. ASSUME NEW r \in abandoned, Lose(r)
      PROVE  CredentialInv' /\ \A j \in JobIds : LeaseInv(j)'
  <2>1. /\ UNCHANGED <<receiver, keychain, request, enrolled, struck>>
        /\ jobs' = jobs /\ revokedAt' = revokedAt
    BY <1>2 DEF Lose, vars
  <2>2. CredentialInv'
    BY <1>1, <2>1, CredentialKept DEF LossInv, CredentialInv
  <2>3. ASSUME NEW j \in JobIds
        PROVE  LeaseInv(j)'
    <3>1. /\ ReceiverInv /\ LeaseInv(j) /\ struck[j] \in Nat /\ (WorksOn(j)' <=> WorksOn(j))
          /\ struck'[j] = struck[j]
      BY <2>1 DEF LossInv, ReceiverInv, ProcessInv, ReceiverTypeOK, WorksOn
    <3> QED
      BY <2>1, <3>1, LeaseKept
  <2> QED
    BY <2>2, <2>3
<1>3. ASSUME \/ Start \/ StartWithoutCredential \/ Send \/ Receive \/ StoreCredential
             \/ Retry \/ Exit \/ Refuse
      PROVE  CredentialInv' /\ \A j \in JobIds : LeaseInv(j)'
  <2>1. UNCHANGED vars
    BY <1>3 DEF Start, StartWithoutCredential, Send, Receive, StoreCredential, Retry, Exit, Refuse
  <2> QED
    BY <1>3, <2>1, ProcessLoss
<1>4. ASSUME \/ UserCreates \/ AdministratorRevokes
             \/ (Tick /\ UNCHANGED receiverVars) \/ UNCHANGED allVars
      PROVE  CredentialInv' /\ \A j \in JobIds : LeaseInv(j)'
  <2>1. UNCHANGED receiverVars /\ (UserCreates \/ AdministratorRevokes \/ Tick \/ UNCHANGED vars)
    BY <1>4 DEF UserCreates, AdministratorRevokes, allVars
  <2> QED
    BY <1>1, <2>1, ElsewhereLoss
<1>5. CredentialInv' /\ \A j \in JobIds : LeaseInv(j)'
  BY <1>2, <1>3, <1>4, ServeLoss, ServeAbandonedLoss DEF ReceiverNext, Serves
<1> QED
  BY <1>1, <1>5 DEF LossInv

\* Whatever requests are lost or executed late, a job has lost an attempt for each
\* fault that struck its lease, and no other: the receiver answers what it is given.
THEOREM OnlyFaultsCostAttempts == ReceiverSpec => []AttemptsLostToFaults
<1>1. LossInv => AttemptsLostToFaults
  BY DEF LossInv, LeaseInv, AttemptsLostToFaults
<1> QED
  BY <1>1, LossInit, LossStep, PTL DEF ReceiverSpec
=============================================================================
