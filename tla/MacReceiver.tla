------------------------------- MODULE MacReceiver -------------------------------
(***************************************************************************)
(* The macOS receiver (scripts/yorguard-receiver.py --watch --jobs), kept  *)
(* alive by launchd, and the API it calls: enrollment, then for ever a     *)
(* heartbeat, an inventory, a claim and the answer to the job it got.      *)
(* Jobs are those of JobStore.tla, which every claim and answer is a step  *)
(* of; users create them and an administrator may revoke the device.       *)
(*                                                                         *)
(* The receiver waits for one request at a time.  A request it gave up on  *)
(* may still be executed: those are in abandoned.  Faults are requests     *)
(* that get no answer or an error and exits of the process; their number   *)
(* is bounded.  A call of the API is one transaction, and transactions of  *)
(* the receiver's requests do not overlap: handlers run to their end on    *)
(* the event loop.  The loop's pauses are left out: time may pass anywhere. *)
(***************************************************************************)
EXTENDS JobStore, FiniteSets

CONSTANTS
  Refreshes,  \* the jobs whose action is refresh_inventory
  MaxFaults   \* bound on the faults

VARIABLES
  receiver,   \* the process: where it is, its credential, the job it works on
  keychain,   \* the credential in the macOS Keychain
  request,    \* the request it waits for
  abandoned,  \* requests it gave up on that were not executed yet
  enrolled,   \* the devices that are enrolled
  fresh,      \* history: an inventory was stored since the last heartbeat call
  faults,     \* history: the number of faults
  struck      \* history: how often each job's lease was struck by a fault

receiverVars == <<receiver, keychain, request, abandoned, enrolled, fresh, faults, struck>>
allVars == <<vars, receiverVars>>

-----------------------------------------------------------------------------

\* Where the process is; "off" is until launchd starts it again.
Stages == {"off", "enroll", "store", "heartbeat", "inventory", "claim", "finish"}

\* The calls it makes.
Operations == {"enroll", "heartbeat", "inventory", "claim", "complete", "fail"}

ASSUME ReceiverAssumption ==
  /\ None \notin Devices \cup JobIds
  /\ None \notin Operations \cup {"sent", "done"}

\* The answers to a request; a claim is answered with a job or None.
NoRequest == [op |-> None, dev |-> None, job |-> None, fresh |-> FALSE,
              state |-> None, answer |-> None]
Off == [stage |-> "off", cred |-> None, job |-> None]

Strike(J) == struck' = [j \in JobIds |-> struck[j] + IF j \in J THEN 1 ELSE 0]

\* A fault, which strikes the lease of job j if that is a job.
Fault(j) ==
  /\ faults < MaxFaults
  /\ faults' = faults + 1
  /\ Strike({j})

ReceiverInit ==
  /\ receiver = Off
  /\ keychain = None
  /\ request = NoRequest
  /\ abandoned = {}
  /\ enrolled = {}
  /\ fresh = FALSE
  /\ faults = 0
  /\ struck = [j \in JobIds |-> 0]

-----------------------------------------------------------------------------
(* The receiver. *)

\* main reads the credential from the Keychain.
Start ==
  /\ receiver.stage = "off"
  /\ keychain # None
  /\ receiver' = [Off EXCEPT !.stage = "heartbeat", !.cred = keychain]
  /\ UNCHANGED <<vars, keychain, request, abandoned, enrolled, fresh, faults, struck>>

\* Without one it asks for a token.  A Keychain that cannot be read looks like an
\* empty one.
StartWithoutCredential ==
  /\ receiver.stage = "off"
  /\ keychain # None => Fault(None)
  /\ keychain = None => UNCHANGED <<faults, struck>>
  /\ receiver' = [Off EXCEPT !.stage = "enroll"]
  /\ UNCHANGED <<vars, keychain, request, abandoned, enrolled, fresh>>

\* A slip: an action that is not supported is left to run out.
RefreshOnly(j) == IF j \in Refreshes THEN "complete" ELSE "heartbeat"

\* process_test_job: the answer to a job depends on its action only.
AnswerTo(j) == IF j \in Refreshes THEN "complete" ELSE "fail"

\* A slip: jobs are asked for before the inventory is submitted.
ClaimFirst(stage) ==
  IF stage = "heartbeat" THEN "claim" ELSE IF stage = "inventory" THEN "heartbeat" ELSE "inventory"

\* A slip: the loop ends its round with the inventory.
NeverClaim(stage) == IF stage = "heartbeat" THEN "inventory" ELSE "heartbeat"

\* What the loop does after a call that succeeded without giving it a job.
NextStage(stage) ==
  IF stage = "heartbeat" THEN "inventory" ELSE IF stage = "inventory" THEN "claim" ELSE "heartbeat"

\* request_json, called from enroll, heartbeat, submit_inventory (which collects
\* the inventory before) and process_test_job.
Send ==
  LET op == IF receiver.stage = "finish" THEN AnswerTo(receiver.job) ELSE receiver.stage
  IN /\ receiver.stage \in {"enroll", "heartbeat", "inventory", "claim", "finish"}
     /\ request = NoRequest
     /\ request' = [NoRequest EXCEPT !.op = op, !.dev = receiver.cred, !.job = receiver.job,
                                     !.fresh = fresh, !.state = "sent"]
     /\ fresh' = IF op = "heartbeat" THEN FALSE ELSE fresh
     /\ UNCHANGED <<vars, receiver, keychain, abandoned, enrolled, faults, struck>>

\* The answer arrives.
Receive ==
  /\ request.state = "done"
  /\ request' = NoRequest
  /\ receiver' =
       IF request.op = "enroll" THEN [receiver EXCEPT !.stage = "store", !.cred = request.answer]
       ELSE IF request.op = "claim" /\ request.answer # None
       THEN [receiver EXCEPT !.stage = "finish", !.job = request.answer]
       ELSE [receiver EXCEPT !.stage = NextStage(receiver.stage), !.job = None]
  /\ UNCHANGED <<vars, keychain, abandoned, enrolled, fresh, faults, struck>>

\* keychain_write replaces what was stored before.
StoreCredential ==
  /\ receiver.stage = "store"
  /\ keychain' = receiver.cred
  /\ receiver' = [receiver EXCEPT !.stage = "heartbeat"]
  /\ UNCHANGED <<vars, request, abandoned, enrolled, fresh, faults, struck>>

\* The job whose lease is hit when the receiver leaves its round now: the one it
\* works on, or the one the answer it does not get would have given it.
Held == IF receiver.stage = "finish" THEN receiver.job
        ELSE IF request.op = "claim" THEN request.answer ELSE None

\* What becomes of the request the receiver waits for when it gives up.
GiveUp ==
  /\ request' = NoRequest
  /\ abandoned' = IF request.state = "sent" THEN abandoned \cup {request} ELSE abandoned

\* A slip: the loop starts again with the job it had.
RetryWithJob ==
  /\ receiver.stage \in {"heartbeat", "inventory", "claim", "finish"}
  /\ Fault(Held)
  /\ GiveUp
  /\ receiver' = [receiver EXCEPT !.stage = "heartbeat"]
  /\ UNCHANGED <<vars, keychain, enrolled, fresh>>

\* RuntimeError or OSError, a timeout included, in the loop: the credential is
\* kept and the loop starts again.
Retry ==
  /\ receiver.stage \in {"heartbeat", "inventory", "claim", "finish"}
  /\ Fault(Held)
  /\ GiveUp
  /\ receiver' = [receiver EXCEPT !.stage = "heartbeat", !.job = None]
  /\ UNCHANGED <<vars, keychain, enrolled, fresh>>

\* Any other exception, any exception before the loop (also of keychain_write),
\* and the end of the process: launchd starts it again.
Exit ==
  /\ receiver.stage # "off"
  /\ Fault(Held)
  /\ GiveUp
  /\ receiver' = Off
  /\ UNCHANGED <<vars, keychain, enrolled, fresh>>

-----------------------------------------------------------------------------
(* The API. *)

\* The device of a request is enrolled and not revoked.
Authentic(r) == r.dev \in enrolled /\ revokedAt[r.dev] = None

\* enroll_device, with a token that is valid: a new device.
EnrollDevice(r, d) ==
  /\ r.op = "enroll"
  /\ d \in Devices \ enrolled
  /\ enrolled' = enrolled \cup {d}
  /\ UNCHANGED <<vars, fresh>>

\* device_heartbeat and submit_inventory, which leave the jobs alone.
Touch(r) ==
  /\ r.op \in {"heartbeat", "inventory"}
  /\ Authentic(r)
  /\ fresh' = (fresh \/ r.op = "inventory")
  /\ UNCHANGED <<vars, enrolled>>

\* The job a claim leases: the oldest that is claimable once the leases that ran
\* out are returned, all of them as no other transaction holds them.
ClaimableNow(d) ==
  LET R == {j \in JobIds : LeaseExpired(jobs[j], d, now)}
      found == {j \in JobIds : Claimable(Swept(R)[j], d, now)}
  IN {j \in found : \A i \in found : jobs[i].created >= jobs[j].created}

\* claim_device_job: revoked devices lease nothing.
ClaimDeviceJob(r, j) ==
  /\ r.op = "claim"
  /\ IF j = None
     THEN (~ Authentic(r) \/ ClaimableNow(r.dev) = {}) /\ ClaimNothing(r.dev, now)
     ELSE Authentic(r) /\ j \in ClaimableNow(r.dev) /\ ClaimJob(r.dev, now, j)
  /\ \A i \in JobIds : ~ LeaseExpired(jobs'[i], r.dev, now)
  /\ UNCHANGED <<enrolled, fresh>>

\* complete_device_job, fail_device_job
FinishDeviceJob(r) ==
  /\ \/ r.op = "complete" /\ Finish(r.dev, r.job, "succeeded", now)
     \/ r.op = "fail" /\ Finish(r.dev, r.job, "failed", now)
  /\ UNCHANGED <<enrolled, fresh>>

\* The transaction of a request, with its answer.
Handle(r, answer) ==
  \/ EnrollDevice(r, answer)
  \/ answer = None /\ Touch(r)
  \/ ClaimDeviceJob(r, answer)
  \/ answer = None /\ FinishDeviceJob(r)

Answers == Devices \cup JobIds \cup {None}

Serve(answer) ==
  /\ request.state = "sent"
  /\ Handle(request, answer)
  /\ request' = [request EXCEPT !.state = "done", !.answer = answer]
  /\ UNCHANGED <<receiver, keychain, abandoned, faults, struck>>

\* A request is executed that nobody waits for any more, or never.  A claim strikes
\* the leases it grants and those it ends.
ServeAbandoned(r, answer) ==
  /\ r \in abandoned
  /\ abandoned' = abandoned \ {r}
  /\ Handle(r, answer)
  /\ Strike({j \in JobIds : r.op = "claim" /\ jobs'[j] # jobs[j]})
  /\ UNCHANGED <<receiver, keychain, request, faults>>

Lose(r) ==
  /\ r \in abandoned
  /\ abandoned' = abandoned \ {r}
  /\ UNCHANGED <<vars, receiver, keychain, request, enrolled, fresh, faults, struck>>

\* 401 and 409: the device is revoked or the job is no longer claimed; the loop
\* goes on.  A token that is not valid ends the process.
Refuse ==
  /\ request.state = "sent"
  /\ \/ request.op \in {"heartbeat", "inventory"} /\ ~ Authentic(request)
     \/ /\ request.op \in {"complete", "fail"}
        /\ ~ Authentic(request) \/ jobs[request.job].status # "claimed"
     \/ request.op = "enroll"
  /\ request' = NoRequest
  /\ receiver' = IF request.op = "enroll" THEN Off
                 ELSE [receiver EXCEPT !.stage = "heartbeat", !.job = None]
  /\ UNCHANGED <<vars, keychain, abandoned, enrolled, fresh, faults, struck>>

\* create_job and the revocation, for devices that are enrolled.  Users send new
\* keys: a repeated one changes nothing.
NewKeys(d) == {k \in Keys : ~ KeyTaken(jobs, OrgOf[d], d, k)}

UserCreates ==
  /\ \E d \in enrolled, ttl \in TTLs, j \in JobIds :
       /\ NewKeys(d) # {}
       /\ Create(OrgOf[d], d, CHOOSE k \in NewKeys(d) : TRUE, ttl, now, j)
  /\ UNCHANGED receiverVars

AdministratorRevokes == (\E d \in enrolled : Revoke(d)) /\ UNCHANGED receiverVars

-----------------------------------------------------------------------------

Serves == \E answer \in Answers : Serve(answer)

ReceiverNext ==
  \/ Start
  \/ StartWithoutCredential
  \/ Send
  \/ Receive
  \/ StoreCredential
  \/ Retry
  \/ Exit
  \/ Serves
  \/ \E r \in abandoned, answer \in Answers : ServeAbandoned(r, answer)
  \/ \E r \in abandoned : Lose(r)
  \/ Refuse
  \/ UserCreates
  \/ AdministratorRevokes
  \/ Tick /\ UNCHANGED receiverVars

\* launchd keeps the process alive, the process goes on and the API answers.
\* Nothing is assumed of people, of the clock or of abandoned requests.
ReceiverFairness ==
  /\ WF_allVars(Start)
  /\ WF_allVars(Send)
  /\ WF_allVars(Receive)
  /\ WF_allVars(StoreCredential)
  /\ WF_allVars(Serves)
  /\ WF_allVars(Refuse)

ReceiverSpec == Init /\ ReceiverInit /\ [][ReceiverNext]_allVars /\ ReceiverFairness

-----------------------------------------------------------------------------

Requests == [op : Operations \cup {None}, dev : Devices \cup {None},
             job : JobIds \cup {None}, fresh : BOOLEAN,
             state : {"sent", "done", None}, answer : Devices \cup JobIds \cup {None}]

\* The receiver has a credential from its first heartbeat on and a job while it
\* answers one, whatever request was lost or executed late.
ReceiverTypeOK ==
  /\ receiver \in [stage : Stages, cred : Devices \cup {None}, job : JobIds \cup {None}]
  /\ receiver.stage \in {"off", "enroll"} <=> receiver.cred = None
  /\ receiver.stage = "finish" <=> receiver.job # None
  /\ keychain \in Devices \cup {None}
  /\ request \in Requests
  /\ abandoned \subseteq Requests
  /\ enrolled \subseteq Devices
  /\ <<fresh, faults>> \in BOOLEAN \X Nat
  /\ struck \in [JobIds -> Nat]

\* A job is leased again only because a fault struck its lease: the receiver
\* answers every job it is given, also those it does not support, and never works
\* on a job while its own claim returns it to the queue.
AttemptsLostToFaults == \A j \in JobIds : jobs[j].attempts <= 1 + struck[j]

\* "inventory_submitted" is true: between the last heartbeat call and the
\* acknowledgement of a job an inventory was stored, whatever failed in between.
\* It may be older than the claim of the job, and than the job.
AcknowledgedWithInventory ==
  \A r \in abandoned \cup {request} : r.op = "complete" => r.fresh

\* A queued job gets its outcome, unless it expires, faults strike its lease, its
\* device is revoked or the Mac uses another credential by then.
QueuedJobIsAnswered ==
  \A j \in JobIds :
    jobs[j].status = "pending"
      ~> \/ jobs[j].status \in Outcomes
         \/ now >= jobs[j].expires
         \/ struck[j] > 0
         \/ revokedAt[jobs[j].dev] # None
         \/ keychain # jobs[j].dev
=============================================================================
