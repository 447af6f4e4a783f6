---------------------------- MODULE MemoryEnrollment ----------------------------
(***************************************************************************)
(* InMemoryEnrollmentStore and EnrollmentService                           *)
(* (apps/api/app/enrollment.py): the thread-safe fake of the protocol      *)
(* tests, shown to implement DeviceRegistry.tla for one organization.      *)
(*                                                                         *)
(* Each method of the store holds its lock for one step.  enroll and       *)
(* heartbeat are two of them each, and calls of other threads come in      *)
(* between: enrolling and beating hold the calls that are half done.       *)
(* Nothing revokes a device of the fake; update_heartbeat would write      *)
(* "online" over a revocation.                                             *)
(***************************************************************************)
EXTENDS ApiProcess, FiniteSets

CONSTANTS
  MTokens,   \* tokens that can be issued
  MDevices,  \* device ids that can be generated
  MTTLs,     \* values of token_ttl
  MSkew,     \* max_clock_skew
  MThreads   \* bound on the calls that are half done

ASSUME MemoryEnrollmentAssumption ==
  /\ MTTLs \subseteq Nat
  /\ MSkew \in Nat
  /\ Nil \notin MDevices

VARIABLES
  tokenOf,    \* the token records; "sold" is one that was deleted from the dict
  deviceOf,   \* the device records
  enrolling,  \* enrollments whose token is consumed, before add_device
  beating     \* heartbeats that are authenticated, before update_heartbeat

memoryEnrollmentVars == <<tokenOf, deviceOf, enrolling, beating, clock>>

-----------------------------------------------------------------------------

MToken == [state : {"unknown", "valid", "sold"}, expires : Nat, device : MDevices \cup {Nil}]
MDevice == [status : {"unknown", "online"}, seen : Nat]

MemoryEnrollmentInit ==
  /\ tokenOf = [tk \in MTokens |-> [state |-> "unknown", expires |-> 0, device |-> Nil]]
  /\ deviceOf = [d \in MDevices |-> [status |-> "unknown", seen |-> 0]]
  /\ enrolling = {}
  /\ beating = {}

\* Another call may begin.
ThreadFree == Cardinality(enrolling) + Cardinality(beating) < MThreads

\* issue_token, add_token
AddToken(tk, ttl) ==
  /\ tokenOf[tk].state = "unknown"
  /\ tokenOf' = [tokenOf EXCEPT ![tk].state = "valid", ![tk].expires = clock + ttl]
  /\ UNCHANGED <<deviceOf, enrolling, beating, clock>>

\* A slip: the record is found, but not deleted.
FindToken(tk, t, d) ==
  /\ ThreadFree
  /\ tokenOf[tk].state = "valid"
  /\ tokenOf[tk].expires > t
  /\ deviceOf[d].status = "unknown"
  /\ \A e \in enrolling : e.device # d
  /\ enrolling' = enrolling \cup {[token |-> tk, device |-> d, at |-> t]}
  /\ UNCHANGED <<tokenOf, deviceOf, beating, clock>>

\* The first half of enroll: consume_token deletes the record; the device id is
\* generated.
ConsumeToken(tk, t, d) ==
  /\ ThreadFree
  /\ tokenOf[tk].state = "valid"
  /\ tokenOf[tk].expires > t
  /\ deviceOf[d].status = "unknown"
  /\ \A e \in enrolling : e.device # d
  /\ tokenOf' = [tokenOf EXCEPT ![tk].state = "sold"]
  /\ enrolling' = enrolling \cup {[token |-> tk, device |-> d, at |-> t]}
  /\ UNCHANGED <<deviceOf, beating, clock>>

\* The second half: add_device.
AddDevice(e) ==
  /\ e \in enrolling
  /\ enrolling' = enrolling \ {e}
  /\ deviceOf' = [deviceOf EXCEPT
                    ![e.device] = [status |-> "online", seen |-> e.at]]
  /\ tokenOf' = [tokenOf EXCEPT ![e.token].device = e.device]
  /\ UNCHANGED <<beating, clock>>

\* The first half of heartbeat: the clocks are compared, then authenticate_device.
Authenticate(d, observed, t) ==
  /\ ThreadFree
  /\ observed <= t + MSkew
  /\ t <= observed + MSkew
  /\ deviceOf[d].status = "online"
  /\ beating' = beating \cup {[device |-> d, observed |-> observed]}
  /\ UNCHANGED <<tokenOf, deviceOf, enrolling, clock>>

\* The second half: update_heartbeat, whatever happened in between.
UpdateHeartbeat(b) ==
  /\ b \in beating
  /\ beating' = beating \ {b}
  /\ deviceOf' = [deviceOf EXCEPT ![b.device].seen = b.observed,
                                  ![b.device].status = "online"]
  /\ UNCHANGED <<tokenOf, enrolling, clock>>

MemoryEnrollmentNext ==
  \/ \E tk \in MTokens, ttl \in MTTLs : AddToken(tk, ttl)
  \/ \E tk \in MTokens, t \in 0 .. clock, d \in MDevices : ConsumeToken(tk, t, d)
  \/ \E e \in enrolling : AddDevice(e)
  \/ \E d \in MDevices, t \in 0 .. clock, observed \in 0 .. clock + MSkew :
       Authenticate(d, observed, t)
  \/ \E b \in beating : UpdateHeartbeat(b)
  \/ Advance /\ UNCHANGED <<tokenOf, deviceOf, enrolling, beating>>

MemoryEnrollmentSpec ==
  MemoryEnrollmentInit /\ ClockInit /\ [][MemoryEnrollmentNext]_memoryEnrollmentVars

-----------------------------------------------------------------------------

MemoryEnrollmentTypeOK ==
  /\ tokenOf \in [MTokens -> MToken]
  /\ deviceOf \in [MDevices -> MDevice]
  /\ enrolling \subseteq [token : MTokens, device : MDevices, at : Nat]
  /\ beating \subseteq [device : MDevices, observed : Nat]

(***************************************************************************)
(* The registry this store stands for.  A token that was consumed counts   *)
(* as unused until its device is added: the two happen in one transaction  *)
(* there.  The fake keeps no serial numbers and no inventory.              *)
(***************************************************************************)
Registry == INSTANCE DeviceRegistry WITH
  Tokens <- MTokens, DeviceIds <- MDevices, Serials <- {}, Hashes <- {},
  TTLs <- MTTLs, Skew <- MSkew, MaxTime <- Horizon, None <- Nil,
  tokens <- [tk \in MTokens |-> [expires |-> tokenOf[tk].expires, usedBy |-> tokenOf[tk].device]],
  devices <- [d \in MDevices |-> [enrolled |-> deviceOf[d].status # "unknown", serial |-> Nil,
                                  seen |-> deviceOf[d].seen, revoked |-> Nil]],
  snapshots <- {},
  now <- clock

\* The fake keeps the promises of the device repository although it takes its
\* lock twice in a call: a token buys one device, only a valid one does, and
\* only an enrolled device sends heartbeats.
MemoryImplementsDeviceRegistry == Registry!Spec
=============================================================================
