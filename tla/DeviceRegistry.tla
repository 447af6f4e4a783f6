----------------------------- MODULE DeviceRegistry -----------------------------
(***************************************************************************)
(* What DeviceRepository and InventoryRepository promise about the devices *)
(* of one organization, its enrollment tokens and inventory snapshots:     *)
(* every call that changes them is one atomic step, taken when its         *)
(* transaction commits.  t is the time at which the call began.            *)
(* DeviceTransactions.tla breaks the steps into SQL statements and is      *)
(* shown to implement this specification.                                  *)
(*                                                                         *)
(* A device credential is generated with its device and never changes, so  *)
(* the credential is identified with the device.                           *)
(***************************************************************************)
EXTENDS DeviceRows

VARIABLES
  tokens,      \* the committed rows of public.enrollment_tokens
  devices,     \* the committed rows of public.devices
  snapshots,   \* the committed rows of public.inventory_snapshots
  now          \* the clock of the API hosts and the database

vars == <<tokens, devices, snapshots, now>>

-----------------------------------------------------------------------------

\* where consumed_at is null and expires_at > now
ValidToken(tk, t) == tokens[tk].usedBy = None /\ tokens[tk].expires > t

\* unique (organization_id, serial_number): nulls never conflict
SerialTaken(serial) ==
  serial # None /\ \E d \in DeviceIds : devices[d].enrolled /\ devices[d].serial = serial

\* The device was enrolled and not yet revoked at some moment since t.
ActiveSince(d, t) ==
  devices[d].enrolled /\ (devices[d].revoked # None => devices[d].revoked >= t)

Of(d) == {s \in snapshots : s.dev = d}

-----------------------------------------------------------------------------

Init ==
  /\ tokens = [tk \in Tokens |-> [expires |-> 0, usedBy |-> None]]
  /\ devices = [d \in DeviceIds |-> NoDevice]
  /\ snapshots = {}
  /\ now = 0

\* issue_token
IssueToken(tk, ttl) ==
  /\ tokens[tk].expires = 0
  /\ tokens' = [tokens EXCEPT ![tk].expires = now + ttl]
  /\ UNCHANGED <<devices, snapshots, now>>

\* enroll: consume the token and insert the device.
Enroll(tk, serial, t, d) ==
  /\ ValidToken(tk, t)
  /\ ~ devices[d].enrolled
  /\ ~ SerialTaken(serial)
  /\ devices' = [devices EXCEPT ![d] = NewDevice(serial, t)]
  /\ tokens' = [tokens EXCEPT ![tk].usedBy = d]
  /\ UNCHANGED <<snapshots, now>>

\* heartbeat, with the time the agent observed: a late one sets seen back.
Heartbeat(d, observed) ==
  /\ devices[d].enrolled
  /\ devices[d].revoked = None
  /\ devices' = [devices EXCEPT ![d].seen = observed]
  /\ UNCHANGED <<tokens, snapshots, now>>

(***************************************************************************)
(* submit: replace the device's snapshots by a new one.  The snapshots in  *)
(* kept were committed by transactions that overlap this one; its delete   *)
(* did not see them.  (device_id, payload_hash) is unique.                 *)
(***************************************************************************)
Submit(d, hash, t) ==
  \E kept \in SUBSET Of(d) :
    /\ ActiveSince(d, t)
    /\ \A s \in kept : s.hash # hash
    /\ snapshots' = (snapshots \ Of(d)) \cup kept \cup {[dev |-> d, hash |-> hash]}
    /\ UNCHANGED <<tokens, devices, now>>

\* An administrator revokes a device with a direct update of public.devices.
Revoke(d) ==
  /\ devices[d].enrolled
  /\ devices[d].revoked = None
  /\ devices' = [devices EXCEPT ![d].revoked = now]
  /\ UNCHANGED <<tokens, snapshots, now>>

Tick ==
  /\ now < MaxTime
  /\ now' = now + 1
  /\ UNCHANGED <<tokens, devices, snapshots>>

Next ==
  \/ \E tk \in Tokens, ttl \in TTLs : IssueToken(tk, ttl)
  \/ \E tk \in Tokens, serial \in Serials \cup {None}, t \in 0 .. now,
        d \in DeviceIds : Enroll(tk, serial, t, d)
  \/ \E d \in DeviceIds, observed \in 0 .. now + Skew : Heartbeat(d, observed)
  \/ \E d \in DeviceIds, hash \in Hashes, t \in 0 .. now : Submit(d, hash, t)
  \/ \E d \in DeviceIds : Revoke(d)
  \/ Tick

Spec == Init /\ [][Next]_vars

-----------------------------------------------------------------------------

TypeOK ==
  /\ tokens \in [Tokens -> Token]
  /\ devices \in [DeviceIds -> Device]
  /\ snapshots \subseteq Snapshot
  /\ now \in Nat

\* One enrollment token buys one device: every enrolled device was paid for by
\* exactly one token, and no token names a device that does not exist.
OneDevicePerToken ==
  \A d \in DeviceIds :
    IF devices[d].enrolled
    THEN \E tk \in Tokens : \A other \in Tokens : tokens[other].usedBy = d <=> other = tk
    ELSE \A tk \in Tokens : tokens[tk].usedBy # d

\* No two devices of the organization have the same serial number, a revoked one
\* included: a machine that was revoked cannot be enrolled again.
SerialsUnique ==
  \A d, e \in DeviceIds :
    /\ devices[d].enrolled
    /\ devices[e].enrolled
    /\ devices[d].serial = devices[e].serial
    /\ devices[d].serial # None
    => d = e

\* Revocation is final: no heartbeat or enrollment that was under way, and none
\* that arrives late, changes a revoked device's row.
RevocationIsFinal ==
  [][\A d \in DeviceIds : devices[d].revoked # None => devices'[d] = devices[d]]_vars

\* Replacing a snapshot never leaves a device without one.
InventoryIsKept ==
  [][\A d \in DeviceIds : Of(d) # {} => Of(d)' # {}]_vars
=============================================================================
