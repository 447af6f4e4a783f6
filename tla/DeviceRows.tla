------------------------------- MODULE DeviceRows -------------------------------
(***************************************************************************)
(* Rows of public.enrollment_tokens, public.devices and                    *)
(* public.inventory_snapshots, restricted to the columns that enrollment,  *)
(* heartbeats, revocation and the replacement of snapshots depend on.      *)
(* DeviceRegistry.tla and DeviceTransactions.tla build on these.           *)
(***************************************************************************)
EXTENDS Naturals

CONSTANTS
  Tokens,      \* enrollment tokens that can be issued
  DeviceIds,   \* device ids that can be generated; bounds the devices
  Serials,     \* serial numbers that agents send; "" is one like any other
  Hashes,      \* hashes of inventory payloads
  TTLs,        \* lifetimes of tokens
  Skew,        \* largest accepted difference of a heartbeat's clock
  MaxTime,     \* bound on the clock
  None         \* SQL null

ASSUME ConstantsAssumption ==
  /\ TTLs \subseteq Nat \ {0}
  /\ Skew \in Nat
  /\ MaxTime \in Nat
  /\ None \notin Nat
  /\ None \notin DeviceIds

-----------------------------------------------------------------------------

\* A token that was not issued expires at 0.
Token == [expires : Nat, usedBy : DeviceIds \cup {None}]

\* A device is revoked from the time in revoked on.
Device == [enrolled : BOOLEAN, serial : Serials \cup {None},
           seen : Nat, revoked : Nat \cup {None}]

NoDevice == [enrolled |-> FALSE, serial |-> None, seen |-> 0, revoked |-> None]

\* A slip: last_heartbeat_at stays null until the first heartbeat.
NewSilentDevice(serial, t) ==
  [enrolled |-> TRUE, serial |-> serial, seen |-> None, revoked |-> None]

\* Enrollment counts as the first heartbeat.
NewDevice(serial, t) ==
  [enrolled |-> TRUE, serial |-> serial, seen |-> t, revoked |-> None]

Snapshot == [dev : DeviceIds, hash : Hashes]

\* abs(accepted_at - observed_at) <= 5 minutes
Near(observed, t) == observed <= t + Skew /\ t <= observed + Skew
=============================================================================
