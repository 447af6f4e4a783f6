-------------------------- MODULE MCDeviceTransactions --------------------------
(* Values of DeviceTransactions' constants for TLC. *)
EXTENDS DeviceTransactions, TLC

MCSymmetry ==
  Permutations(Tokens) \cup Permutations(DeviceIds) \cup Permutations(Hashes)
    \cup Permutations(Sessions)
=============================================================================
