----------------------------- MODULE MCMacReceiver -----------------------------
(* Values of MacReceiver's constants for TLC. *)
EXTENDS MacReceiver

CONSTANTS o1, j1

\* The devices are enrollments of the one Mac.
MCOrgOf == [d \in Devices |-> o1]
=============================================================================
