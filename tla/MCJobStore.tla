------------------------------ MODULE MCJobStore ------------------------------
(* Values of JobStore's constants for TLC. *)
EXTENDS JobStore, TLC

CONSTANTS d1, o1

MCOrgOf == d1 :> o1
MCSymmetry == Permutations(JobIds) \cup Permutations(Keys)
=============================================================================
