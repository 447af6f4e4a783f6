--------------------------- MODULE MCJobTransactions ---------------------------
(* Values of JobTransactions' constants for TLC. *)
EXTENDS JobTransactions, TLC

CONSTANTS d1, o1

MCOrgOf == d1 :> o1
MCSymmetry == Permutations(JobIds) \cup Permutations(Keys) \cup Permutations(Sessions)
=============================================================================
