------------------------------ MODULE MCAuditChain ------------------------------
(* Values of AuditChain's constants for TLC. *)
EXTENDS AuditChain, TLC

CONSTANTS o1, o2

MCDistinct == o1 :> 1 @@ o2 :> 2
MCSymmetry == Permutations(Sessions)
=============================================================================
