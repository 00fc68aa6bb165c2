---------------------------- MODULE MCCrmControl ----------------------------
(* Instance of CrmControl for TLC. *)
EXTENDS CrmControl, TLC

\* The sessions run the same code.
SessionSymmetry == Permutations(Sessions)
=============================================================================
