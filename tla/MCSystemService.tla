--------------------------- MODULE MCSystemService ---------------------------
(***************************************************************************)
(* Model-checking instance of SystemService.                               *)
(***************************************************************************)
EXTENDS SystemService, TLC

IdSymmetry == Permutations(Calls)
=============================================================================
