---------------------------- MODULE MCRunService ----------------------------
(***************************************************************************)
(* Model-checking instances of RunService.  Run identifiers and jobs are   *)
(* model values; permuting them changes no safety property.                *)
(***************************************************************************)
EXTENDS RunService, TLC

IdSymmetry == Permutations(Runs) \cup Permutations(Jobs)
=============================================================================
