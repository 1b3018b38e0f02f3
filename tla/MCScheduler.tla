----------------------------- MODULE MCScheduler -----------------------------
(***************************************************************************)
(* Model-checking instances of Scheduler.                                  *)
(***************************************************************************)
EXTENDS Scheduler, TLC

IdSymmetry ==
  Permutations(Jobs) \cup Permutations(Callers) \cup Permutations(Callbacks)
=============================================================================
