--------------------------- MODULE MCWatchManager ---------------------------
(***************************************************************************)
(* Model-checking instances of WatchManager.                               *)
(***************************************************************************)
EXTENDS WatchManager, TLC

IdSymmetry ==
  Permutations(Jobs) \cup Permutations(Handles) \cup Permutations(Callbacks)
    \cup Permutations(Planners)
=============================================================================
