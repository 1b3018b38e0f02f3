------------------------------- MODULE MCApp -------------------------------
(***************************************************************************)
(* Model-checking instance of App.  Runs and requests are interchangeable; *)
(* jobs are not, one of them is there from the start.                      *)
(***************************************************************************)
EXTENDS App, TLC

IdSymmetry == Permutations(Runs) \cup Permutations(Requests)
=============================================================================
