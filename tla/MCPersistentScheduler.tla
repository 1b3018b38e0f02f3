----------------------- MODULE MCPersistentScheduler -----------------------
(***************************************************************************)
(* Model-checking instance of PersistentScheduler and WrapperStore.        *)
(***************************************************************************)
EXTENDS PersistentScheduler, TLC

TempSymmetry == Permutations(Temps)
=============================================================================
