--------------------------- MODULE MCHostExecutor ---------------------------
(***************************************************************************)
(* Model-checking instance of HostExecutor.                                *)
(***************************************************************************)
EXTENDS HostExecutor
=============================================================================
