----------------------------- MODULE MCWatchRuns -----------------------------
(***************************************************************************)
(* Model-checking instance of WatchRuns.                                   *)
(***************************************************************************)
EXTENDS WatchRuns
=============================================================================
