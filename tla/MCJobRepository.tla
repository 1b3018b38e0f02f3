--------------------------- MODULE MCJobRepository ---------------------------
(***************************************************************************)
(* Model-checking instances of JobRepository.                              *)
(***************************************************************************)
EXTENDS JobRepository, TLC

CONSTANT OldValue

\* No file yet, and a version 1 file whose next id is behind its jobs.
NewAndLegacy ==
  {NoFile,
   [version |-> 1, next |-> 1,
    jobs |-> [i \in Ids |-> IF i = 1 THEN [rev |-> 0, val |-> OldValue] ELSE NoJob]]}

ProcSymmetry == Permutations(Procs)
=============================================================================
