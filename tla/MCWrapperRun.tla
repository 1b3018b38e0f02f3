---------------------------- MODULE MCWrapperRun ----------------------------
(***************************************************************************)
(* Model-checking instance of WrapperRun: a script run as its owner, a     *)
(* command, a move whose backups are rotated, a copy whose backups are all *)
(* kept, and a job that does not compile.                                  *)
(***************************************************************************)
EXTENDS WrapperRun, TLC

CONSTANT User

Script  == [action |-> "script", mode |-> "add", backup |-> FALSE, keep |-> 0,
            identity |-> "owner", uid |-> User, sound |-> TRUE]
Command == [Script EXCEPT !.action = "command", !.identity = "fixed"]
Move    == [Command EXCEPT !.action = "sync", !.mode = "move", !.backup = TRUE,
                           !.keep = 1]
Copy    == [Move EXCEPT !.mode = "add", !.keep = 0]
Broken  == [Move EXCEPT !.sound = FALSE]

JobKinds == {Script, Command, Move, Copy, Broken}

IdSymmetry == Permutations(Ids)
=============================================================================
