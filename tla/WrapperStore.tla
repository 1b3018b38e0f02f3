---------------------------- MODULE WrapperStore ----------------------------
(***************************************************************************)
(* WrapperStore.Install (cmd/syncbridge/wrapper.go): the root-owned shell  *)
(* wrapper of a job is written to a staging file in the job's directory,   *)
(* secured, synced and moved over run.sh.  Every host operation is one     *)
(* command and may fail.  Goroutines of runs and the persistent scheduler  *)
(* install wrappers of one job under the same path without a common lock.  *)
(*                                                                         *)
(* A wrapper's text is represented by the job's revision it was rendered   *)
(* from.  The checks that the hierarchy is root-owned and free of symbolic *)
(* links change no file that is there; a check that fails is a failed      *)
(* command.  Nothing else writes there.                                    *)
(***************************************************************************)
EXTENDS Naturals

CONSTANTS
  Jobs,
  Installers,    \* goroutines that may be inside Install
  Temps,         \* bound: staging names of mktemp in one job's directory
  MaxRevision,   \* bound: revisions of one job
  NoFile         \* the file does not exist

VARIABLES
  staging,       \* job |-> staging name |-> file
  target,        \* job |-> file: run.sh
  inst           \* installer |-> its call of Install

wrapperVars == <<staging, target, inst>>

Text == 1..MaxRevision

\* A file mktemp has just created, or one tee did not finish.
Partial == 0

\* secure: owned by root, mode 0700, contents on disk
File == [text : Text \cup {Partial}, secure : BOOLEAN]

IdleCall(j) == [pc |-> "idle", job |-> j, text |-> Partial, temp |-> NoFile]

Call == [pc : {"idle", "begin", "created", "written", "secured", "renamed", "done",
               "failed"},
         job : Jobs, text : Text \cup {Partial}, temp : Temps \cup {NoFile}]

WrapperTypeOK ==
  /\ staging \in [Jobs -> [Temps -> File \cup {NoFile}]]
  /\ target \in [Jobs -> File \cup {NoFile}]
  /\ inst \in [Installers -> Call]

WrapperInit ==
  /\ staging = [j \in Jobs |-> [t \in Temps |-> NoFile]]
  /\ target = [j \in Jobs |-> NoFile]
  /\ inst \in [Installers -> {IdleCall(CHOOSE j \in Jobs : TRUE)}]
-----------------------------------------------------------------------------
At(i, pc) == inst[i].pc = pc
Step(i, pc) == inst' = [inst EXCEPT ![i].pc = pc]

\* The file i is working on
Staged(i) == staging[inst[i].job][inst[i].temp]
Put(i, f) == staging' = [staging EXCEPT ![inst[i].job][inst[i].temp] = f]

\* validateStagingFile, and validateRegularRootFile with require0700
Present(f) == f # NoFile
Checked(f) == Present(f) /\ f.secure

\* A call of Install for job j
Install(i, j, text) ==
  /\ At(i, "idle")
  /\ inst' = [inst EXCEPT ![i] = [pc |-> "begin", job |-> j, text |-> text,
                                  temp |-> NoFile]]
  /\ UNCHANGED <<staging, target>>

\* Mutant: the staging file has a fixed name.
MktempFixed(i) ==
  LET t == CHOOSE x \in Temps : TRUE IN
  /\ At(i, "begin")
  /\ inst' = [inst EXCEPT ![i].pc = "created", ![i].temp = t]
  /\ staging' = [staging EXCEPT ![inst[i].job][t] = [text |-> Partial, secure |-> FALSE]]
  /\ UNCHANGED target

\* secureManagedHierarchy, validateTarget and mktemp, which takes a new name
Mktemp(i) ==
  /\ At(i, "begin")
  /\ \E t \in Temps :
       /\ staging[inst[i].job][t] = NoFile
       /\ inst' = [inst EXCEPT ![i].pc = "created", ![i].temp = t]
       /\ staging' = [staging EXCEPT ![inst[i].job][t] =
                        [text |-> Partial, secure |-> FALSE]]
  /\ UNCHANGED target

\* The rendered text through tee
Tee(i) ==
  /\ At(i, "created") /\ Present(Staged(i))
  /\ Put(i, [Staged(i) EXCEPT !.text = inst[i].text])
  /\ Step(i, "written")
  /\ UNCHANGED target

\* chown, chmod, sync -f: nobody but i knows the staging file, so in one step
Secure(i) ==
  /\ At(i, "written") /\ Present(Staged(i))
  /\ Put(i, [Staged(i) EXCEPT !.secure = TRUE])
  /\ Step(i, "secured")
  /\ UNCHANGED target

\* The last checks, and mv -T -f
Mv(i) ==
  /\ At(i, "secured") /\ Checked(Staged(i))
  /\ target' = [target EXCEPT ![inst[i].job] = Staged(i)]
  /\ Put(i, NoFile)
  /\ Step(i, "renamed")

\* The installed file and its directory are checked and synced.
Confirm(i) ==
  /\ At(i, "renamed") /\ Checked(target[inst[i].job])
  /\ Step(i, "done")
  /\ UNCHANGED <<staging, target>>

\* A command or check fails.  Before mv the staging file is removed, which may
\* fail as well; after it the new wrapper stays although an error is returned.
InstallFails(i) ==
  /\ inst[i].pc \in {"begin", "created", "written", "secured", "renamed"}
  /\ \/ inst[i].pc \in {"created", "written", "secured"} /\ Put(i, NoFile)
     \/ UNCHANGED staging
  /\ Step(i, "failed")
  /\ UNCHANGED target

InstallStep(i) ==
  Mktemp(i) \/ Tee(i) \/ Secure(i) \/ Mv(i) \/ Confirm(i) \/ InstallFails(i)
-----------------------------------------------------------------------------
Whole(f) == f.text # Partial /\ f.secure
=============================================================================
