----------------------------- MODULE WrapperRun -----------------------------
(***************************************************************************)
(* What happens on the host when a job runs: PlanCompiler                  *)
(* (cmd/syncbridge/execution_plan.go), the script that WrapperRenderer     *)
(* writes (wrapper.go) and the terminal effects (run_effects.go).          *)
(*                                                                         *)
(* A process is a run of the controller, which compiles a plan, installs   *)
(* the wrapper and starts it, or a cron or systemd trigger, which starts   *)
(* the wrapper that is there.  Compiling and the guards of the wrapper are *)
(* sequences of looks at the host; each look is a step, and files,         *)
(* contents and accounts change between two of them.  Runs of the          *)
(* controller exclude each other (RunService); nothing excludes a trigger. *)
(***************************************************************************)
EXTENDS Naturals, Sequences, FiniteSets

CONSTANTS
  Processes,  \* natural numbers, used as process identifiers
  Jobs,       \* the jobs considered, one of which is run
  Ids,        \* identities (device and inode) of files and directories
  Uids, Root, \* owners; one of them is root
  Missing,    \* a path without a file
  NoPlan,     \* no wrapper is installed
  MaxChanges  \* bound: changes of the host by others

Paths == {"work", "src", "dst", "script"}

\* A job as far as running it depends on it.  sound: what does not depend on
\* the host is valid.
Job == [action : {"script", "command", "sync"}, mode : {"add", "mirror", "move"},
        backup : BOOLEAN, keep : Nat, identity : {"owner", "fixed"},
        uid : Uids, sound : BOOLEAN]

ASSUME WrapperAssumption ==
  /\ Processes \subseteq Nat \ {0}
  /\ Jobs \subseteq Job /\ Root \in Uids
  /\ MaxChanges \in Nat

VARIABLES
  job,       \* the job
  node,      \* what is found at a path
  canonical, \* paths that resolve to themselves
  filled,    \* directories that have entries
  accounts,  \* owners with a coherent account
  changes,   \* number of changes by others
  text,      \* the plan in the installed wrapper
  clock,     \* date, in seconds
  backups,   \* directories below .sb-backup, as <<seconds, process>>
  made,      \* history variable: all that were ever there
  proc       \* the processes

hostVars   == <<node, canonical, filled, accounts, changes>>
backupVars == <<backups, made>>
vars == <<job, hostVars, text, clock, backupVars, proc>>

\* A file: "script" is a regular executable with a shebang, "file" one
\* without.  Its owner matters for scripts only.
Node == [id : Ids, kind : {"dir", "script", "file"}, uid : Uids]

\* stat -c %d:%i:%f:%u:%g, which does not show the contents
Snapshot(n) ==
  IF n = Missing THEN Missing ELSE [id |-> n.id, dir |-> n.kind = "dir", uid |-> n.uid]
Seen == [id : Ids, dir : BOOLEAN, uid : Uids]

NodesAt(p) ==
  CASE p = "work"   -> [id : Ids, kind : {"dir"}, uid : {Root}]
    [] p = "script" -> [id : Ids, kind : {"script", "file"}, uid : Uids]
    [] OTHER        -> [id : Ids, kind : {"dir", "file"}, uid : {Root}]

PathsOf(j) == {"work"} \cup CASE j.action = "script" -> {"script"}
                               [] j.action = "sync"   -> {"src", "dst"}
                               [] OTHER               -> {}

IsKind(p, kinds) == node[p] # Missing /\ node[p].kind \in kinds
-----------------------------------------------------------------------------
(***************************************************************************)
(* Plans.                                                                  *)
(***************************************************************************)
\* syncArgv
Destructive(j) == j.action = "sync" /\ j.mode \in {"mirror", "move"}

\* ExecutionPlan; guard is NonEmptySourceDir, keep the backup_keep of the
\* wrapper, which a dry run leaves at 0.
PlanOf(j, dry) ==
  [action |-> j.action, mode |-> j.mode, dry |-> dry, guard |-> Destructive(j),
   backup |-> j.action = "sync" /\ j.backup, keep |-> IF dry THEN 0 ELSE j.keep,
   identity |-> j.identity, uid |-> j.uid]

Plan == [action : {"script", "command", "sync"}, mode : {"add", "mirror", "move"},
         dry : BOOLEAN, guard : BOOLEAN, backup : BOOLEAN, keep : Nat,
         identity : {"owner", "fixed"}, uid : Uids]

\* The paths are absolute and do not overlap, and arguments, limits and
\* environment are valid: pathWithin, validateArgv, compileExecutionBounds,
\* compileEnvironment.
Sound(j) == j.sound

\* What Compile refuses without a look at the host.
Compilable(j, dry) ==
  /\ Sound(j)
  /\ j.identity = "owner" => j.action = "script"
  /\ dry => j.action = "sync"

\* WrapperRenderer.validate
Consistent(p) ==
  /\ p.guard = (p.action = "sync" /\ p.mode \in {"mirror", "move"})
  /\ p.dry => p.action = "sync"
  /\ p.identity = "owner" => p.action = "script"

See(do, p) == [do |-> do, at |-> p]
LookType   == [do : {"canonical", "dir", "dirIfAny", "dirAsSeen", "script", "exec",
                     "entry", "same", "snap", "ownerNow", "owner", "fixed", "stamp"},
               at : Paths]

\* validateIdentity
ValidateIdentity(j) ==
  IF j.identity = "owner"
  THEN <<See("canonical", "script"), See("script", "script"), See("ownerNow", "script")>>
  ELSE <<See("fixed", "work")>>

\* compileSync inspects the source and then the destination.
CompileSync(j) ==
  <<See("canonical", "src"), See("dir", "src")>>
    \o (IF Destructive(j) THEN <<See("entry", "src")>> ELSE << >>)
    \o <<See("canonical", "dst"), See("dirIfAny", "dst")>>

CompileAction(j) ==
  CASE j.action = "script" -> <<See("canonical", "script"), See("script", "script")>>
    [] j.action = "sync"   -> CompileSync(j)
    [] OTHER               -> << >>

\* Compile: the looks at the host, in order.
Compile(j) ==
  <<See("canonical", "work"), See("dir", "work")>>
    \o ValidateIdentity(j) \o CompileAction(j)
-----------------------------------------------------------------------------
(***************************************************************************)
(* The wrapper: what the text of a plan looks at before it runs the        *)
(* action.                                                                 *)
(***************************************************************************)
\* renderScriptValidation and the snapshot that follows it
RenderScriptValidation == <<See("script", "script"), See("snap", "script")>>

RenderSyncValidation ==
  <<See("dir", "src"), See("dirIfAny", "dst"), See("snap", "src"), See("snap", "dst")>>

RenderNonEmptySourceCheck(p) ==
  IF p.guard THEN <<See("dir", "src"), See("entry", "src")>> ELSE << >>

\* Mutant: the contents are not looked at again.
RenderFinalGuardsOnce(p) ==
  CASE p.action = "script" ->
         <<See("canonical", "script"), See("same", "script"), See("exec", "script")>>
    [] p.action = "sync" ->
         <<See("canonical", "src"), See("canonical", "dst"), See("same", "src"),
           See("same", "dst"), See("dir", "src"), See("dirAsSeen", "dst")>>
    [] OTHER -> << >>

RenderFinalGuards(p) ==
  CASE p.action = "script" ->
         <<See("canonical", "script"), See("same", "script"), See("exec", "script")>>
    [] p.action = "sync" ->
         <<See("canonical", "src"), See("canonical", "dst"), See("same", "src"),
           See("same", "dst"), See("dir", "src"), See("dirAsSeen", "dst")>>
           \o RenderNonEmptySourceCheck(p)
    [] OTHER -> << >>

\* wrapperValidationPaths
ValidationPaths(p) ==
  <<See("canonical", "work")>>
    \o CASE p.action = "script" -> <<See("canonical", "script")>>
         [] p.action = "sync" -> <<See("canonical", "src"), See("canonical", "dst")>>
         [] OTHER -> << >>

\* renderRuntimeBackup
RenderRuntimeBackup(p) == IF p.backup THEN <<See("stamp", "work")>> ELSE << >>

Ending(p) == RenderFinalGuards(p) \o RenderRuntimeBackup(p)

Render(p) ==
  ValidationPaths(p) \o <<See("dir", "work")>>
    \o (CASE p.action = "script" -> RenderScriptValidation
          [] p.action = "sync"   -> RenderSyncValidation
          [] OTHER               -> << >>)
    \o <<See(p.identity, "work")>>
    \o RenderNonEmptySourceCheck(p)
    \o Ending(p)
-----------------------------------------------------------------------------
Steps == {"new", "compile", "install", "launch", "guards", "running", "glob",
          "retain", "remove", "hook", "rotate", "done", "failed", "killed"}

NewProcess ==
  [step |-> "new", run |-> FALSE, dry |-> FALSE, plan |-> NoPlan, looks |-> << >>,
   snap |-> [p \in Paths |-> Missing], uid |-> Root, stamp |-> 0, todo |-> {},
   clean |-> FALSE, mine |-> FALSE, removed |-> {}, why |-> "none"]

At(w, step)   == proc[w].step = step
Goto(w, step) == proc' = [proc EXCEPT ![w].step = step]

\* The end of a process; what it removed and why it failed is remembered.
End(w, step, why) ==
  proc' = [proc EXCEPT ![w] = [NewProcess EXCEPT !.step = step, !.why = why,
                                                 !.removed = proc[w].removed]]

Names == Nat \X (Processes \cup {0})

Proc ==
  [step : Steps, run : BOOLEAN, dry : BOOLEAN, plan : Plan \cup {NoPlan},
   looks : Seq(LookType), snap : [Paths -> Seen \cup {Missing}], uid : Uids,
   stamp : Nat, todo : SUBSET Names, clean : BOOLEAN, mine : BOOLEAN,
   removed : SUBSET Names,
   why : {"none", "compile", "install", "guards", "command", "candidate", "rm"}]

TypeOK ==
  /\ job \in Jobs
  /\ node \in [Paths -> Node \cup {Missing}]
  /\ canonical \subseteq Paths /\ filled \subseteq Ids /\ accounts \subseteq Uids
  /\ changes \in 0..MaxChanges
  /\ text \in {NoPlan, PlanOf(job, TRUE), PlanOf(job, FALSE)}
  /\ clock \in Nat
  /\ backups \subseteq made /\ made \subseteq Names
  /\ proc \in [Processes -> Proc]

\* All is in place; the directory at src has entries; one old backup.
Init ==
  /\ job \in Jobs
  /\ \E i \in Ids : node = [p \in Paths |->
       IF p = "script" THEN [id |-> i, kind |-> "script", uid |-> job.uid]
       ELSE [id |-> i, kind |-> "dir", uid |-> Root]]
  /\ canonical = Paths /\ filled = Ids /\ accounts = Uids /\ changes = 0
  /\ text \in {NoPlan} \cup (IF Compilable(job, FALSE) THEN {PlanOf(job, FALSE)} ELSE {})
  /\ clock = 1
  /\ backups = {<<0, 0>>} /\ made = {<<0, 0>>}
  /\ proc = [w \in Processes |-> NewProcess]
-----------------------------------------------------------------------------
(***************************************************************************)
(* The host.                                                               *)
(***************************************************************************)
Disturbed == [w \in Processes |-> [proc[w] EXCEPT !.clean = FALSE]]

\* Someone mounts, unmounts, replaces, edits, fills or empties what the job
\* uses, or changes an account.
HostChanges ==
  /\ changes < MaxChanges /\ changes' = changes + 1
  /\ \/ \E p \in PathsOf(job) : \E n \in (NodesAt(p) \cup {Missing}) \ {node[p]} :
          /\ node' = [node EXCEPT ![p] = n]
          /\ UNCHANGED <<canonical, filled, accounts>>
     \/ \E p \in PathsOf(job) :
          /\ canonical' = IF p \in canonical THEN canonical \ {p} ELSE canonical \cup {p}
          /\ UNCHANGED <<node, filled, accounts>>
     \/ \E i \in Ids :
          /\ filled' = IF i \in filled THEN filled \ {i} ELSE filled \cup {i}
          /\ UNCHANGED <<node, canonical, accounts>>
     \/ \E u \in Uids :
          /\ accounts' = IF u \in accounts THEN accounts \ {u} ELSE accounts \cup {u}
          /\ UNCHANGED <<node, canonical, filled>>
  /\ proc' = Disturbed
  /\ UNCHANGED <<job, text, clock, backupVars>>

\* PersistentScheduler.Reconcile installs the wrapper of the job, also under
\* a run that is about to start it.
Reconcile ==
  /\ Compilable(job, FALSE) /\ text # PlanOf(job, FALSE)
  /\ text' = PlanOf(job, FALSE)
  /\ proc' = [w \in Processes |-> [proc[w] EXCEPT !.mine = @ /\ ~At(w, "launch")]]
  /\ UNCHANGED <<job, hostVars, clock, backupVars>>
-----------------------------------------------------------------------------
(***************************************************************************)
(* A run of the controller up to the start of the wrapper.                 *)
(***************************************************************************)
Occupied == {"compile", "install", "launch", "guards", "running", "glob", "retain",
             "remove"}

\* Mutant: a run does not wait for another one.
RequestOverlapping(w) ==
  /\ At(w, "new")
  /\ \E dry \in BOOLEAN :
       /\ Compilable(job, dry)
       /\ proc' = [proc EXCEPT ![w].step = "compile", ![w].run = TRUE,
                               ![w].dry = dry, ![w].looks = Compile(job)]
  /\ UNCHANGED <<job, hostVars, text, clock, backupVars>>

\* execute(), under RunLifecycle's exclusion of runs.
Request(w) ==
  /\ At(w, "new")
  /\ \A v \in Processes : proc[v].run => proc[v].step \notin Occupied
  /\ \E dry \in BOOLEAN :
       IF Compilable(job, dry)
       THEN proc' = [proc EXCEPT ![w].step = "compile", ![w].run = TRUE,
                                 ![w].dry = dry, ![w].looks = Compile(job)]
       ELSE End(w, "failed", "compile")
  /\ UNCHANGED <<job, hostVars, text, clock, backupVars>>

\* WrapperStore.Install, after Render has validated the plan.
Install(w) ==
  LET p == PlanOf(job, proc[w].dry) IN
  /\ At(w, "install")
  /\ \/ /\ Consistent(p) /\ text' = p
        /\ proc' = [proc EXCEPT ![w].step = "launch", ![w].mine = TRUE]
     \/ End(w, "failed", "install") /\ UNCHANGED text
  /\ UNCHANGED <<job, hostVars, clock, backupVars>>

\* The shell opens the wrapper that is there by now, whoever installed it.
Launch(w) ==
  /\ At(w, "launch") \/ At(w, "new")
  /\ text # NoPlan
  /\ proc' = [proc EXCEPT ![w].step = "guards", ![w].plan = text,
                          ![w].looks = Render(text)]
  /\ UNCHANGED <<job, hostVars, text, clock, backupVars>>
-----------------------------------------------------------------------------
(***************************************************************************)
(* Looks.                                                                  *)
(***************************************************************************)
\* LookupUser, LookupGroup and the getent of the wrapper: one account, whose
\* name and number agree.
Coherent(u) == u \in accounts

Owner(w) == proc[w].snap["script"].uid

Passes(w, l) ==
  CASE l.do = "canonical" -> l.at \in canonical
    [] l.do = "dir"       -> IsKind(l.at, {"dir"})
    [] l.do = "dirIfAny"  -> node[l.at] = Missing \/ IsKind(l.at, {"dir"})
    [] l.do = "dirAsSeen" -> proc[w].snap[l.at] = Missing \/ IsKind(l.at, {"dir"})
    [] l.do = "script"    -> IsKind(l.at, {"script"})
    [] l.do = "exec"      -> IsKind(l.at, {"script", "file"})
    [] l.do = "entry"     -> IsKind(l.at, {"dir"}) /\ node[l.at].id \in filled
    [] l.do = "same"      -> Snapshot(node[l.at]) = proc[w].snap[l.at]
    [] l.do = "ownerNow"  -> /\ node[l.at] # Missing /\ node[l.at].uid # Root
                             /\ Coherent(node[l.at].uid)
    [] l.do = "owner"     -> /\ proc[w].snap["script"] # Missing /\ Owner(w) # Root
                             /\ Coherent(Owner(w))
    [] l.do = "fixed"     -> Coherent(job.uid)
    [] OTHER              -> TRUE

\* What the process remembers of a look.
Noted(w, l) ==
  LET me == proc[w] IN
  CASE l.do = "snap"  -> [me EXCEPT !.snap[l.at] = Snapshot(node[l.at])]
    [] l.do = "owner" -> [me EXCEPT !.uid = Owner(w)]
    [] l.do = "fixed" -> [me EXCEPT !.uid = job.uid]
    [] l.do = "stamp" -> [me EXCEPT !.stamp = clock']
    [] OTHER          -> me

\* The final guards of the wrapper begin.
Begins(w) ==
  At(w, "guards") /\ Len(proc[w].looks) = Len(Ending(proc[w].plan))

\* A look that passes.
Look(w) ==
  LET l == Head(proc[w].looks) IN
  /\ proc[w].step \in {"compile", "guards"} /\ proc[w].looks # << >>
  /\ Passes(w, l)
  /\ clock' \in IF l.do = "stamp" THEN {clock, clock + 1} ELSE {clock}
  /\ proc' = [proc EXCEPT ![w] =
       [Noted(w, l) EXCEPT !.looks = Tail(@), !.clean = @ \/ Begins(w)]]
  /\ UNCHANGED <<job, hostVars, text, backupVars>>

\* A look that does not pass or cannot be taken: Compile returns an error, the
\* wrapper exits with 126.
LookFails(w) ==
  /\ proc[w].step \in {"compile", "guards"} /\ proc[w].looks # << >>
  /\ End(w, "failed", proc[w].step)
  /\ UNCHANGED <<job, hostVars, text, clock, backupVars>>

Compiled(w) ==
  /\ At(w, "compile") /\ proc[w].looks = << >> /\ Goto(w, "install")
  /\ UNCHANGED <<job, hostVars, text, clock, backupVars>>
-----------------------------------------------------------------------------
(***************************************************************************)
(* The action and the retention of backups.                                *)
(***************************************************************************)
\* renderExec: setpriv and the command
Exec(w) ==
  /\ At(w, "guards") /\ proc[w].looks = << >>
  /\ proc' = [proc EXCEPT ![w].step = "running", ![w].snap = NewProcess.snap,
                          ![w].clean = FALSE]
  /\ UNCHANGED <<job, hostVars, text, clock, backupVars>>

Syncing(w) == At(w, "running") /\ proc[w].plan.action = "sync" /\ ~proc[w].plan.dry

Name(w) == <<proc[w].stamp, w>>

\* rsync and rclone put a file they replace into the backup directory,
MakeBackup(w) ==
  /\ Syncing(w) /\ proc[w].plan.backup /\ Name(w) \notin backups
  /\ backups' = backups \cup {Name(w)} /\ made' = made \cup {Name(w)}
  /\ UNCHANGED <<job, hostVars, text, clock, proc>>

\* create a destination that is missing,
MakeDestination(w) ==
  /\ Syncing(w) /\ node["dst"] = Missing
  /\ \E i \in Ids : node' = [node EXCEPT !["dst"] = [id |-> i, kind |-> "dir", uid |-> Root]]
  /\ proc' = Disturbed
  /\ UNCHANGED <<job, canonical, filled, accounts, changes, text, clock, backupVars>>

\* and, in mode move, empty the source.
EmptySource(w) ==
  /\ Syncing(w) /\ proc[w].plan.mode = "move" /\ IsKind("src", {"dir"})
  /\ node["src"].id \in filled
  /\ filled' = filled \ {node["src"].id}
  /\ proc' = Disturbed
  /\ UNCHANGED <<job, node, canonical, accounts, changes, text, clock, backupVars>>

Succeeds(w) ==
  IF proc[w].run THEN Goto(w, "hook") ELSE End(w, "done", "none")

\* The command returns.  Without backup the wrapper has become the command;
\* with it the shell goes on to the retention, unless keep is 0.
CommandEnds(w) ==
  /\ At(w, "running")
  /\ \/ IF proc[w].plan.backup /\ proc[w].plan.keep > 0
        THEN Goto(w, "glob") ELSE Succeeds(w)
     \/ End(w, "failed", "command")
  /\ UNCHANGED <<job, hostVars, text, clock, backupVars>>

\* The order of the names; equal seconds are told apart by the process.  The code
\* compares text, so that 10 is before 9: any total order of the names will do, as
\* long as the wrapper and the hook share it.
Older(a, b) == a[1] < b[1] \/ (a[1] = b[1] /\ a[2] < b[2])

\* Mutant: one too many.
ExcessOffByOne(names, keep) ==
  {b \in names : Cardinality({c \in names : Older(b, c)}) + 1 >= keep}

\* All but the newest keep of the names.
Excess(names, keep) ==
  {b \in names : Cardinality({c \in names : Older(b, c)}) >= keep}

Oldest(names) == CHOOSE b \in names : \A c \in names \ {b} : Older(b, c)

\* renderBackupRetention: the names are expanded once.
Glob(w) ==
  /\ At(w, "glob")
  /\ proc' = [proc EXCEPT ![w].step = "retain",
                          ![w].todo = Excess(backups, proc[w].plan.keep)]
  /\ UNCHANGED <<job, hostVars, text, clock, backupVars>>

\* A candidate that is gone makes the wrapper fail.
Retain(w) ==
  /\ At(w, "retain")
  /\ CASE proc[w].todo = {} -> Succeeds(w)
       [] proc[w].todo # {} /\ Oldest(proc[w].todo) \in backups -> Goto(w, "remove")
       [] OTHER -> End(w, "failed", "candidate")
  /\ UNCHANGED <<job, hostVars, text, clock, backupVars>>

Remove(w, next) ==
  LET b == Oldest(proc[w].todo) IN
  /\ backups' = backups \ {b}
  /\ proc' = [proc EXCEPT ![w].step = next, ![w].todo = @ \ {b},
                          ![w].removed = @ \cup {b}]
  /\ UNCHANGED made

\* rm -r -f
RetainRemove(w) ==
  /\ At(w, "remove")
  /\ Remove(w, "retain") \/ (End(w, "failed", "rm") /\ UNCHANGED backupVars)
  /\ UNCHANGED <<job, hostVars, text, clock>>

\* handleRunTerminalEffects of a run that succeeded; the run is over and the
\* next one may have begun.
Hook(w) ==
  /\ At(w, "hook")
  /\ IF ~proc[w].dry /\ job.action = "sync" /\ job.backup /\ job.keep > 0
     THEN proc' = [proc EXCEPT ![w].step = "rotate",
                               ![w].todo = Excess(backups, job.keep)]
     ELSE End(w, "done", "none")
  /\ UNCHANGED <<job, hostVars, text, clock, backupVars>>

\* rotateBackupsHost: RemoveAll does not mind a directory that is gone.
Rotate(w) ==
  /\ At(w, "rotate")
  /\ \/ proc[w].todo # {} /\ Remove(w, "rotate")
     \/ End(w, "done", "none") /\ UNCHANGED backupVars
  /\ UNCHANGED <<job, hostVars, text, clock>>

\* A run is stopped, or systemd or HostExecutor kills the wrapper and its
\* command.
Kill(w) ==
  /\ proc[w].step \in Occupied
  /\ End(w, "killed", "none")
  /\ UNCHANGED <<job, hostVars, text, clock, backupVars>>
-----------------------------------------------------------------------------
Process(w) ==
  \/ Request(w) \/ Install(w) \/ Launch(w) \/ Look(w) \/ LookFails(w)
  \/ Compiled(w) \/ Exec(w) \/ MakeBackup(w) \/ MakeDestination(w)
  \/ EmptySource(w) \/ CommandEnds(w) \/ Glob(w) \/ Retain(w)
  \/ RetainRemove(w) \/ Hook(w) \/ Rotate(w) \/ Kill(w)

Next == (\E w \in Processes : Process(w)) \/ HostChanges \/ Reconcile

Spec == Init /\ [][Next]_vars
-----------------------------------------------------------------------------
\* When nothing changes from the beginning of the final guards on, the command
\* starts on exactly what the wrapper has validated: a script of the same
\* identity and run as its owner, who is not root; the same source and
\* destination, and for a destructive synchronisation a source with entries.
\* So a source that was unmounted or emptied earlier, after Compile or after
\* the first look, never reaches a mirror or a move.
\* (wrapper.go Render and its parts; compileSync)
Checked(w) ==
  LET me == proc[w] IN
  /\ me.plan.action = "script" =>
       /\ "script" \in canonical /\ Snapshot(node["script"]) = me.snap["script"]
       /\ IsKind("script", {"script", "file"})
       /\ me.plan.identity = "owner" =>
            node["script"].uid = me.uid /\ me.uid # Root
  /\ me.plan.action = "sync" =>
       /\ {"src", "dst"} \subseteq canonical /\ IsKind("src", {"dir"})
       /\ \A p \in {"src", "dst"} : Snapshot(node[p]) = me.snap[p]
       /\ me.plan.mode \in {"mirror", "move"} => node["src"].id \in filled

FinalGuardsDecide ==
  [][\A w \in Processes :
       At(w, "guards") /\ proc[w].clean /\ proc'[w].step = "running" => Checked(w)]_vars

\* A run requested as dry executes the text of a dry run and removes no backup,
\* neither in the wrapper nor in the hook, although text is found under the
\* job's one path and replaced by others: only a Reconcile between its Install
\* and its Launch can put the real text there.  (execute, WrapperStore.Install,
\* handleRunTerminalEffects: "Dry-runs never mutate backup retention")
DryStaysDry ==
  \A w \in Processes :
    proc[w].run /\ proc[w].dry /\ proc[w].mine =>
      /\ proc[w].plan # NoPlan => proc[w].plan.dry
      /\ proc[w].step \notin {"glob", "retain", "remove", "rotate"}

\* Whatever runs, triggers and hooks remove at the same time, a backup is gone
\* only if as many newer ones as are to be kept are still there; and a wrapper
\* whose command succeeded fails over a vanished candidate only if another
\* process was removing backups too.  (renderBackupRetention,
\* rotateBackupsHost: both work from a list that may be stale)
RetentionIsSound ==
  /\ \A b \in made \ backups : Cardinality({c \in backups : Older(b, c)}) >= job.keep
  /\ \A w \in Processes :
       proc[w].why = "candidate" => \E v \in Processes \ {w} : proc[v].removed # {}
=============================================================================
