------------------------ MODULE PersistentScheduler ------------------------
(***************************************************************************)
(* PersistentScheduler (cmd/syncbridge/persistent_scheduler.go): jobs of   *)
(* owner "system" are triggered by the host, through a file in /etc/cron.d *)
(* or a systemd service and path unit, which invoke the job's wrapper.     *)
(* Reconcile makes the host agree with a list of jobs.                     *)
(*                                                                         *)
(* Reconcile is serialized by mu.  Every file operation and every call of  *)
(* systemctl is one step and may fail; the controller may be killed        *)
(* between two of them.  A file is represented by the revision written to  *)
(* it, 0 when it does not exist.  systemd is external: daemon-reload makes *)
(* it read all unit files, enable and disable start and stop a path unit,  *)
(* and a started unit whose file was loaded triggers its service.          *)
(* Runs install wrappers of the same jobs at the same time.                *)
(***************************************************************************)
EXTENDS WrapperStore, FiniteSets

CONSTANTS
  Reconciler,    \* the installer that Reconcile is
  MaxWaiting     \* bound: requests that wait for mu

ASSUME PersistentAssumption ==
  /\ Reconciler \in Installers
  /\ MaxRevision \in Nat /\ MaxWaiting \in Nat
  /\ NoFile \notin Temps /\ NoFile \notin File
  /\ Jobs # {}

VARIABLES
  repo,          \* job |-> [rev, kind]
  waiting,       \* lists of requests that wait for mu
  rec,           \* the Reconcile that holds mu
  cronFile,      \* /etc/cron.d/<base>
  serviceFile,   \* /etc/systemd/system/<base>.service
  pathFile,      \* /etc/systemd/system/<base>.path
  loaded,        \* what systemd knows of the path unit
  on,            \* jobs whose path unit is started
  ignored        \* history variable: jobs for which an error was discarded

unitVars == <<serviceFile, pathFile, loaded, on>>
hostVars == <<cronFile, unitVars>>
vars == <<wrapperVars, repo, waiting, rec, hostVars, ignored>>

\* "none": absent, disabled, to be reviewed or of another owner; "manual": a
\* job of owner system with another trigger than cron and watch.
Kinds == {"none", "manual", "cron", "watch"}

List == [Jobs -> [rev : 0..MaxRevision, kind : Kinds]]

\* removing: removeJob rather than applyJob is under way
IdleRec == [pc |-> "idle", list |-> [j \in Jobs |-> [rev |-> 0, kind |-> "none"]],
            todo |-> {}, job |-> CHOOSE j \in Jobs : TRUE, existed |-> FALSE,
            removing |-> FALSE, desired |-> {}, preserve |-> {}, failed |-> FALSE]

Rec == [pc : {"idle", "jobs", "install", "disable", "rmPath", "rmService", "reload",
              "writeCron", "rmCron", "writeService", "writePath", "reloadNew",
              "enable", "orphans"},
        list : List, todo : SUBSET Jobs, job : Jobs, existed : BOOLEAN,
        removing : BOOLEAN, desired : SUBSET Jobs, preserve : SUBSET Jobs,
        failed : BOOLEAN]

TypeOK ==
  /\ WrapperTypeOK
  /\ repo \in List /\ waiting \subseteq List /\ rec \in Rec
  /\ {cronFile, serviceFile, pathFile, loaded} \subseteq [Jobs -> 0..MaxRevision]
  /\ on \subseteq Jobs /\ ignored \subseteq Jobs

Init ==
  /\ WrapperInit
  /\ repo = IdleRec.list /\ waiting = {} /\ rec = IdleRec
  /\ cronFile = [j \in Jobs |-> 0] /\ serviceFile = cronFile
  /\ pathFile = cronFile /\ loaded = cronFile
  /\ on = {} /\ ignored = {}
-----------------------------------------------------------------------------
(***************************************************************************)
(* Requests, runs and the end of the controller.                           *)
(***************************************************************************)
\* A request changes a job ...
Mutate(j, k) ==
  /\ repo[j].rev < MaxRevision
  /\ repo' = [repo EXCEPT ![j] = [rev |-> @.rev + 1, kind |-> k]]
  /\ UNCHANGED <<wrapperVars, waiting, rec, hostVars, ignored>>

\* ... and reconcileTriggers lists all of them before it waits for mu.
ListJobs ==
  /\ Cardinality(waiting) < MaxWaiting
  /\ waiting' = waiting \cup {repo}
  /\ UNCHANGED <<wrapperVars, repo, rec, hostVars, ignored>>

\* execute of RunService installs the wrapper of the job as it was when the
\* run was started.
RunInstalls(i, j) ==
  /\ i # Reconciler
  /\ \E n \in 1..repo[j].rev : Install(i, j, n)
  /\ UNCHANGED <<repo, waiting, rec, hostVars, ignored>>

RunInstalled(i) ==
  /\ i # Reconciler /\ (At(i, "done") \/ At(i, "failed"))
  /\ inst' = [inst EXCEPT ![i] = IdleCall(@.job)]
  /\ UNCHANGED <<staging, target, repo, waiting, rec, hostVars, ignored>>

Installing(i) ==
  InstallStep(i) /\ UNCHANGED <<repo, waiting, rec, hostVars, ignored>>

\* The controller is killed; the next one starts with a Reconcile of its own.
Crash ==
  /\ rec.pc # "idle"
  /\ rec' = IdleRec /\ waiting' = {repo}
  /\ inst' = [i \in Installers |-> IdleCall(inst[i].job)]
  /\ UNCHANGED <<staging, target, repo, hostVars, ignored>>
-----------------------------------------------------------------------------
(***************************************************************************)
(* Reconcile: the loop over the jobs.                                      *)
(***************************************************************************)
recFrame == <<repo, waiting>>

Begin ==
  /\ rec.pc = "idle"
  /\ \E l \in waiting :
       /\ rec' = [IdleRec EXCEPT !.pc = "jobs", !.list = l, !.todo = Jobs]
       /\ waiting' = waiting \ {l}
  /\ UNCHANGED <<wrapperVars, repo, hostVars, ignored>>

\* errs = append(errs, ...); preserve[job.ID] = true; continue
Spare(r, j) == [r EXCEPT !.pc = "jobs", !.preserve = @ \cup {j}, !.failed = TRUE]

Skip(j) ==
  /\ rec.pc = "jobs" /\ j \in rec.todo /\ rec.list[j].kind = "none"
  /\ rec' = [rec EXCEPT !.todo = @ \ {j}]
  /\ UNCHANGED <<wrapperVars, recFrame, hostVars, ignored>>

\* The trigger is not supported, or Compile fails.
Refuse(j) ==
  /\ rec.pc = "jobs" /\ j \in rec.todo /\ rec.list[j].kind # "none"
  /\ rec' = Spare([rec EXCEPT !.todo = @ \ {j}], j)
  /\ UNCHANGED <<wrapperVars, recFrame, hostVars, ignored>>

BeginInstall(j) ==
  /\ rec.pc = "jobs" /\ j \in rec.todo /\ rec.list[j].kind \in {"cron", "watch"}
  /\ Install(Reconciler, j, rec.list[j].rev)
  /\ rec' = [rec EXCEPT !.pc = "install", !.todo = @ \ {j}, !.job = j,
                        !.removing = FALSE]
  /\ UNCHANGED <<recFrame, hostVars, ignored>>

\* applyJob begins, if the wrapper was installed.
InstallReturns ==
  /\ rec.pc = "install" /\ (At(Reconciler, "done") \/ At(Reconciler, "failed"))
  /\ rec' = IF At(Reconciler, "failed") THEN Spare(rec, rec.job)
            ELSE [rec EXCEPT !.pc = IF rec.list[rec.job].kind = "cron"
                                    THEN "disable" ELSE "rmCron"]
  /\ inst' = [inst EXCEPT ![Reconciler] = IdleCall(@.job)]
  /\ UNCHANGED <<staging, target, recFrame, hostVars, ignored>>
-----------------------------------------------------------------------------
(***************************************************************************)
(* removeSystemd, called by applyJob for cron and by removeJob.            *)
(***************************************************************************)
stepFrame == <<wrapperVars, recFrame>>
GoTo(pc) == rec' = [rec EXCEPT !.pc = pc]
Set(file, n) == [file EXCEPT ![rec.job] = n]

SystemdFails ==
  rec' = IF rec.removing THEN [rec EXCEPT !.pc = "orphans", !.failed = TRUE]
         ELSE Spare(rec, rec.job)

SystemdRemoved == GoTo(IF rec.removing THEN "orphans" ELSE "writeCron")

\* os.Stat, and systemctl disable --now, whose errors are discarded
Disable ==
  /\ rec.pc = "disable"
  /\ \E exists \in {FALSE, pathFile[rec.job] # 0}, stopped \in BOOLEAN :
       /\ stopped => exists
       /\ rec' = [rec EXCEPT !.pc = "rmPath", !.existed = exists]
       /\ on' = IF stopped THEN on \ {rec.job} ELSE on
       /\ ignored' = IF stopped \/ pathFile[rec.job] = 0 THEN ignored
                     ELSE ignored \cup {rec.job}
  /\ UNCHANGED <<stepFrame, cronFile, serviceFile, pathFile, loaded>>

RemovePath ==
  /\ rec.pc = "rmPath"
  /\ \/ pathFile' = Set(pathFile, 0) /\ GoTo("rmService")
     \/ pathFile[rec.job] # 0 /\ SystemdFails /\ UNCHANGED pathFile
  /\ UNCHANGED <<stepFrame, cronFile, serviceFile, loaded, on, ignored>>

RemoveService ==
  /\ rec.pc = "rmService"
  /\ \/ /\ serviceFile' = Set(serviceFile, 0)
        /\ IF rec.existed THEN GoTo("reload") ELSE SystemdRemoved
     \/ serviceFile[rec.job] # 0 /\ SystemdFails /\ UNCHANGED serviceFile
  /\ UNCHANGED <<stepFrame, cronFile, pathFile, loaded, on, ignored>>

\* systemctl daemon-reload
Reload ==
  /\ rec.pc = "reload"
  /\ \/ loaded' = pathFile /\ SystemdRemoved
     \/ SystemdFails /\ UNCHANGED loaded
  /\ UNCHANGED <<stepFrame, cronFile, serviceFile, pathFile, on, ignored>>
-----------------------------------------------------------------------------
(***************************************************************************)
(* The rest of applyJob.                                                   *)
(***************************************************************************)
Applied == [rec EXCEPT !.pc = "jobs", !.desired = @ \cup {rec.job}]

WriteCron ==
  /\ rec.pc = "writeCron"
  /\ \/ cronFile' = Set(cronFile, rec.list[rec.job].rev) /\ rec' = Applied
     \/ rec' = Spare(rec, rec.job) /\ UNCHANGED cronFile
  /\ UNCHANGED <<stepFrame, unitVars, ignored>>

\* Mutant: the cron file is left to the removal of orphans.
DropCronLater ==
  /\ rec.pc = "rmCron"
  /\ GoTo("writeService")
  /\ UNCHANGED <<stepFrame, hostVars, ignored>>

\* _ = s.removeCron(base)
DropCron ==
  /\ rec.pc = "rmCron"
  /\ GoTo("writeService")
  /\ \/ cronFile' = Set(cronFile, 0) /\ UNCHANGED ignored
     \/ /\ cronFile[rec.job] # 0
        /\ ignored' = ignored \cup {rec.job} /\ UNCHANGED cronFile
  /\ UNCHANGED <<stepFrame, unitVars>>

WriteService ==
  /\ rec.pc = "writeService"
  /\ \/ serviceFile' = Set(serviceFile, rec.list[rec.job].rev) /\ GoTo("writePath")
     \/ rec' = Spare(rec, rec.job) /\ UNCHANGED serviceFile
  /\ UNCHANGED <<stepFrame, cronFile, pathFile, loaded, on, ignored>>

WritePath ==
  /\ rec.pc = "writePath"
  /\ \/ pathFile' = Set(pathFile, rec.list[rec.job].rev) /\ GoTo("reloadNew")
     \/ rec' = Spare(rec, rec.job) /\ UNCHANGED pathFile
  /\ UNCHANGED <<stepFrame, cronFile, serviceFile, loaded, on, ignored>>

ReloadNew ==
  /\ rec.pc = "reloadNew"
  /\ \/ loaded' = pathFile /\ GoTo("enable")
     \/ rec' = Spare(rec, rec.job) /\ UNCHANGED loaded
  /\ UNCHANGED <<stepFrame, cronFile, serviceFile, pathFile, on, ignored>>

\* systemctl enable --now; what fails may have had its effect
Enable ==
  /\ rec.pc = "enable"
  /\ \/ on' = on \cup {rec.job} /\ rec' = Applied
     \/ on' \in {on, on \cup {rec.job}} /\ rec' = Spare(rec, rec.job)
  /\ UNCHANGED <<stepFrame, cronFile, serviceFile, pathFile, loaded, ignored>>
-----------------------------------------------------------------------------
(***************************************************************************)
(* removeOrphans                                                           *)
(***************************************************************************)
CronJobs == {j \in Jobs : cronFile[j] # 0}

\* Mutant: only path units are looked for.
UnitJobsByPath == {j \in Jobs : pathFile[j] # 0}

UnitJobs == {j \in Jobs : serviceFile[j] # 0 \/ pathFile[j] # 0}

Orphans(ids) == ids \ (rec.desired \cup rec.preserve)

\* Both directories are read; a failure is discarded.
Scan ==
  /\ rec.pc = "jobs" /\ rec.todo = {}
  /\ \E c \in {{}, CronJobs}, u \in {{}, UnitJobs} :
       /\ rec' = [rec EXCEPT !.pc = "orphans", !.todo = Orphans(c \cup u)]
       /\ ignored' = ignored \cup Orphans((CronJobs \cup UnitJobs) \ (c \cup u))
  /\ UNCHANGED <<stepFrame, hostVars>>

\* removeJob: removeCron, whose error is kept, and then removeSystemd
RemoveJob(j) ==
  /\ rec.pc = "orphans" /\ j \in rec.todo
  /\ \E f \in {FALSE, cronFile[j] # 0} :
       /\ rec' = [rec EXCEPT !.pc = "disable", !.job = j, !.removing = TRUE,
                             !.todo = @ \ {j}, !.failed = @ \/ f]
       /\ cronFile' = IF f THEN cronFile ELSE [cronFile EXCEPT ![j] = 0]
  /\ UNCHANGED <<stepFrame, unitVars, ignored>>

\* errors.Join(errs...), nil unless rec.failed
Return ==
  /\ rec.pc = "orphans" /\ rec.todo = {}
  /\ rec' = IdleRec
  /\ UNCHANGED <<stepFrame, hostVars, ignored>>
-----------------------------------------------------------------------------
Environment ==
  \/ \E j \in Jobs, k \in Kinds : Mutate(j, k)
  \/ ListJobs \/ Crash
  \/ \E i \in Installers : Installing(i) \/ RunInstalled(i)
                           \/ \E j \in Jobs : RunInstalls(i, j)

Reconcile ==
  \/ Begin \/ \E j \in Jobs : Skip(j) \/ Refuse(j) \/ BeginInstall(j)
  \/ InstallReturns \/ Disable \/ RemovePath \/ RemoveService \/ Reload
  \/ WriteCron \/ DropCron \/ WriteService \/ WritePath \/ ReloadNew \/ Enable
  \/ Scan \/ (\E j \in Jobs : RemoveJob(j)) \/ Return

Next == Environment \/ Reconcile

Spec == Init /\ [][Next]_vars
-----------------------------------------------------------------------------
(***************************************************************************)
(* Safety                                                                  *)
(***************************************************************************)
\* The path unit of j makes systemd start its service.
Watching(j) == j \in on /\ loaded[j] # 0

\* Whatever failed, was killed or retried before: when Reconcile returns nil
\* the host has exactly the triggers of the list, at the list's revisions,
\* except for jobs where an error was discarded.  (removeSystemd decides by the
\* path file whether there is a unit to stop and to unload)
NilMeansExact ==
  rec.pc = "orphans" /\ rec.todo = {} /\ ~rec.failed =>
    \A j \in Jobs \ ignored :
      LET want(k) == IF rec.list[j].kind = k THEN rec.list[j].rev ELSE 0 IN
      /\ cronFile[j] = want("cron")
      /\ pathFile[j] = want("watch") /\ serviceFile[j] = want("watch")
      /\ IF rec.list[j].kind = "watch" THEN j \in on /\ loaded[j] = want("watch")
         ELSE ~Watching(j)

\* No job is triggered by cron and by systemd, not even while it changes from
\* one to the other, with the same exception.  (applyJob removes before it
\* writes)
NoDoubleTrigger ==
  \A j \in Jobs \ ignored : ~(cronFile[j] # 0 /\ Watching(j))

\* The host never invokes a wrapper that is missing, incomplete or not secured,
\* whoever else installs wrappers of the job.  (staging file and mv; Install
\* before applyJob)
TriggersInvokeWholeWrapper ==
  \A j \in Jobs :
    /\ target[j] # NoFile => Whole(target[j])
    /\ cronFile[j] # 0 \/ Watching(j) => target[j] # NoFile
=============================================================================
