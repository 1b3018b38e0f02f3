# SyncBridge in TLA+

SyncBridge is a Go server in a container that runs commands, scripts and
directory synchronisations on its Linux host. This directory holds TLA+ models
of its concurrent and persistent parts, the TLC configurations that check them
on small instances, and proofs checked by TLAPS. Paths below are relative to
`src/cmd/syncbridge/` unless they begin with `docs/` or `README.md` (the
repository's own files). `PROJECT.json` maps every definition to the lines it
models.

## 1. Inventory

| Component | State | Operations | What makes it correct |
|---|---|---|---|
| RunService (`run_service.go`) | runs, one active and one pending slot per job, stop and start flags, history tickets, event window and subscribers, all under one mutex | `Start`, `execute` goroutine per run, `Stop`, `finish`, `persistHistory`, `prune`, `Subscribe` | one process per job; every accepted run ends and is recorded once, in order; a terminal run stays terminal; a resumed event stream has no gap |
| HostExecutor (`host_executor.go`) | a process group, the control loop with its timers, the reaper | `Start`, `Stop`, `control`, `reap` | stop and timeout reach the group; nothing is signalled after the leader's PID is free; the status says what happened |
| Scheduler (`scheduler.go`) | registry of cron entries, robfig/cron engine, errors | `Reconcile`, `fire`, `Close` | registry and engine agree; replaced or closed entries start nothing |
| WatchManager (`watch_manager.go`) | watch handles with two goroutines and a debounce timer each, degraded flags, errors | `Reconcile`, `handleEvent`, `poll`, `signalHandle`, `fire`, `Close` | every handle has an owner; stopped handles are silent; a change leads to a run, or is dropped for a reason one can name |
| PersistentScheduler (`persistent_scheduler.go`) | files in `/etc/cron.d` and `/etc/systemd/system`, state of systemd | `Reconcile`, `applyJob`, `removeSystemd`, `removeOrphans` | the host's triggers agree with the jobs |
| WrapperStore (`wrapper.go`) | `run.sh` of each job and its staging files on the host | `Install` | the wrapper is always whole, secured and present |
| JobRepository (`job_repository.go`), AtomicWriteFile (`atomic_file.go`) | `jobs.json`, its lock file, an in-memory copy per process | `OpenJobRepository`, `Create`, `Update`, `Delete`, migration of version 1 | revisions are a compare-and-swap across processes; what was acknowledged survives |
| Run history (`history.go`) | `history.json` | append, list, purge of a job | order of termination, bounded, no record of a deleted job |
| App, API v1 and compatibility API (`app.go`, `api_v1*.go`, `api_legacy.go`, `main.go`) | none of its own: what a request has read so far | job mutations followed by `reconcileTriggers`, runs, event streams, shutdown | requests may overlap in any order: no update is lost, a DELETE is clean, nothing is overlooked at exit |
| PlanCompiler, WrapperRenderer (`execution_plan.go`, `wrapper.go`), terminal effects (`run_effects.go`) | none; the host's paths, accounts and backups | `Compile`, `Render`, the script itself, rotation of backups | the command runs on what was validated; a dry run stays dry; the newest backups survive |
| SystemService (`system_service.go`) | the host's cron files and units, `system-trash.json` | `Toggle`, `Delete`, `Restore` | a definition is on the host or in the trash |
| LogSink, LogBuffer (`host_executor.go`, `log_buffer.go`) | bounded queues of lines | append, drop, read | bounded; last lines survive |
| Import scanner, capabilities, auth, remotes, secrets, notifications, web UI | caches, cookies | parsing and I/O around the core | see `PROJECT.json` |

How they interact:

- An HTTP request changes a job in JobRepository and calls `reconcileTriggers`,
  which lists the jobs and hands the list to Scheduler, WatchManager and
  PersistentScheduler in turn. Each serialises its own `Reconcile`, but the list
  was read before.
- Scheduler and WatchManager call `RunService.Start` with the revision they were
  registered for; `Start` refuses any other than the repository's.
- `RunService.execute` compiles a plan, has WrapperStore install the wrapper,
  starts HostExecutor, consumes its log lines and publishes events. Subscribers
  are HTTP handlers that clients reconnect to with `Last-Event-ID`.
- PersistentScheduler installs wrappers at the same paths as runs do, and the
  host's cron and systemd start them beside the runs of the controller.
- `main` ends the HTTP server, then the triggers, then the runs, under one
  deadline of 20 seconds.

The hard behaviours are goroutines that meet between two critical sections
(start and stop of a run, degradation and replacement of a watch, callbacks and
`Close`), state that was read before a lock was taken, failures in the middle
of several host operations, and crashes between two writes. `hazards` in
`PROJECT.json` lists them at their lines.

## 2. Modules

| Module | Models | State and actions |
|---|---|---|
| `Filtering` | a loop that keeps some elements of a slice | `Filtered(s, I)`, used by `EventHub` and `SystemService`; a function of positions, so that it can be reasoned about |
| `EventHub` (extends `Filtering`) | event counter, window, subscriber channels | one value, guarded by `RunService.mu`; `Publish`, `Subscribe`, `Deliver` and `Unsubscribe` are functions of it |
| `RunLifecycle` | what RunService promises about the runs of a job | an active and a waiting run per job; `Skip`, `Queue`, `Replace`, `Activate`, `Run`, `End` |
| `RunService` (extends `EventHub`) | RunService with its history writer; implements `RunLifecycle` (`state` maps to the status, with one value for all terminal ones) | one variable per field of the struct or of a run; a step per critical section or blocking call: `StartSkipped/Queued/Replacing/Active` are the outcomes of `Start`, `ExecCompile` ... `ExecHook` the steps of `execute` and `finish`, `StopStarting/Queued/Running` the cases of `Stop`, `PersistAppend/Fail/Error` the turn in history |
| `HostExecutor` | one execution after a successful start | process group (alive, group, pipe, doomed) as environment; `On...` are the cases of the select in `control`, a listing of `/proc` is separate from the reading of its entries; `ReapBegin/Leader/Done` |
| `Scheduler` | Scheduler, requests that change and list jobs, cron callbacks | `Mutate`, `List`, then `ReconcileBegin` ... `ReconcileEnd`, one step per call into the cron engine; `Tick`, `Fire`, `Start`, `FireDone`; `CloseBegin/Stop/Done` |
| `WatchManager` | WatchManager, the filesystem and fsnotify | per handle an event and a poll goroutine, a queue of notifications and a timer; looks at the filesystem are separate from the lock that publishes what was seen; any number of `Planners` call `Reconcile`, and each plans before it takes `reconcileMu`, so an older plan may be applied last |
| `WatchRuns` (extends `WatchManager`) | WatchManager composed with the slots of RunService | `runs[j]` is the active and the waiting run of a job; `WatchStart` joins `fire` to an outcome of `Start` under the job's `overlap`, `OtherStart` is a request of another origin, `RunEnds` the promotion, `StopPending` a stop of the waiting run. Every step is a step of WatchManager or leaves its variables alone, so what holds there holds here |
| `WrapperStore` | `Install` by any number of goroutines | staging files and target per job; `Mktemp`, `Tee`, `Secure`, `Mv`, `Confirm`, a failure at each |
| `PersistentScheduler` (extends `WrapperStore`) | Reconcile of host artifacts, composed with installations by runs | one step per file operation or systemctl call, each may fail; `Crash` ends the controller anywhere; systemd is external |
| `JobRepository` | repository and atomic file replacement | per process an in-memory copy and a call in progress; visible and durable file; lock; `Kill` and `PowerLoss` |
| `App` (extends `EventHub`, instantiates `RunLifecycle`) | both HTTP APIs, triggers, runs, history file, streams, shutdown and restart | per request the operation, the step it takes next and what it has read: `...Read` and `...Check` are the reads, `Update`, `Create`, `Delete`, `Purge`, `Reserve` the writes, `List` and `Apply` are `reconcileTriggers`; `Terminate` ... `Exit` the end of `main`, `Restart` a new process |
| `SystemService` (extends `Filtering`) | Toggle, Delete and Restore with the trash | per request its step; each look at the host and each change of it is a step; `Crash` ends all of them |
| `WrapperRun` | PlanCompiler, the wrapper as it executes, the terminal effects | a process per run or host trigger. `Compile` and `Render` are sequences of looks at the host (`Look`, `LookFails`), then `Exec`, the command's effects, `Glob`, `Retain`, `RetainRemove`, and for runs `Hook` and `Rotate` |
| `RunServiceProofs` | theorems about `RunService`, and that it implements `RunLifecycle` | |
| `AppProofs` | theorems about `App`, and about `SystemService`, which App holds in its field `System`; the two share no state, and their definitions have different names so that one module can extend both | |
| `HostExecutorProofs`, `SchedulerProofs`, `WatchManagerProofs`, `JobRepositoryProofs`, `WrapperRunProofs` | theorems about the module of that name | |
| `PersistentSchedulerProofs` | theorems about `PersistentScheduler` and `WrapperStore` | |
| `MC...` | instances for TLC | symmetry sets and initial files |

Definitions whose comment begins with "Mutant:" are deliberately broken
variants of the definition that follows; `PROJECT.json` names the property that
each of them violates. No specification uses them.

## 3. Runs

Each configuration is checked with `tlc -config X.cfg <module>`; all of them
finish within minutes.

| Configuration | Shows | Bounds, and why they are enough |
|---|---|---|
| `MCRunService` | `ExclusiveExecution`, `SlotsOwned`, `OneTicketPerTerminalRun`, `HistoryInTerminalOrder`, `TerminalIsFinal`, and the refinement `ImplementsLifecycle` | 3 runs of one job: one active, one pending and one that replaces or is skipped; `MaxRuns` 1, so trimming happens. Jobs do not share slots; the proofs cover any number |
| `MCRunLive` | `StopTakesEffect`, `HistoryDrains`, `AcceptedRunsFinish`, `LogsDrainedWhenTerminal` | 2 runs with a log line each |
| `MCApp` | `SwitchIsExact`, `DeleteIsClean`, `ExitLeavesNothing`, `ResumeIsSeamless` | 2 jobs, one of them still to be created, 2 requests that meet in every way, 2 runs, a client whose window (2 events) and channel (1 place) overflow, a history of one record, a restart |
| `MCHostExecutor` | `NoKnownSurvivor`, `StatusNamesStrongestReason`, `SignalsWhileOwned`, `TerminationCompletes` | a leader and a child that may leave the group, be forked during a scan or keep the pipe; one caller of Stop; every host call may fail |
| `MCScheduler` | `EngineMatchesRegistry`, `RegistryFollowsList`, `ErrorsAreCurrent`, `HolderProgresses` | 2 jobs, so that one addition is refused after another was made; 2 overlapping requests; 2 revisions; a callback in flight |
| `MCWatchManager` | `StoppedHandleIsSilent`, `WatchSetConsistent` | event mode, so the event goroutine of each handle; 2 jobs and 2 handles, so creation can fail after another handle was prepared; all faults. One planner: a plan may be stale when it is applied. The theorems cover the poll goroutine, hybrid watches and any number of planners, so also an older plan applied after a newer one |
| `MCWatchRuns` | `ChangeIsServed`, `CloseReturns` | poll mode; one job, since slots and handles of jobs are separate; 2 handles, so that a degraded one is replaced while it stops; both overlap policies, requests for dry runs that compete for the slots, failing calls. One change of the job: a later one interrupts the watch in any case |
| `MCWatchSets` | violation of `CompleteWatcherSets` | 1 job |
| `MCPersistentScheduler` | `NilMeansExact`, `NoDoubleTrigger`, `TriggersInvokeWholeWrapper` | 1 job with 2 revisions of any kind, reconciled any number of times with any failures; a run that installs at the same time. Jobs share only daemon-reload, which is harmless to others |
| `MCJobRepository` | `OneAckPerRevision`, `NothingIsLost` | 2 processes, 2 identifiers, 2 revisions, 2 definitions, 3 successful changes and any number of failed ones, starting without a file or with a version 1 file |
| `MCSystemService` | `DefinitionsSurvive` | a cron file with 2 lines, a unit, a process; 4 requests, enough to delete, restore, delete again and restore what the first restore has not purged yet |
| `MCWrapperRun` | `FinalGuardsDecide`, `DryStaysDry`, `RetentionIsSound` | 2 processes, each a run, a dry run or a host trigger; a script run as its owner, a command, a move with one backup to keep, a copy that keeps all, a job that does not compile; one change of the host by others at any moment; one old backup |

The type invariants of RunService, App, HostExecutor, Scheduler and
JobRepository are checked in the same runs. Deadlock is checked for the
RunService instances. The other systems may come to rest: a finished execution,
a closed scheduler, a process that has ended, a spent bound on revisions.

What the newer properties say in the words of the code:

- `ImplementsLifecycle`. All goroutines and stops of RunService together behave
  like six atomic operations on an active and a waiting run. App uses exactly
  those six operations for its runs, so what is shown there rests on what is
  shown here.
- `SwitchIsExact`. The compatibility handlers compute from a job they have read;
  `Update` under the revision read makes their toggle exact.
- `DeleteIsClean`. The check for active runs and the deletion are two steps. The
  property names all that can be left behind: a run that was being started
  between them, and its record.
- `ExitLeavesNothing`. The order of `server.Shutdown`, `Scheduler.Close`,
  `Watches.Close` and the list of runs leaves no run unstopped, within the
  deadline. An open event stream, which nothing closes, is enough to use it up
  (`main.go:276`); after that a run may be overlooked.
- `ResumeIsSeamless`. `sawAll` turns false when a client has missed an event in
  any of the ways the code has, a restart of the numbering included.
- `DefinitionsSurvive`. `atRisk` collects the definitions that were exposed to a
  failed append, a crash between removal and trash, an unreadable trash, or an
  edit of the same cron file by another request; no other is ever lost.
- `FinalGuardsDecide`. If nothing changes from the beginning of the final guards
  on, the command starts on what they saw: a source emptied or unmounted earlier
  never reaches a mirror or a move. A change during the guards cannot be
  excluded by a script.
- `DryStaysDry`. Runs of a job exclude each other, so a dry run finds the text it
  has installed, unless `PersistentScheduler.Reconcile` replaces it first.
- `RetentionIsSound`. Names are listed once and removed later, by wrappers and
  hooks at the same time; still a backup is gone only if enough newer ones are
  there. Names of one second are ordered by process identifier: `Older` compares
  numbers where the shell's glob and `sort.Strings` compare text, and the hook's
  pattern also accepts names without that suffix. The property needs a total order
  that wrapper and hook share, and no more.
- `OneTicketPerTerminalRun`. The tickets held by terminal runs are exactly
  `1..historySequence`: no two share one and none is missing, so the turn in
  history never waits for a ticket nobody holds.
- `ChangeIsServed`. With `queue-latest`, a polled change leads to the launch of a
  run of the job's present definition after it, whatever runs hold the slots when
  the timer fires. Exceptions: the waiting run is stopped or replaced by a dry
  one, the watch is replaced or degraded, or `Start` fails, which is published.
  With `skip` there is one more, an `ErrOverlap`; it drops the change (see
  below). A launched run may itself fail or be stopped; that is on record.

### Fairness

- Steps of goroutines are weakly fair: Go schedules every runnable goroutine.
- The cases of the select in `control` are strongly fair, because select chooses
  among ready cases at random and the poll ticker makes the loop turn.
- A process exits after KILL. RunService relies on HostExecutor for the exit of
  a stopped process; that processes end on their own is a hypothesis of
  `AcceptedRunsFinish` only.
- Requests, ticks, changes of files, failures and crashes are never fair.
- In WatchManager a tick of the poll loop and an armed timer happen eventually.
- In WatchRuns an active run ends, as in `AcceptedRunsFinish`; it is needed for the
  waiting run only.

`TerminationCompletes` excludes two cases the code cannot help: a failed host call, and a process that left the group or
was forked behind the last listing of `/proc` and holds the log pipe.
`HolderProgresses` is the deadlock freedom of Scheduler as a state predicate:
whoever holds `reconcileMu` can step or waits for a callback that can.

### Disagreements between code and documents

One is kept as a run whose expected result is a counterexample:

- `MCWatchSets`: `Reconcile` of WatchManager reads `degraded` in two sections. A
  job that becomes degraded in between is neither kept nor prepared and
  `next[id] = prepared[id]` publishes a nil handle (`watch_manager.go:215`); the
  old one leaks and the next stop of the job dereferences nil. The comment at
  `watch_manager.go:126` promises complete watcher sets. `WatchSetConsistent`
  makes an exception of such a job.

Others were met while modelling; the models contain the behaviour:

- Runs rejected for overlap are stored without trimming (`run_service.go:182`),
  while `docs/architecture.md:54` says retained terminal runs are bounded.
- A manual stop passes grace 0 (`run_service.go:416`), while
  `docs/architecture.md:56` says KILL follows TERM after grace.
- A child forked between listing and reading `/proc` is missed after the
  leader's exit (`host_executor.go:406`); it keeps the pipe, the controller is
  gone and a later Stop waits until the child ends. `PipeHeld` excludes it.
- The registration kept for an invalid update (`scheduler.go:75`) fires with the
  old revision, which `Start` refuses.
- After an error of the event watcher a hybrid watch is degraded; its poll
  goroutine still sees changes and drops them (`watch_manager.go:382`), while
  the repository's `README.md:16` speaks of a fallback.
- With `overlap=skip`, the default (`api_v1_jobs.go:215`), a watch's request that
  meets an active run only stores a skipped run (`run_service.go:182`). `fire`
  ignores the `ErrOverlap` (`watch_manager.go:416`) and `poll` has remembered the
  signature before (line 361), so the change is not synchronised until the next
  change or run, unless the active run still reads it. With `queue-latest` a dry
  run requested later replaces the waiting run of the watch
  (`run_service.go:195`). No document promises otherwise; `ChangeIsServed` has
  both as exceptions.
- `removeSystemd` discards the error of `systemctl disable` and decides by the
  path file whether there is a unit to stop (`persistent_scheduler.go:135`).
  If disabling and a later step fail, the next Reconcile finds no path file,
  returns nil and leaves the unit started. `removeCron` at line 91 and the
  directory listings in `removeOrphans` are discarded too. The variable
  `ignored` marks these jobs in `NilMeansExact` and `NoDoubleTrigger`.
- `reconcileTriggers` lists the jobs before `Reconcile` is serialised
  (`api_v1_jobs.go:324`). Of two overlapping requests the older list may be
  applied last: an enabled job stays unregistered, or registered at a revision
  `Start` refuses, until the next change. `RegistryFollowsList` speaks of the
  list applied last.
- The wrapper of a job has one path. A Reconcile between `Install` and the start
  of a dry run lets that run execute the real synchronisation, its retention
  included, while `run_effects.go:14` says dry runs never touch it; and the text
  of a dry run, or of an older revision, stays for the host's trigger until the
  next Reconcile (`run_service.go:238`).
- A wrapper whose synchronisation succeeded exits with 126 when another process
  has removed a candidate of its retention (`wrapper.go:662`).
- `kill` of the compatibility API stops the newest run that is not terminal: the
  waiting one, if there is one, and not the one that runs (`api_legacy.go:290`).
- `removeHistory` takes a file it cannot read for an empty one and writes it
  back, so the history of all jobs is gone (`history.go:92`). The same holds for
  the trash (`system_service.go:403`) and, in `Restore`, for a cron file (line
  500).
- `App.Close` does not wait for the history record or the hook of a run it has
  stopped (`app.go:85`); the process may end before them.

## 4. Proofs

TLC checks the properties of section 3 on small instances. The theorems below
hold for all values of the constants: any number of jobs, runs, requests,
processes and goroutines, and any limits.

| Theorem | States |
|---|---|
| `RunServiceProofs!ExecutionIsExclusive` | `Spec => []ExclusiveExecution` |
| `RunServiceProofs!SlotsAreOwned` | `Spec => []SlotsOwned` |
| `RunServiceProofs!TicketsMatchTerminalRuns` | `Spec => []OneTicketPerTerminalRun` |
| `RunServiceProofs!HistoryIsOrdered` | `Spec => []HistoryInTerminalOrder` |
| `RunServiceProofs!TerminalStatusIsFinal` | `Spec => TerminalIsFinal` |
| `RunServiceProofs!ServiceRefinesLifecycle` | `Spec => ImplementsLifecycle` |
| `RunServiceProofs!TerminalRunsAreDrained` | `Spec => []LogsDrainedWhenTerminal` |
| `HostExecutorProofs!SurvivorsAreUnknown` | `Spec => []NoKnownSurvivor` |
| `HostExecutorProofs!StatusIsStrongestReason` | `Spec => []StatusNamesStrongestReason` |
| `HostExecutorProofs!SignalsOnlyOwnGroup` | `Spec => SignalsWhileOwned` |
| `SchedulerProofs!EngineHoldsTheRegistry` | `Spec => []EngineMatchesRegistry` |
| `SchedulerProofs!RegistryIsPublishedList` | `Spec => []RegistryFollowsList` |
| `SchedulerProofs!FailuresAreCurrent` | `Spec => []ErrorsAreCurrent` |
| `WatchManagerProofs!StoppedHandlesAreSilent` | `Spec => []StoppedHandleIsSilent` |
| `WatchManagerProofs!WatchSetIsConsistent` | `Spec => []WatchSetConsistent` |
| `JobRepositoryProofs!RevisionsAreUnique` | `Spec => []OneAckPerRevision` |
| `JobRepositoryProofs!RepositoryIsDurable` | `Spec => []NothingIsLost` |
| `PersistentSchedulerProofs!NilReconcileIsExact` | `Spec => []NilMeansExact` |
| `PersistentSchedulerProofs!TriggersAreExclusive` | `Spec => []NoDoubleTrigger` |
| `PersistentSchedulerProofs!WrappersAreWhole` | `Spec => []TriggersInvokeWholeWrapper` |
| `WrapperRunProofs!DryRunsStayDry` | `Spec => []DryStaysDry` |
| `WrapperRunProofs!RetentionNeverTakesTooMany` | `Spec => []RetentionIsSound` |
| `WrapperRunProofs!GuardsDecide` | `Spec => FinalGuardsDecide` |
| `AppProofs!SwitchesAreExact` | `Spec => SwitchIsExact` |
| `AppProofs!DeletesAreClean` | `Spec => []DeleteIsClean` |
| `AppProofs!ExitsLeaveNothing` | `Spec => []ExitLeavesNothing` |
| `AppProofs!ResumesAreSeamless` | `Spec => []ResumeIsSeamless` |
| `AppProofs!DeletedDefinitionsSurvive` | `SystemSpec => []DefinitionsSurvive` |

Type correctness of eight modules is proved beside them
(`ServiceTypeCorrect`, `ExecutorTypeCorrect`, `SchedulerTypeCorrect`,
`WatchTypeCorrect`, `RepositoryTypeCorrect`, `PersistentTypeCorrect`,
`WrapperTypeCorrect`, `AppTypeCorrect`).

### Assumptions

The proofs use the `ASSUME` of each module and nothing else: limits are natural
numbers (`MaxRuns`, `MaxId` and `MaxRev` positive), the values that stand for
"none" are none of the things they are compared with, `Runs` of RunService and
`Jobs` of Scheduler are finite, `Jobs` of PersistentScheduler is not empty and
`Reconciler` is one of the installers; process identifiers of WrapperRun are
positive numbers (they order backups of one second) and root is an owner. In
SystemService cron files, units and processes are different things and the
definitions are finitely many; entries of the trash are told apart by the
request that made them, as the code does by a time in nanoseconds. TLC evaluates
the assumptions in the run of each module.

### Arguments

None of the properties is inductive as it stands. In each module one lemma per
action shows that an invariant is kept; the property follows from it.

**RunService.** That the process of a run is alive says nothing about its slot
unless one knows where its goroutine stands, and that depends on the flag
`starting`, which keeps `Stop` from finishing a run whose process is just being
started. `SafetyInv` is `ServiceOK` (types), `SlotsOwned` (every run that is not
terminal is retained and owns exactly one slot of its job) and `PhaseInv`
(control point, status, flag and process belong together). The three places that
finish a run share `FinishSlots`: promotion hands the slot on. History order
rests on `FileInv`, that the file holds only runs whose ticket is below the next
one to be written, so an append at one's turn is an append in order.

**Refinement.** Under the mapping of section 2 the outcomes of `Start` are
`Skip`, `Queue`, `Replace` and `Activate`, the publication of a running run is
`Run`, and all that ends a run is `End`. `FinishRefines` is the core: `SlotsOwned`
makes `finishLocked` move the waiting run, or clear its slot, exactly as `End`
does. The other steps leave the four mapped variables alone.
`TerminalRunsAreDrained` adds `DrainInv`: lines are undelivered only while the
goroutine is between the start of the process and `finish`.

**HostExecutor.** `ExecutorInv` adds to the types: only forked processes are in
any set (`TreeInv`); what an observed exit, a scan or a return says about the
leader (`LeaderInv`); the reaper goes on only after the controller (`ReapInv`);
after a KILL the group is doomed, and at a return without one it is disjoint
from the last listing (`GroupInv`); the reason is the strongest accepted one and
the status reports it (`ReasonInv`).

**Scheduler.** `EngineInv` says, for every point of a Reconcile, which entries
the engine holds beside the registry: those added so far, or those still to
remove. `RegistryFollowsList` compares a kept registration with a list by its
revision, so the proof needs that a revision of a job has one cron field:
`RevisionInv` asserts that there is a function from revisions to fields with
which the repository, all lists and all registrations agree.

**WatchManager.** `SilentInv` says that `stop` cancels the context before it
stops the timer; `signalHandle` starts none after that. `OwnerInv` names who is
responsible for each handle: the published set, the Reconcile that has prepared
it, or the one that is stopping it; a plan that waits for `reconcileMu` owns
nothing, so any number of them may wait. It allows for jobs published without a
handle, so what `MCWatchSets` shows is not assumed away.

**JobRepository.** `RepositoryInv` says that neither the visible nor the durable
file has lost anything (`FileOK`), and for a call that is writing that its
candidate would lose nothing either and its revision is a new one (`OpOK`). A
kill or a power loss then changes from one good file to another. Deletions count
from the moment they may be seen, before they are acknowledged.

**PersistentScheduler.** `WrapperInv` gives every staging file one owner, so that
`run.sh` is replaced only by a whole file. `ControlInv` and `StageInv` say what a
Reconcile has done at each point, `ExactInv` and `OrphanInv` what that means for
the jobs it has dealt with, `HostInv` and `TargetInv` what holds of the host at
every moment. The last two survive a crash; the others begin anew with the next
Reconcile.

**WrapperRun.** `Spare(b)` says that as many backups as are to be kept are newer
than `b`. What is gone and what is on any list can be spared, and this survives
a removal by anybody (`RemoveSpare`): if `t` is older than the backup `b` that
goes, then whatever is newer than `b` is newer than `t` too and is not `b`; if
not, `b` never counted for `t`. So lists may be as stale as they like. A list names only
backups that are there, or somebody else has removed some. For the guards,
`LooksOK` says that what a wrapper has still to look at is the rest of `Render`
(`RenderShape`: prologue, identity, source check, ending), and `GuardsOK` that
the final looks taken since the last change still hold; at `Exec` that is all of
them. `RunInv`, the exclusion of runs, keeps a dry run's text in place.

**App.** The invariant has five parts, and each is kept given the first two.
`JobsInv` says how old what a handler has read may be: a revision it holds is
the job's or a smaller one, or the job is gone, and if it is the job's then the
switch it has computed belongs to the switch as it is now. So the compare of
revisions in `Update` decides whether a toggle is exact. `RunsInv` says that the
slots of a job hold two different live runs of that job (`RunMoves`: apart from
a restart, runs move by the operations of RunLifecycle only). `DeleteInv` is
about jobs that are gone or about to go, a DELETE having passed its check: a run
of theirs that is alive or still to be recorded is one that `Reserve` has
started in between. `ExitInv` says that once the runs to stop are listed within
the deadline, no handler is left to start another. `StreamsInv` relates the
numbers in a client's channel to the counter of the hub: a client that has
missed nothing has exactly the last events in its channel. `FilteredSuffix` makes
the replay a suffix of the window, and `EndsTold` puts the end of a run a client
follows into its channel before the run is seen as ended.

**SystemService.** `DefinitionsSurvive` alone is not kept: a definition could
survive by a trash entry that a request is about to take out. `KeptOK` does not
count those entries. `HandlersOK` says what the variables of a handler hold at
each step, in particular that the entry a Delete is about to record is that of
the line or unit it takes off the host. `TrashOK` says that the entries in the
trash and in the hands of a Restore were made by requests that have ended, one
by each; so an entry that is purged with the one restored belongs to the
same definition, which is on the host by then (`SameItem`), and a new entry is
never taken for an old one.

### Only model-checked

- All liveness (`StopTakesEffect`, `HistoryDrains`, `AcceptedRunsFinish`,
  `TerminationCompletes`, `ChangeIsServed`, `CloseReturns`) and
  `HolderProgresses`: fairness and ENABLED are beyond the prover. Every other
  property that a passing run checks is a theorem.

## 5. Not modelled

- Text: quoting, argument lists, environment, units and cron lines as strings,
  the conversion between the two shapes of a job, validation of request bodies
  (a refused request changes nothing).
- CapabilityService: it probes once at startup, and its report is one more way
  for `Compile` to fail.
- LogBuffer, the line splitter and the drop counter: sequential code on bytes.
- Import scanner, remotes, secrets, notifications, the host access helpers and
  the web UI: parsing, encryption and I/O without interleavings of their own.
- Authentication: it guards the handlers and touches none of the state here.
- The wrapper's loss by a power failure, leftovers of temporary files next to
  `jobs.json`, and corrupt or foreign job files, which every call refuses.

## 6. Plan

1. Done: RunService with EventHub and its proofs, HostExecutor, Scheduler,
   WatchManager, JobRepository, PersistentScheduler with WrapperStore.
2. Done: RunLifecycle and its refinement, App with both APIs, shutdown and
   restart, SystemService, WrapperRun with PlanCompiler and retention.
3. Done: proofs of the refinement and of the safety properties of all modules.
4. Worth adding when the code changes: the files of the remaining components
   (LogBuffer's bound, the sessions of Authentication), which have no
   interleavings today; and a proof of `HolderProgresses` by hand-computed
   enabling conditions, should the lock order of Scheduler change.
