----------------------------- MODULE RunService -----------------------------
(***************************************************************************)
(* RunService (cmd/syncbridge/run_service.go): reservation of runs, the    *)
(* overlap policies, the execute goroutine of each run, Stop, retention of *)
(* terminal runs, the ordered history writer and the event stream.         *)
(*                                                                         *)
(* Every section under RunService.mu is one step; what happens between two *)
(* such sections (compiling, installing the wrapper, starting the process, *)
(* waiting for it, writing history) is interleaved with everything else.   *)
(* Callers of Start, Stop and the queries are the environment.  A run      *)
(* keeps its status, job and ticket here after it has left the map         *)
(* s.runs: goroutines still hold the pointer, or a copy of the snapshot.   *)
(*                                                                         *)
(* Time is abstract.  FinishedAt is read under mu next to the history      *)
(* ticket, so tickets order terminal runs the way FinishedAt does.         *)
(***************************************************************************)
EXTENDS EventHub, FiniteSets

CONSTANTS
  Jobs,      \* job identifiers
  NoRun,     \* the empty run ID
  NoJob,     \* the job of an identifier that is not reserved yet
  MaxLogs,   \* bound: log lines one process may write
  Outcomes   \* what handle.Wait reports for an ended process

ASSUME RunAssumption ==
  /\ IsFiniteSet(Runs)
  /\ NoRun \notin Runs
  /\ NoJob \notin Jobs
  /\ MaxLogs \in Nat
  /\ Outcomes # {}
  /\ Outcomes \subseteq {"succeeded", "failed", "killed", "timed_out"}

VARIABLES
  runs,             \* the keys of s.runs
  status,           \* snapshot.Status, "none" before the ID is reserved
  jobOf,            \* snapshot.JobID
  active, pending,  \* s.active, s.pending
  starting,         \* runState.starting: executor.Start is in flight
  stopRequested,    \* runState.stopRequested
  cancelled,        \* runState.cancel has been called
  pc,               \* where the execute goroutine of the run is
  proc,             \* the execution handle's process group
  sink,             \* lines queued in the run's LogSink
  logged,           \* lines the process has written (bound: MaxLogs)
  stopSent,         \* the executor was told to stop this process
  stopped,          \* history variable: a Stop of this run returned nil
  ticket,           \* sequence handed out by nextHistoryLocked, 0 before
  historySequence, historyNext,
  persist,          \* the persistHistory call for the run
  historyFile,      \* runs in the order they were appended
  historyError,     \* runs with snapshot.HistoryError set
  hooked,           \* runs whose terminalHook has been called
  hub               \* eventID, events, subscribers

slotVars    == <<active, pending>>
execVars    == <<proc, sink, logged, stopSent>>
stopVars    == <<starting, stopRequested, cancelled, stopped>>
historyVars == <<historyNext, historyFile, historyError>>
ticketVars  == <<ticket, historySequence, persist>>

vars == <<runs, status, jobOf, active, pending, starting, stopRequested,
          cancelled, pc, proc, sink, logged, stopSent, stopped, ticket,
          historySequence, historyNext, persist, historyFile, historyError,
          hooked, hub>>

\* Control points of execute(): compile, install, arm (before the section
\* that sets starting), exec (inside executor.Start), publish (before the
\* section that sets RunRunning), stopcall (before handle.Stop), wait (in
\* handle.Wait), fail (about to finish as start_failed), persist (in
\* persistHistory) and done; idle when there is no such goroutine yet.
PC == {"idle", "compile", "install", "arm", "exec", "publish", "stopcall",
       "wait", "fail", "persist", "done"}

Proc == {"none", "live"} \cup Outcomes

ServiceOK ==
  /\ runs \subseteq Runs
  /\ status \in [Runs -> Status \cup {"none"}]
  /\ jobOf \in [Runs -> Jobs \cup {NoJob}]
  /\ active \in [Jobs -> Runs \cup {NoRun}]
  /\ pending \in [Jobs -> Runs \cup {NoRun}]
  /\ starting \subseteq Runs
  /\ stopRequested \subseteq Runs
  /\ cancelled \subseteq Runs
  /\ pc \in [Runs -> PC]
  /\ proc \in [Runs -> Proc]
  /\ sink \in [Runs -> Nat]
  /\ logged \in [Runs -> 0..MaxLogs]
  /\ stopSent \subseteq Runs
  /\ stopped \subseteq Runs
  /\ ticket \in [Runs -> Nat]
  /\ historySequence \in Nat
  /\ historyNext \in Nat
  /\ persist \in [Runs -> {"none", "waiting", "failed", "done"}]
  /\ historyFile \in Seq(Runs)
  /\ historyError \subseteq Runs
  /\ hooked \subseteq Runs

TypeOK == ServiceOK /\ hub \in Hub

\* isTerminalRunStatus
IsTerminal(r) == status[r] \in Terminal

Queued(r) == r \in runs /\ status[r] = "queued"

Init ==
  /\ runs = {}
  /\ status = [r \in Runs |-> "none"]
  /\ jobOf = [r \in Runs |-> NoJob]
  /\ active = [j \in Jobs |-> NoRun]
  /\ pending = [j \in Jobs |-> NoRun]
  /\ starting = {} /\ stopRequested = {} /\ cancelled = {}
  /\ pc = [r \in Runs |-> "idle"]
  /\ proc = [r \in Runs |-> "none"]
  /\ sink = [r \in Runs |-> 0]
  /\ logged = [r \in Runs |-> 0]
  /\ stopSent = {} /\ stopped = {}
  /\ ticket = [r \in Runs |-> 0]
  /\ historySequence = 0
  /\ historyNext = 1
  /\ persist = [r \in Runs |-> "none"]
  /\ historyFile = << >>
  /\ historyError = {}
  /\ hooked = {}
  /\ hub = EmptyHub
-----------------------------------------------------------------------------
(***************************************************************************)
(* trimLocked.  The runs R are kept or dropped given their statuses st and *)
(* tickets tk: terminal runs finished no later than the age cutoff go, and *)
(* then the oldest terminal runs beyond MaxRuns.                           *)
(***************************************************************************)
Trim(R, st, tk, cutoff) ==
  LET young == {r \in R : st[r] \in Terminal => tk[r] > cutoff}
      Newer(r) == {q \in young : st[q] \in Terminal /\ tk[q] > tk[r]}
  IN  {r \in young : st[r] \in Terminal => Cardinality(Newer(r)) < MaxRuns}

\* Which terminal runs are older than MaxAge now: any number of the oldest.
Cutoffs == 0..historySequence

\* finishLocked, the slots: the run leaves active and pending, and a run
\* still pending for the job becomes active, whoever was active before.
NextPending(r) ==
  IF pending[jobOf[r]] = r THEN NoRun ELSE pending[jobOf[r]]

\* Mutant: the pending run is not promoted.
ActiveAfterLost(r) ==
  [active EXCEPT ![jobOf[r]] = IF @ = r THEN NoRun ELSE @]

ActiveAfter(r) ==
  LET j == jobOf[r] IN
  [active EXCEPT ![j] = IF NextPending(r) # NoRun THEN NextPending(r)
                        ELSE IF active[j] = r THEN NoRun ELSE active[j]]

PendingAfter(r) == [pending EXCEPT ![jobOf[r]] = NoRun]

\* Mutant: the promoted run gets no goroutine.
SpawnNone(points, r) == points

\* go s.execute(s.runs[next].ctx, next)
Spawn(points, r) ==
  [q \in Runs |-> IF q = NextPending(r) THEN "compile" ELSE points[q]]

\* Mutant: the ticket is read before the counter is advanced.
TakeTicketStale(r) ==
  /\ historySequence' = historySequence + 1
  /\ ticket' = [ticket EXCEPT ![r] = historySequence]
  /\ persist' = [persist EXCEPT ![r] = "waiting"]

\* nextHistoryLocked for run r, and the persistHistory call that follows
\* the critical section.
TakeTicket(r) ==
  /\ historySequence' = historySequence + 1
  /\ ticket' = [ticket EXCEPT ![r] = historySequence + 1]
  /\ persist' = [persist EXCEPT ![r] = "waiting"]

\* finishLocked + nextHistoryLocked for a non-terminal run r: everything
\* but the slots and the map of runs, which Start changes further.
FinishLocked(r, result) ==
  /\ status' = [status EXCEPT ![r] = result]
  /\ cancelled' = cancelled \cup {r}
  /\ TakeTicket(r)

RunsAfter(r, result, cutoff) ==
  Trim(runs, [status EXCEPT ![r] = result],
       [ticket EXCEPT ![r] = historySequence + 1], cutoff)
-----------------------------------------------------------------------------
(***************************************************************************)
(* Start(job j): the three ways a fresh run ID r is reserved under mu.     *)
(* The overlap policy is the one of the job snapshot read before the lock, *)
(* so either policy may meet any state of the slots.                       *)
(***************************************************************************)
Reserve(r, j) ==
  /\ status[r] = "none"
  /\ jobOf' = [jobOf EXCEPT ![r] = j]

\* Mutant: the run is rejected although the job is free.
StartSkippedFree(r, j) ==
  /\ Reserve(r, j)
  /\ status' = [status EXCEPT ![r] = "skipped_overlap"]
  /\ cancelled' = cancelled \cup {r}
  /\ runs' = runs \cup {r}
  /\ hub' = Publish(hub, r, "skipped_overlap")
  /\ TakeTicket(r)
  /\ UNCHANGED <<slotVars, starting, stopRequested, stopped, pc,
                 execVars, historyVars, hooked>>

\* overlap = "skip" and the job has an active run: the rejected run is
\* recorded as terminal.  Nothing is trimmed here.
StartSkipped(r, j) ==
  /\ Reserve(r, j) /\ active[j] # NoRun
  /\ status' = [status EXCEPT ![r] = "skipped_overlap"]
  /\ cancelled' = cancelled \cup {r}
  /\ runs' = runs \cup {r}
  /\ hub' = Publish(hub, r, "skipped_overlap")
  /\ TakeTicket(r)
  /\ UNCHANGED <<slotVars, starting, stopRequested, stopped, pc,
                 execVars, historyVars, hooked>>

\* overlap = "queue-latest", nothing pending yet.
StartQueued(r, j) ==
  /\ Reserve(r, j) /\ active[j] # NoRun /\ pending[j] = NoRun
  /\ status' = [status EXCEPT ![r] = "queued"]
  /\ runs' = runs \cup {r}
  /\ pending' = [pending EXCEPT ![j] = r]
  /\ hub' = Publish(hub, r, "queued")
  /\ UNCHANGED <<active, stopVars, pc, execVars, ticketVars,
                 historyVars, hooked>>

\* overlap = "queue-latest": the pending run is finished as skipped and
\* replaced.
StartReplacing(r, j) ==
  /\ Reserve(r, j) /\ active[j] # NoRun /\ pending[j] # NoRun
  /\ LET p == pending[j] IN
     /\ status' = [status EXCEPT ![p] = "skipped_overlap", ![r] = "queued"]
     /\ cancelled' = cancelled \cup {p}
     /\ \E cutoff \in Cutoffs :
          runs' = RunsAfter(p, "skipped_overlap", cutoff) \cup {r}
     /\ active' = ActiveAfter(p)
     /\ pending' = [PendingAfter(p) EXCEPT ![j] = r]
     /\ pc' = Spawn(pc, p)
     /\ hub' = Publish(Publish(hub, p, "skipped_overlap"), r, "queued")
     /\ TakeTicket(p)
  /\ UNCHANGED <<starting, stopRequested, stopped, execVars,
                 historyVars, hooked>>

\* The job is free: the run takes the active slot and its goroutine starts.
StartActive(r, j) ==
  /\ Reserve(r, j) /\ active[j] = NoRun
  /\ status' = [status EXCEPT ![r] = "queued"]
  /\ runs' = runs \cup {r}
  /\ active' = [active EXCEPT ![j] = r]
  /\ pc' = [pc EXCEPT ![r] = "compile"]
  /\ hub' = Publish(hub, r, "queued")
  /\ UNCHANGED <<pending, stopVars, execVars, ticketVars,
                 historyVars, hooked>>
-----------------------------------------------------------------------------
(***************************************************************************)
(* execute(), one step per critical section or blocking call.              *)
(***************************************************************************)
Goto(r, from, to) == pc[r] = from /\ pc' = [pc EXCEPT ![r] = to]

noPcVars == <<runs, status, jobOf, slotVars, stopVars, execVars, ticketVars,
              historyVars, hooked, hub>>

\* compiler.Compile returns; the goroutine gives up unless still queued.
ExecCompile(r) ==
  /\ IF Queued(r) THEN \E next \in {"install", "fail"} : Goto(r, "compile", next)
     ELSE Goto(r, "compile", "done")
  /\ UNCHANGED noPcVars

\* installer.Install returns; same check.
ExecInstall(r) ==
  /\ IF Queued(r) THEN \E next \in {"arm", "fail"} : Goto(r, "install", next)
     ELSE Goto(r, "install", "done")
  /\ UNCHANGED noPcVars

\* Last check and starting = true in one section; a run that was stopped
\* meanwhile never reaches the executor.
ExecArm(r) ==
  /\ IF Queued(r)
     THEN Goto(r, "arm", "exec") /\ starting' = starting \cup {r}
     ELSE Goto(r, "arm", "done") /\ UNCHANGED starting
  /\ UNCHANGED <<runs, status, jobOf, slotVars, stopRequested, cancelled,
                 stopped, execVars, ticketVars, historyVars, hooked, hub>>

\* executor.Start returns a handle, or an error.
ExecStart(r) ==
  /\ \/ Goto(r, "exec", "publish") /\ proc' = [proc EXCEPT ![r] = "live"]
     \/ Goto(r, "exec", "fail") /\ UNCHANGED proc
  /\ UNCHANGED <<runs, status, jobOf, slotVars, stopVars, sink, logged,
                 stopSent, ticketVars, historyVars, hooked, hub>>

\* The handle is stored, the run is running, and a stop requested while
\* the process was being started is picked up.
ExecPublish(r) ==
  /\ IF Queued(r)
     THEN /\ Goto(r, "publish", IF r \in stopRequested THEN "stopcall" ELSE "wait")
          /\ starting' = starting \ {r}
          /\ status' = [status EXCEPT ![r] = "running"]
          /\ hub' = Publish(hub, r, "running")
     ELSE Goto(r, "publish", "wait") /\ UNCHANGED <<starting, status, hub>>
  /\ UNCHANGED <<runs, jobOf, slotVars, stopRequested, cancelled, stopped,
                 execVars, ticketVars, historyVars, hooked>>

\* handle.Stop(context.Background(), 0)
ExecStopCall(r) ==
  /\ Goto(r, "stopcall", "wait")
  /\ stopSent' = stopSent \cup {r}
  /\ UNCHANGED <<runs, status, jobOf, slotVars, stopVars, proc, sink, logged,
                 ticketVars, historyVars, hooked, hub>>

\* What finish(id, result) is called with: after a start failure, or once
\* handle.Wait has returned and the log consumer is done.
Outcome(r) == IF pc[r] = "fail" THEN "start_failed" ELSE proc[r]

\* Mutants: finish does not wait for the process, or for the log consumer.
FinishReadyAtOnce(r) == pc[r] \in {"fail", "wait"}
FinishReadyUndrained(r) ==
  pc[r] = "fail" \/ (pc[r] = "wait" /\ proc[r] \in Outcomes)

FinishReady(r) ==
  \/ pc[r] = "fail"
  \/ pc[r] = "wait" /\ proc[r] \in Outcomes /\ sink[r] = 0

\* Mutant: finish does not look whether the run is terminal already.
ExecFinishTwice(r) ==
  /\ FinishReady(r) /\ r \in runs
  /\ FinishLocked(r, Outcome(r))
  /\ \E cutoff \in Cutoffs : runs' = RunsAfter(r, Outcome(r), cutoff)
  /\ active' = ActiveAfter(r)
  /\ pending' = PendingAfter(r)
  /\ pc' = Spawn([pc EXCEPT ![r] = "persist"], r)
  /\ hub' = Publish(hub, r, Outcome(r))
  /\ UNCHANGED <<jobOf, starting, stopRequested, stopped, execVars,
                 historyVars, hooked>>

\* finish: the section under mu.
ExecFinish(r) ==
  /\ FinishReady(r)
  /\ IF r \in runs /\ ~IsTerminal(r)
     THEN /\ FinishLocked(r, Outcome(r))
          /\ \E cutoff \in Cutoffs : runs' = RunsAfter(r, Outcome(r), cutoff)
          /\ active' = ActiveAfter(r)
          /\ pending' = PendingAfter(r)
          /\ pc' = Spawn([pc EXCEPT ![r] = "persist"], r)
          /\ hub' = Publish(hub, r, Outcome(r))
     ELSE /\ pc' = [pc EXCEPT ![r] = "done"]
          /\ UNCHANGED <<status, cancelled, ticketVars, runs, slotVars, hub>>
  /\ UNCHANGED <<jobOf, starting, stopRequested, stopped, execVars,
                 historyVars, hooked>>

\* finish: persistHistory has returned, the terminal hook runs.
ExecHook(r) ==
  /\ persist[r] = "done"
  /\ Goto(r, "persist", "done")
  /\ hooked' = hooked \cup {r}
  /\ UNCHANGED <<runs, status, jobOf, slotVars, stopVars, execVars,
                 ticketVars, historyVars, hub>>
-----------------------------------------------------------------------------
(***************************************************************************)
(* The process behind the handle, seen through the Executor interface.     *)
(***************************************************************************)
procUnchanged == <<runs, status, jobOf, slotVars, stopVars, ticketVars,
                   historyVars, hooked>>

\* The process group writes a line; the sink has room (256 lines).
ProcLog(r) ==
  /\ proc[r] = "live" /\ logged[r] < MaxLogs
  /\ logged' = [logged EXCEPT ![r] = @ + 1]
  /\ sink' = [sink EXCEPT ![r] = @ + 1]
  /\ UNCHANGED <<procUnchanged, pc, proc, stopSent, hub>>

\* handle.done is closed: the group is gone and the sink closed.
ProcExit(r) ==
  /\ proc[r] = "live"
  /\ \E result \in Outcomes : proc' = [proc EXCEPT ![r] = result]
  /\ UNCHANGED <<procUnchanged, pc, sink, logged, stopSent, hub>>

\* The consumer goroutine takes a line: publishLog.
ConsumeLog(r) ==
  /\ sink[r] > 0
  /\ sink' = [sink EXCEPT ![r] = @ - 1]
  /\ hub' = IF r \in runs /\ ~IsTerminal(r)
            THEN Publish(hub, r, status[r])
            ELSE hub
  /\ UNCHANGED <<procUnchanged, pc, proc, logged, stopSent>>
-----------------------------------------------------------------------------
(***************************************************************************)
(* Stop(run r).  A terminal or unknown run is refused without effect.      *)
(***************************************************************************)
\* Mutant: the request is acknowledged and forgotten.
StopStartingForgotten(r) ==
  /\ Queued(r) /\ r \in starting
  /\ stopped' = stopped \cup {r}
  /\ UNCHANGED <<runs, status, jobOf, slotVars, starting, stopRequested,
                 cancelled, pc, execVars, ticketVars, historyVars, hooked, hub>>

\* Queued and starting: the request is left for the execute goroutine and
\* the run's context is cancelled.
StopStarting(r) ==
  /\ Queued(r) /\ r \in starting
  /\ stopRequested' = stopRequested \cup {r}
  /\ cancelled' = cancelled \cup {r}
  /\ stopped' = stopped \cup {r}
  /\ UNCHANGED <<runs, status, jobOf, slotVars, starting, pc, execVars,
                 ticketVars, historyVars, hooked, hub>>

\* Mutant: a run whose process is being started is finished as well.
StopQueuedStarting(r) ==
  /\ Queued(r)
  /\ FinishLocked(r, "killed")
  /\ \E cutoff \in Cutoffs : runs' = RunsAfter(r, "killed", cutoff)
  /\ active' = ActiveAfter(r)
  /\ pending' = PendingAfter(r)
  /\ pc' = Spawn(pc, r)
  /\ hub' = Publish(hub, r, "killed")
  /\ stopped' = stopped \cup {r}
  /\ UNCHANGED <<jobOf, starting, stopRequested, execVars, historyVars, hooked>>

\* Queued: killed at once, without the terminal hook.
StopQueued(r) ==
  /\ Queued(r) /\ r \notin starting
  /\ FinishLocked(r, "killed")
  /\ \E cutoff \in Cutoffs : runs' = RunsAfter(r, "killed", cutoff)
  /\ active' = ActiveAfter(r)
  /\ pending' = PendingAfter(r)
  /\ pc' = Spawn(pc, r)
  /\ hub' = Publish(hub, r, "killed")
  /\ stopped' = stopped \cup {r}
  /\ UNCHANGED <<jobOf, starting, stopRequested, execVars, historyVars, hooked>>

\* Running: handle.Stop(ctx, 0) hands the request to the controller.
StopRunning(r) ==
  /\ r \in runs /\ status[r] = "running"
  /\ stopSent' = stopSent \cup {r}
  /\ stopped' = stopped \cup {r}
  /\ UNCHANGED <<runs, status, jobOf, slotVars, starting, stopRequested,
                 cancelled, pc, proc, sink, logged, ticketVars, historyVars,
                 hooked, hub>>

\* prune(), run by Get, List and Logs.
Prune ==
  /\ \E cutoff \in Cutoffs : runs' = Trim(runs, status, ticket, cutoff)
  /\ UNCHANGED <<status, jobOf, slotVars, stopVars, pc, execVars, ticketVars,
                 historyVars, hooked, hub>>
-----------------------------------------------------------------------------
(***************************************************************************)
(* persistHistory(ticket[r], ...): holds historyMu, never mu, over the     *)
(* write; callers wait for their turn on historyCond.                      *)
(***************************************************************************)
\* Mutant: nobody waits for an earlier ticket.
MyTurnAlways(r) == TRUE

MyTurn(r) == ticket[r] = historyNext

PersistAppend(r) ==
  /\ persist[r] = "waiting" /\ MyTurn(r)
  /\ historyFile' = Append(historyFile, r)
  /\ historyNext' = historyNext + 1
  /\ persist' = [persist EXCEPT ![r] = "done"]
  /\ UNCHANGED <<runs, status, jobOf, slotVars, stopVars, pc, execVars,
                 ticket, historySequence, historyError, hooked, hub>>

\* historyAppend fails, before or after the file was replaced (AtomicWriteFile
\* syncs the directory last).
PersistFail(r) ==
  /\ persist[r] = "waiting" /\ MyTurn(r)
  /\ historyFile' \in {historyFile, Append(historyFile, r)}
  /\ persist' = [persist EXCEPT ![r] = "failed"]
  /\ UNCHANGED <<runs, status, jobOf, slotVars, stopVars, pc, execVars, ticket,
                 historySequence, historyNext, historyError, hooked, hub>>

\* Mutant: a failed write keeps its turn.
PersistErrorHolding(r) ==
  /\ persist[r] = "failed"
  /\ historyError' = historyError \cup {r}
  /\ persist' = [persist EXCEPT ![r] = "done"]
  /\ UNCHANGED <<runs, status, jobOf, slotVars, stopVars, pc, execVars, ticket,
                 historySequence, historyNext, historyFile, hooked, hub>>

\* The error is attached to the run if it is still retained, and the turn
\* is passed on all the same.
PersistError(r) ==
  /\ persist[r] = "failed"
  /\ IF r \in runs
     THEN /\ historyError' = historyError \cup {r}
          /\ hub' = Publish(hub, r, status[r])
     ELSE UNCHANGED <<historyError, hub>>
  /\ historyNext' = historyNext + 1
  /\ persist' = [persist EXCEPT ![r] = "done"]
  /\ UNCHANGED <<runs, status, jobOf, slotVars, stopVars, pc, execVars,
                 ticket, historySequence, historyFile, hooked>>
-----------------------------------------------------------------------------
Start(r) ==
  \E j \in Jobs : \/ StartSkipped(r, j) \/ StartQueued(r, j)
                  \/ StartReplacing(r, j) \/ StartActive(r, j)

Execute(r) ==
  \/ ExecCompile(r) \/ ExecInstall(r) \/ ExecArm(r) \/ ExecStart(r)
  \/ ExecPublish(r) \/ ExecStopCall(r) \/ ExecFinish(r) \/ ExecHook(r)

Process(r) == ProcLog(r) \/ ProcExit(r) \/ ConsumeLog(r)

Stop(r) == StopStarting(r) \/ StopQueued(r) \/ StopRunning(r)

Persist(r) == PersistAppend(r) \/ PersistFail(r) \/ PersistError(r)

Next ==
  \/ \E r \in Runs : \/ Start(r) \/ Execute(r) \/ Process(r)
                     \/ Stop(r) \/ Persist(r)
  \/ Prune

Spec == Init /\ [][Next]_vars
-----------------------------------------------------------------------------
(***************************************************************************)
(* Safety                                                                  *)
(***************************************************************************)
LiveRun(r) == status[r] \in {"queued", "running"}

\* At most one process of a job is alive at any time, whatever the order in
\* which starts, stops, start failures and promotions of queued runs meet;
\* it belongs to the job's active run, which is not terminal.  (reservation
\* under mu in Start, the starting flag that execute sets and Stop reads)
ExclusiveExecution ==
  \A r \in Runs :
    proc[r] = "live" => LiveRun(r) /\ active[jobOf[r]] = r

\* Every run that is not terminal is retained and owns exactly one slot of its
\* job; only a queued run with no goroutine is pending, and only behind an
\* active run.  This is what lets finishLocked promote the pending run without
\* displacing an active one and dereference s.runs[next] safely.
SlotsOwned ==
  /\ \A r \in Runs : LiveRun(r) =>
       r \in runs /\ (active[jobOf[r]] = r \/ pending[jobOf[r]] = r)
  /\ \A j \in Jobs :
       /\ active[j] # NoRun => LiveRun(active[j]) /\ jobOf[active[j]] = j
       /\ pending[j] # NoRun =>
            /\ status[pending[j]] = "queued" /\ pc[pending[j]] = "idle"
            /\ jobOf[pending[j]] = j
            /\ active[j] \notin {NoRun, pending[j]}

\* Exactly the terminal runs hold a history ticket, each its own, and the
\* tickets are 1..historySequence: no terminal transition is left out of
\* history and none is recorded twice.  (nextHistoryLocked in the section that
\* makes the run terminal: Start, finish, Stop)
OneTicketPerTerminalRun ==
  /\ \A r \in Runs : IsTerminal(r) <=> ticket[r] # 0
  /\ \A r, q \in Runs : ticket[r] = ticket[q] /\ ticket[r] # 0 => r = q
  /\ \A r \in Runs : ticket[r] <= historySequence
  /\ \A n \in 1..historySequence : \E r \in Runs : ticket[r] = n

\* The history file lists runs in the order in which they became terminal,
\* although each is written by its own goroutine after mu is released and
\* writes may fail.  (the ticket lock of persistHistory)
HistoryInTerminalOrder ==
  \A m, n \in 1..Len(historyFile) :
    m < n => ticket[historyFile[m]] < ticket[historyFile[n]]

\* When a run becomes terminal every line its process wrote has been consumed:
\* history notes and the last log events are not cut short by finish.
\* (execute waits for consumerDone before finish)
LogsDrainedWhenTerminal ==
  \A r \in Runs : IsTerminal(r) => sink[r] = 0

\* A terminal status is final, and the executor is never started for a run that
\* was terminal: a Stop or a replacement that has been reported cannot be
\* undone by the execute goroutine that is still on its way.
TerminalKept ==
  \A r \in Runs : IsTerminal(r) =>
    status'[r] = status[r] /\ (proc[r] = "none" => proc'[r] = "none")

TerminalIsFinal == [][TerminalKept]_vars

\* The refinement mapping to RunLifecycle: the six terminal statuses are one.
lifecycleState ==
  [r \in Runs |-> IF IsTerminal(r) THEN "ended" ELSE status[r]]

Lifecycle == INSTANCE RunLifecycle WITH state <- lifecycleState

\* The goroutines, the stops that meet a start in flight, the replacements and
\* the promotions in finishLocked add up to the life cycle of RunLifecycle:
\* whatever the interleaving, only the active run starts running, and the
\* queued run is promoted in the very step that ends the active one.
ImplementsLifecycle == Lifecycle!Spec
-----------------------------------------------------------------------------
(***************************************************************************)
(* Liveness.  Go schedules every runnable goroutine, so the steps of       *)
(* execute, the log consumer and persistHistory are weakly fair.  Callers  *)
(* are not.  A process group ends after it was told to stop or its context *)
(* was cancelled (TERM, then KILL); on its own it need not.                *)
(***************************************************************************)
GoroutineFairness ==
  \A r \in Runs : WF_vars(Execute(r)) /\ WF_vars(ConsumeLog(r))
                  /\ WF_vars(Persist(r))

StopFairness ==
  \A r \in Runs : WF_vars(r \in stopSent \cup cancelled /\ ProcExit(r))

ExitFairness == \A r \in Runs : WF_vars(ProcExit(r))

FairSpec == Spec /\ GoroutineFairness /\ StopFairness

\* A Stop that returned nil takes effect: the run becomes terminal, even when
\* it arrived while executor.Start was in flight.  (stopRequested, cancel)
StopTakesEffect == \A r \in Runs : r \in stopped ~> IsTerminal(r)

\* Every terminal run gets its turn in history, also after failed writes and
\* for runs already trimmed.  (historyNext advances in the deferred function)
HistoryDrains == \A r \in Runs : IsTerminal(r) ~> persist[r] = "done"

\* Provided processes end on their own, no accepted run is forgotten: a
\* reserved run, queued behind another or not, becomes terminal (promotion in
\* finishLocked), and one whose process was started gets its terminal hook,
\* also after a failed history write (finish).
AcceptedRunsFinish ==
  ExitFairness => \A r \in Runs : /\ LiveRun(r) ~> IsTerminal(r)
                                  /\ proc[r] = "live" ~> r \in hooked
=============================================================================
