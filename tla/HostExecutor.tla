---------------------------- MODULE HostExecutor ----------------------------
(***************************************************************************)
(* One execution of HostExecutor (cmd/syncbridge/host_executor.go): the    *)
(* host process group of a started command, the control goroutine that     *)
(* owns every signal, the goroutine that observes the leader's exit        *)
(* without reaping it, and the goroutine that reaps and reports.           *)
(*                                                                         *)
(* The select loop of control() handles one event per step; a scan of      *)
(* /proc takes time, so it is two steps, listing and reading.  Timers are  *)
(* abstract: an armed timer may fire at any time.  The processes of the    *)
(* group are the environment: they fork, exit, leave the group, and ignore *)
(* TERM as they like; only KILL is certain.                                *)
(***************************************************************************)
EXTENDS Naturals, FiniteSets

CONSTANTS
  Kids,            \* bound: descendants the leader may ever have
  Leader,          \* the started process, whose PID is the group ID
  HasTimeout,      \* plan.Timeout > 0
  MaxStops,        \* bound: concurrent callers of Stop
  CanEscape,       \* descendants may call setsid
  CallsCanFail     \* waitid, kill and /proc reads may return errors

ASSUME ExecutorAssumption ==
  /\ Leader \notin Kids
  /\ HasTimeout \in BOOLEAN /\ CanEscape \in BOOLEAN /\ CallsCanFail \in BOOLEAN
  /\ MaxStops \in Nat

VARIABLES
  \* the operating system
  alive,          \* live processes descending from the leader, leader included
  born,           \* Kids forked so far
  group,          \* members of the process group, dead or alive
  pipe,           \* processes holding the write end of the log pipe
  doomed,         \* processes a KILL was delivered to
  reaped,         \* the leader has been waited for: its PID may be reused
  exitZero,       \* exit code 0, meaningful once the leader has exited
  \* the inputs of the controller
  ctx,            \* run context: "open", "cancelled" or "deadline"
  ctxSeen,        \* contextDone = nil
  stops,          \* callers blocked in Stop's first select
  leaderExit,     \* leaderExited channel: "none", "exit", "error", "taken"
  \* the locals of control()
  cpc,            \* "loop", "scanExit", "scanPoll", "scanGrace", "returned"
  initiated, reason,
  timeoutArmed, graceArmed, polling,
  leaderObserved, observationDone, killSent,
  failed,         \* result.err # nil
  scan,           \* live members of the group when /proc was listed
  \* the reaper
  rpc,            \* "control", "wait", "stream", "done"
  status,         \* result.Status once done is closed
  \* history variables
  accepted,       \* reasons of the requests the controller acted on
  grace           \* grace the running timer was started with

osVars      == <<alive, born, group, pipe, doomed, exitZero>>
inputVars   == <<ctx, ctxSeen, stops, leaderExit>>
stopState   == <<initiated, reason, timeoutArmed, graceArmed, grace, accepted>>
observation == <<leaderObserved, observationDone>>
reaperVars  == <<rpc, status, reaped>>

vars == <<alive, born, group, pipe, doomed, reaped, exitZero, ctx, ctxSeen,
          stops, leaderExit, cpc, initiated, reason, timeoutArmed, graceArmed,
          polling, leaderObserved, observationDone, killSent, failed, scan,
          rpc, status, accepted, grace>>

\* terminationReason: 0 is the cleanup after the leader's own exit
Cleanup == 0
Timeout == 1
Manual  == 2

Processes == Kids \cup {Leader}
LiveGroup == alive \cap group

TypeOK ==
  /\ alive \subseteq Processes /\ born \subseteq Kids
  /\ group \subseteq Processes /\ pipe \subseteq Processes
  /\ doomed \subseteq Processes
  /\ reaped \in BOOLEAN /\ exitZero \in BOOLEAN
  /\ ctx \in {"open", "cancelled", "deadline"} /\ ctxSeen \in BOOLEAN
  /\ stops \in 0..MaxStops
  /\ leaderExit \in {"none", "exit", "error", "taken"}
  /\ cpc \in {"loop", "scanExit", "scanPoll", "scanGrace", "returned"}
  /\ initiated \in BOOLEAN /\ reason \in {Cleanup, Timeout, Manual}
  /\ timeoutArmed \in BOOLEAN /\ graceArmed \in BOOLEAN /\ polling \in BOOLEAN
  /\ leaderObserved \in BOOLEAN /\ observationDone \in BOOLEAN
  /\ killSent \in BOOLEAN /\ failed \in BOOLEAN
  /\ scan \subseteq Processes
  /\ rpc \in {"control", "wait", "stream", "done"}
  /\ status \in {"none", "succeeded", "failed", "killed", "timed_out"}
  /\ accepted \subseteq {Cleanup, Timeout, Manual}
  /\ grace \in {"none", "plan", "zero"}

\* Start has succeeded: the leader runs in its own group, the goroutines and
\* the timeout timer are started.
Init ==
  /\ alive = {Leader} /\ born = {} /\ group = {Leader} /\ pipe = {Leader}
  /\ doomed = {} /\ reaped = FALSE /\ exitZero = FALSE
  /\ ctx = "open" /\ ctxSeen = FALSE /\ stops = 0 /\ leaderExit = "none"
  /\ cpc = "loop" /\ initiated = FALSE /\ reason = Cleanup
  /\ timeoutArmed = HasTimeout /\ graceArmed = FALSE /\ polling = FALSE
  /\ leaderObserved = FALSE /\ observationDone = FALSE /\ killSent = FALSE
  /\ failed = FALSE /\ scan = {}
  /\ rpc = "control" /\ status = "none" /\ accepted = {} /\ grace = "none"
-----------------------------------------------------------------------------
(***************************************************************************)
(* The processes.                                                          *)
(***************************************************************************)
notOS == <<inputVars, cpc, stopState, polling, observation, killSent, failed,
           scan, reaperVars>>

\* A process the KILL did not reach forks; the child inherits group and pipe.
Fork(p, k) ==
  /\ p \in alive \ doomed /\ k \in Kids \ born
  /\ born' = born \cup {k}
  /\ alive' = alive \cup {k}
  /\ group' = IF p \in group THEN group \cup {k} ELSE group
  /\ pipe' = IF p \in pipe THEN pipe \cup {k} ELSE pipe
  /\ UNCHANGED <<doomed, exitZero, notOS>>

\* setsid by a descendant
Escape(k) ==
  /\ CanEscape /\ k \in LiveGroup \ (doomed \cup {Leader})
  /\ group' = group \ {k}
  /\ UNCHANGED <<alive, born, pipe, doomed, exitZero, notOS>>

\* A process redirects its output elsewhere.
ClosePipe(p) ==
  /\ p \in alive \cap pipe
  /\ pipe' = pipe \ {p}
  /\ UNCHANGED <<alive, born, group, doomed, exitZero, notOS>>

Exit(p) ==
  /\ p \in alive
  /\ alive' = alive \ {p}
  /\ pipe' = pipe \ {p}
  /\ exitZero' \in IF p # Leader THEN {exitZero}
                   ELSE IF p \in doomed THEN {FALSE} ELSE BOOLEAN
  /\ UNCHANGED <<born, group, doomed, notOS>>
-----------------------------------------------------------------------------
(***************************************************************************)
(* Inputs: the run context, callers of Stop, and waitLeaderExit, which     *)
(* returns when the leader is a zombie, or with an error.                  *)
(***************************************************************************)
notInput == <<osVars, cpc, stopState, polling, observation, killSent, failed,
              scan, reaperVars>>

CancelContext ==
  /\ ctx = "open"
  /\ ctx' \in {"cancelled", "deadline"}
  /\ UNCHANGED <<notInput, ctxSeen, stops, leaderExit>>

CallStop ==
  /\ stops < MaxStops /\ rpc # "done"
  /\ stops' = stops + 1
  /\ UNCHANGED <<notInput, ctx, ctxSeen, leaderExit>>

\* The caller's own context ends before the controller took the request.
AbandonStop ==
  /\ stops > 0
  /\ stops' = stops - 1
  /\ UNCHANGED <<notInput, ctx, ctxSeen, leaderExit>>

ObserveLeader ==
  /\ leaderExit = "none"
  /\ \/ Leader \notin alive /\ leaderExit' = "exit"
     \/ CallsCanFail /\ leaderExit' = "error"
  /\ UNCHANGED <<notInput, ctx, ctxSeen, stops>>
-----------------------------------------------------------------------------
(***************************************************************************)
(* control().                                                              *)
(***************************************************************************)
\* kill(-pgid) finds no process; a zombie leader may or may not count.
NoSuchGroup == LiveGroup = {}

\* Mutants: a later request is ignored, or its reason added as a flag.
RaiseIgnored(r, f) ==
  /\ initiated
  /\ accepted' = accepted \cup {r}
  /\ failed' = f
  /\ UNCHANGED <<initiated, reason, timeoutArmed, graceArmed, grace>>
RaiseFlag(r, f) ==
  /\ initiated
  /\ reason' = reason + r
  /\ accepted' = accepted \cup {r}
  /\ failed' = f
  /\ UNCHANGED <<initiated, timeoutArmed, graceArmed, grace>>

\* initiate(request{r, g}), f: whether an error was recorded before.  A later
\* request only raises the reason.
Raise(r, f) ==
  /\ initiated
  /\ reason' = IF r > reason THEN r ELSE reason
  /\ accepted' = accepted \cup {r}
  /\ failed' = f
  /\ UNCHANGED <<initiated, timeoutArmed, graceArmed, grace>>

\* Mutant: the grace timer is not started.
BeginUnarmed(r, g, f) ==
  /\ ~initiated
  /\ initiated' = TRUE /\ reason' = r /\ accepted' = {r}
  /\ timeoutArmed' = FALSE
  /\ graceArmed' = FALSE /\ grace' = g
  /\ failed' \in IF CallsCanFail THEN {f, TRUE} ELSE {f}

\* TERM was sent, or failed with something else than ESRCH.
Begin(r, g, f) ==
  /\ ~initiated
  /\ initiated' = TRUE /\ reason' = r /\ accepted' = {r}
  /\ timeoutArmed' = FALSE
  /\ graceArmed' = TRUE /\ grace' = g
  /\ failed' \in IF CallsCanFail THEN {f, TRUE} ELSE {f}

\* TERM found nobody.
Vain(f) ==
  /\ ~initiated /\ NoSuchGroup
  /\ failed' = f
  /\ UNCHANGED stopState

Initiate(r, g) == Raise(r, failed) \/ Begin(r, g, failed) \/ Vain(failed)

\* case err := <-leaderExitC, err # nil
OnObservationError ==
  /\ cpc = "loop" /\ leaderExit = "error"
  /\ leaderExit' = "taken"
  /\ observationDone' = TRUE
  /\ failed' = TRUE
  /\ cpc' = IF ~initiated \/ killSent THEN "returned" ELSE "loop"
  /\ UNCHANGED <<osVars, ctx, ctxSeen, stops, stopState, polling,
                 leaderObserved, killSent, scan, reaperVars>>

\* case err := <-leaderExitC, err = nil: look for survivors, unless KILL
\* was sent already.
OnLeaderExit ==
  /\ cpc = "loop" /\ leaderExit = "exit"
  /\ leaderExit' = "taken"
  /\ observationDone' = TRUE
  /\ leaderObserved' = TRUE
  /\ IF killSent THEN cpc' = "returned" /\ UNCHANGED scan
     ELSE cpc' = "scanExit" /\ scan' = LiveGroup
  /\ UNCHANGED <<osVars, ctx, ctxSeen, stops, stopState, polling, killSent,
                 failed, reaperVars>>

\* Mutant: only the leader is looked at.
ProbeDeadLeader == Leader \notin alive

\* probeGroup has read every listed entry and found nobody, or found somebody
\* or failed, which counts as live; f: whether an error is recorded then.
ProbeDead == scan \cap LiveGroup = {}
ProbeLive(f) == \/ scan \cap LiveGroup # {} /\ f = failed
                \/ CallsCanFail /\ f = TRUE

scanFrame == <<osVars, inputVars, observation, reaperVars, scan>>

\* The probe after the leader's exit: nobody left, or clean up.
ExitScanEmpty ==
  /\ cpc = "scanExit" /\ ProbeDead
  /\ cpc' = "returned"
  /\ UNCHANGED <<scanFrame, stopState, polling, killSent, failed>>

ExitScanCleanup ==
  /\ cpc = "scanExit"
  /\ \E f \in BOOLEAN :
       /\ ProbeLive(f)
       /\ \/ /\ IF initiated THEN failed' = f /\ UNCHANGED stopState
                ELSE Begin(Cleanup, "plan", f)
             /\ cpc' = "loop" /\ polling' = TRUE
          \/ Vain(f) /\ cpc' = "returned" /\ UNCHANGED polling
  /\ UNCHANGED <<scanFrame, killSent>>

controlFrame == <<osVars, polling, observation, killSent, scan, reaperVars>>

\* case request := <-h.stopRequests; RunService always asks for grace 0.
OnStop ==
  /\ cpc = "loop" /\ stops > 0
  /\ stops' = stops - 1
  /\ Initiate(Manual, "zero")
  /\ UNCHANGED <<controlFrame, ctx, ctxSeen, leaderExit, cpc>>

\* case <-contextDone
OnContext ==
  /\ cpc = "loop" /\ ctx # "open" /\ ~ctxSeen
  /\ ctxSeen' = TRUE
  /\ Initiate(IF ctx = "deadline" THEN Timeout ELSE Manual, "plan")
  /\ UNCHANGED <<controlFrame, ctx, stops, leaderExit, cpc>>

\* case <-timeoutC
OnTimeout ==
  /\ cpc = "loop" /\ timeoutArmed
  /\ \/ Begin(Timeout, "plan", failed)
     \/ /\ NoSuchGroup /\ timeoutArmed' = FALSE
        /\ UNCHANGED <<initiated, reason, graceArmed, grace, accepted, failed>>
  /\ UNCHANGED <<controlFrame, inputVars, cpc>>

\* case <-pollC
OnPoll ==
  /\ cpc = "loop" /\ polling
  /\ cpc' = "scanPoll" /\ scan' = LiveGroup
  /\ UNCHANGED <<osVars, inputVars, stopState, polling, observation, killSent,
                 failed, reaperVars>>

PollScan ==
  /\ cpc = "scanPoll"
  /\ \/ ProbeDead /\ cpc' = "returned" /\ UNCHANGED failed
     \/ cpc' = "loop" /\ \E f \in BOOLEAN : ProbeLive(f) /\ failed' = f
  /\ UNCHANGED <<scanFrame, stopState, polling, killSent>>

\* case <-graceC: KILL, after a last look when the leader is gone.
SendKill(f) ==
  /\ \/ doomed' = doomed \cup LiveGroup /\ failed' = f
     \/ CallsCanFail /\ failed' = TRUE /\ UNCHANGED doomed
  /\ killSent' = TRUE
  /\ graceArmed' = FALSE /\ polling' = FALSE
  /\ cpc' = IF observationDone THEN "returned" ELSE "loop"
  /\ UNCHANGED <<alive, born, group, pipe, exitZero, inputVars, initiated,
                 reason, timeoutArmed, grace, accepted, observation, scan,
                 reaperVars>>

OnGrace ==
  /\ cpc = "loop" /\ graceArmed
  /\ IF leaderObserved
     THEN /\ cpc' = "scanGrace" /\ scan' = LiveGroup
          /\ UNCHANGED <<osVars, inputVars, stopState, polling, observation,
                         killSent, failed, reaperVars>>
     ELSE SendKill(failed)

GraceScanEmpty ==
  /\ cpc = "scanGrace" /\ ProbeDead
  /\ cpc' = "returned"
  /\ UNCHANGED <<scanFrame, stopState, polling, killSent, failed>>

GraceScanKill ==
  /\ cpc = "scanGrace"
  /\ \E f \in BOOLEAN : ProbeLive(f) /\ SendKill(f)
-----------------------------------------------------------------------------
(***************************************************************************)
(* reap().                                                                 *)
(***************************************************************************)
notReaper == <<osVars, inputVars, cpc, stopState, polling, observation,
               killSent, failed, scan>>

\* Mutant: the leader is reaped while the controller may still signal.
ReapBeginEarly ==
  /\ rpc = "control"
  /\ rpc' = "wait"
  /\ UNCHANGED <<notReaper, status, reaped>>

\* <-controlDone
ReapBegin ==
  /\ rpc = "control" /\ cpc = "returned"
  /\ rpc' = "wait"
  /\ UNCHANGED <<notReaper, status, reaped>>

\* command.Wait(), the sole reap
ReapLeader ==
  /\ rpc = "wait" /\ Leader \notin alive
  /\ rpc' = "stream" /\ reaped' = TRUE
  /\ UNCHANGED <<notReaper, status>>

\* <-streamDone (end of file on the log pipe), then the result.
ReapDone ==
  /\ rpc = "stream" /\ alive \cap pipe = {}
  /\ rpc' = "done"
  /\ status' = CASE initiated /\ reason = Manual  -> "killed"
                 [] initiated /\ reason = Timeout -> "timed_out"
                 [] OTHER -> IF exitZero THEN "succeeded" ELSE "failed"
  /\ UNCHANGED <<notReaper, reaped>>
-----------------------------------------------------------------------------
Environment ==
  \/ \E p \in Processes : ClosePipe(p) \/ Exit(p) \/ \E k \in Kids : Fork(p, k)
  \/ \E k \in Kids : Escape(k)
  \/ CancelContext \/ CallStop \/ AbandonStop

Control ==
  \/ OnObservationError \/ OnLeaderExit \/ ExitScanEmpty \/ ExitScanCleanup
  \/ OnStop \/ OnContext \/ OnTimeout \/ OnPoll \/ PollScan
  \/ OnGrace \/ GraceScanEmpty \/ GraceScanKill

Reap == ReapBegin \/ ReapLeader \/ ReapDone

Next == Environment \/ ObserveLeader \/ Control \/ Reap

Spec == Init /\ [][Next]_vars
-----------------------------------------------------------------------------
(***************************************************************************)
(* Safety                                                                  *)
(***************************************************************************)
\* TERM and KILL are sent only while the leader has not been reaped, so the
\* group ID can never name a stranger's group.  (WNOWAIT in waitLeaderExit,
\* reap waiting for controlDone)
SignalsWhileOwned ==
  [][(initiated' # initiated \/ killSent' # killSent) => ~reaped]_vars

\* When the controller returns without an error the leader is dead; after a KILL
\* every member of the group is dead or was sent it, and otherwise the only
\* members left were forked after the last listing of /proc.
NoKnownSurvivor ==
  cpc = "returned" /\ ~failed =>
    /\ Leader \notin alive
    /\ IF killSent THEN LiveGroup \subseteq doomed ELSE LiveGroup \cap scan = {}

\* The reported status names the strongest request the controller acted on, in
\* whatever order requests, timers and the leader's exit arrived: a stop
\* outranks a timeout, and neither is reported when only the cleanup after the
\* leader's own exit signalled the group.
StatusNamesStrongestReason ==
  rpc = "done" =>
    /\ status = "killed" <=> Manual \in accepted
    /\ status = "timed_out" <=> Timeout \in accepted /\ Manual \notin accepted
    /\ status = "succeeded" => exitZero /\ Leader \notin doomed
-----------------------------------------------------------------------------
(***************************************************************************)
(* Liveness.  Goroutines are scheduled; select picks among ready cases at  *)
(* random, so a case that is ready again and again is taken; armed timers  *)
(* fire; a process that was sent KILL exits.  Callers and other processes  *)
(* owe nothing.                                                            *)
(***************************************************************************)
Fairness ==
  /\ WF_vars(Leader \notin alive /\ ObserveLeader) /\ WF_vars(Reap)
  /\ SF_vars(OnObservationError) /\ SF_vars(OnLeaderExit) /\ SF_vars(OnStop)
  /\ SF_vars(OnContext) /\ SF_vars(OnTimeout) /\ SF_vars(OnPoll)
  /\ SF_vars(OnGrace)
  /\ WF_vars(ExitScanEmpty \/ ExitScanCleanup)
  /\ WF_vars(PollScan) /\ WF_vars(GraceScanEmpty \/ GraceScanKill)
  /\ \A p \in Processes : WF_vars(p \in doomed /\ Exit(p))

FairSpec == Spec /\ Fairness

\* A process the controller cannot signal any more keeps the log pipe open.
PipeHeld == cpc = "returned" /\ (alive \cap pipe) \ doomed # {}

\* The execution has been reported, or cannot be: a host call failed, or a
\* process out of the controller's reach holds the log pipe.
Over == rpc = "done" \/ PipeHeld \/ failed

\* Termination completes, whoever asks for it and whatever else arrives: once the
\* group has been told to end the execution is reported, a caller of Stop is
\* never left waiting on a controller that has gone, and an execution with a
\* timeout ends.  (control, terminateGroup, reap, Stop)
TerminationCompletes ==
  /\ initiated ~> Over
  /\ stops > 0 ~> stops = 0 \/ Over
  /\ HasTimeout => <>Over
=============================================================================
