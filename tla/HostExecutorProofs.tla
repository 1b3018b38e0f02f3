------------------------- MODULE HostExecutorProofs -------------------------
(***************************************************************************)
(* Proofs about HostExecutor for any set of descendants, any number of     *)
(* callers of Stop, with and without a timeout and failing host calls.     *)
(***************************************************************************)
EXTENDS HostExecutor, TLAPS

Scans == {"scanExit", "scanPoll", "scanGrace"}

\* Only processes that were forked are alive, grouped or listed, so a new one
\* is in none of these sets.
TreeInv ==
  /\ alive \subseteq born \cup {Leader}
  /\ group \subseteq born \cup {Leader}
  /\ scan \subseteq born \cup {Leader}

\* What the controller and the reaper may conclude about the leader.
LeaderInv ==
  /\ leaderExit = "exit" \/ leaderObserved => Leader \notin alive
  /\ polling \/ cpc \in Scans => leaderObserved
  /\ observationDone => leaderObserved \/ failed
  /\ cpc = "returned" /\ ~failed => leaderObserved
  /\ exitZero => Leader \notin alive \cup doomed

\* The leader is reaped after the controller has returned.
ReapInv ==
  /\ rpc # "control" => cpc = "returned"
  /\ reaped => rpc # "control"
  /\ rpc \in {"stream", "done"} => Leader \notin alive

\* Whom the last KILL or the last scan can have missed.
GroupInv ==
  ~failed =>
    /\ killSent => LiveGroup \subseteq doomed
    /\ cpc = "returned" /\ ~killSent => LiveGroup \cap scan = {}

\* The reason is the strongest request, and it is what the status reports.
ReasonInv ==
  /\ ~initiated => accepted = {}
  /\ initiated => reason \in accepted /\ \A a \in accepted : a <= reason
  /\ rpc = "done" =>
       status = CASE initiated /\ reason = Manual  -> "killed"
                  [] initiated /\ reason = Timeout -> "timed_out"
                  [] OTHER -> IF exitZero THEN "succeeded" ELSE "failed"

ExecutorInv == TypeOK /\ TreeInv /\ LeaderInv /\ ReapInv /\ GroupInv /\ ReasonInv

LEMMA InitExecutor == Init => ExecutorInv
<1> SUFFICES ASSUME Init
             PROVE  ExecutorInv
  OBVIOUS
<1> USE ExecutorAssumption DEF Init
<1>1. TypeOK
  <2>1. timeoutArmed \in BOOLEAN /\ 0 \in 0..MaxStops
    OBVIOUS
  <2> QED BY <2>1 DEF TypeOK, Processes, Cleanup, Timeout, Manual
<1>2. TreeInv /\ ReapInv /\ GroupInv /\ ReasonInv
  BY DEF TreeInv, ReapInv, GroupInv, ReasonInv
<1>3. LeaderInv
  BY DEF LeaderInv, Scans
<1> QED BY <1>1, <1>2, <1>3 DEF ExecutorInv
-----------------------------------------------------------------------------
(***************************************************************************)
(* The processes and the callers.                                          *)
(***************************************************************************)
LEMMA ForkExecutor ==
  ASSUME ExecutorInv, NEW p \in Processes, NEW k \in Kids, Fork(p, k)
  PROVE  ExecutorInv'
<1> USE ExecutorAssumption
    DEF Fork, ExecutorInv, notOS, inputVars, stopState, observation, reaperVars
<1>1. TypeOK'
  BY DEF TypeOK, Processes
<1>2. TreeInv'
  BY DEF TreeInv
<1>3. LeaderInv'
  BY DEF LeaderInv, Scans
<1>4. ReapInv'
  BY DEF ReapInv
<1>5. GroupInv'
  BY DEF GroupInv, TreeInv, LiveGroup
<1>6. ReasonInv'
  BY DEF ReasonInv
<1> QED BY <1>1, <1>2, <1>3, <1>4, <1>5, <1>6

LEMMA ExitExecutor ==
  ASSUME ExecutorInv, NEW p \in Processes, Exit(p)
  PROVE  ExecutorInv'
<1>1. /\ p \in alive /\ alive' = alive \ {p} /\ pipe' = pipe \ {p}
      /\ UNCHANGED <<born, group, doomed, notOS>>
  BY DEF Exit
<1>2. /\ p # Leader => exitZero' = exitZero
      /\ p = Leader /\ p \in doomed => exitZero' = FALSE
  BY DEF Exit
<1>3. exitZero' \in BOOLEAN
  BY DEF Exit, ExecutorInv, TypeOK
<1> USE <1>1 DEF ExecutorInv, notOS, inputVars, stopState, observation, reaperVars
<1>4. TypeOK'
  BY <1>3 DEF TypeOK
<1>5. TreeInv'
  BY DEF TreeInv
<1>6. LeaderInv'
  BY <1>2 DEF LeaderInv, Scans
<1>7. ReapInv'
  BY DEF ReapInv
<1>8. GroupInv'
  BY DEF GroupInv, LiveGroup
<1>9. ReasonInv'
  <2>1. rpc = "done" => exitZero' = exitZero
    BY <1>2 DEF ReapInv
  <2> QED BY <2>1 DEF ReasonInv
<1> QED BY <1>4, <1>5, <1>6, <1>7, <1>8, <1>9

LEMMA SurroundingsExecutor ==
  ASSUME ExecutorInv,
         \/ \E k \in Kids : Escape(k)
         \/ \E p \in Processes : ClosePipe(p)
         \/ CancelContext \/ CallStop \/ AbandonStop
  PROVE  ExecutorInv'
<1> USE ExecutorAssumption
    DEF Escape, ClosePipe, CancelContext, CallStop, AbandonStop, ExecutorInv,
        notOS, notInput, inputVars, osVars, stopState, observation, reaperVars
<1>1. TypeOK'
  BY DEF TypeOK, Processes
<1>2. TreeInv'
  BY DEF TreeInv
<1>3. LeaderInv'
  BY DEF LeaderInv, Scans
<1>4. ReapInv'
  BY DEF ReapInv
<1>5. GroupInv'
  BY DEF GroupInv, LiveGroup
<1>6. ReasonInv'
  BY DEF ReasonInv
<1> QED BY <1>1, <1>2, <1>3, <1>4, <1>5, <1>6

LEMMA ObserveExecutor ==
  ASSUME ExecutorInv, ObserveLeader
  PROVE  ExecutorInv'
<1> USE DEF ObserveLeader, ExecutorInv, notInput, osVars, stopState, observation,
            reaperVars
<1>1. TypeOK'
  BY DEF TypeOK
<1>2. TreeInv'
  BY DEF TreeInv
<1>3. LeaderInv'
  BY DEF LeaderInv, Scans
<1>4. ReapInv'
  BY DEF ReapInv
<1>5. GroupInv'
  BY DEF GroupInv, LiveGroup
<1>6. ReasonInv'
  BY DEF ReasonInv
<1> QED BY <1>1, <1>2, <1>3, <1>4, <1>5, <1>6
-----------------------------------------------------------------------------
(***************************************************************************)
(* The controller.                                                         *)
(***************************************************************************)
Reasons == {Cleanup, Timeout, Manual}

\* The part of the invariant that a request to end the group can disturb.
StopOK ==
  /\ initiated \in BOOLEAN /\ reason \in Reasons
  /\ timeoutArmed \in BOOLEAN /\ graceArmed \in BOOLEAN
  /\ grace \in {"none", "plan", "zero"} /\ accepted \subseteq Reasons
  /\ ~initiated => accepted = {}
  /\ initiated => reason \in accepted /\ \A a \in accepted : a <= reason

LEMMA StopOKHolds == ExecutorInv => StopOK
  BY DEF ExecutorInv, TypeOK, ReasonInv, StopOK, Reasons

\* initiate keeps it, and never forgets an error.
LEMMA InitiateStop ==
  ASSUME StopOK, NEW r \in Reasons, NEW g \in {"plan", "zero"}, NEW f \in BOOLEAN,
         Raise(r, f) \/ Begin(r, g, f) \/ Vain(f)
  PROVE  StopOK' /\ failed' \in BOOLEAN /\ (f => failed')
<1> USE DEF Reasons, Cleanup, Timeout, Manual
<1>1. CASE Raise(r, f)
  <2>1. /\ initiated /\ reason' = (IF r > reason THEN r ELSE reason)
        /\ accepted' = accepted \cup {r} /\ failed' = f
        /\ UNCHANGED <<initiated, timeoutArmed, graceArmed, grace>>
    BY <1>1 DEF Raise
  <2> QED BY <2>1 DEF StopOK
<1>2. CASE Begin(r, g, f)
  <2>1. /\ initiated' = TRUE /\ reason' = r /\ accepted' = {r}
        /\ timeoutArmed' = FALSE /\ graceArmed' = TRUE /\ grace' = g
    BY <1>2 DEF Begin
  <2>2. failed' = f \/ failed' = TRUE
    BY <1>2 DEF Begin
  <2>3. StopOK'
    <3>1. initiated' /\ initiated' \in BOOLEAN
      BY <2>1
    <3>2. timeoutArmed' \in BOOLEAN /\ graceArmed' \in BOOLEAN
      BY <2>1
    <3>3. reason' \in accepted' /\ \A a \in accepted' : a <= reason'
      BY <2>1
    <3>4. /\ reason' \in Reasons /\ accepted' \subseteq Reasons
          /\ grace' \in {"none", "plan", "zero"}
      BY <2>1
    <3> QED BY ONLY <3>1, <3>2, <3>3, <3>4 DEF StopOK
  <2>4. failed' \in BOOLEAN /\ (f => failed')
    BY <2>2
  <2> QED BY <2>3, <2>4
<1>3. CASE Vain(f)
  BY <1>3 DEF Vain, stopState, StopOK
<1> QED BY <1>1, <1>2, <1>3

\* A step of the controller that leaves the processes, the observation and the
\* kill alone, stays in the loop and keeps StopOK.
LEMMA RequestExecutor ==
  ASSUME ExecutorInv, cpc = "loop", cpc' = "loop",
         UNCHANGED <<osVars, polling, observation, killSent, scan, reaperVars,
                     ctx, leaderExit>>,
         ctxSeen' \in BOOLEAN, stops' \in 0..MaxStops,
         StopOK', failed' \in BOOLEAN, failed => failed'
  PROVE  ExecutorInv'
<1> USE DEF ExecutorInv, osVars, observation, reaperVars
<1>1. TypeOK'
  BY DEF TypeOK, StopOK, Reasons
<1>2. TreeInv'
  BY DEF TreeInv
<1>3. LeaderInv'
  BY DEF LeaderInv, Scans
<1>4. ReapInv'
  BY DEF ReapInv
<1>5. GroupInv'
  BY DEF GroupInv, LiveGroup
<1>6. ReasonInv'
  BY DEF ReasonInv, StopOK, ReapInv
<1> QED BY <1>1, <1>2, <1>3, <1>4, <1>5, <1>6

LEMMA OnRequestExecutor ==
  ASSUME ExecutorInv, OnStop \/ OnContext \/ OnTimeout
  PROVE  ExecutorInv'
<1>1. failed \in BOOLEAN /\ StopOK /\ stops \in 0..MaxStops /\ MaxStops \in Nat
  BY StopOKHolds, ExecutorAssumption DEF ExecutorInv, TypeOK
<1>2. Manual \in Reasons /\ Timeout \in Reasons
  BY DEF Reasons
<1>3. CASE OnStop
  <2>1. /\ cpc = "loop" /\ cpc' = "loop" /\ stops > 0 /\ stops' = stops - 1
        /\ UNCHANGED <<controlFrame, ctx, ctxSeen, leaderExit>>
        /\ Initiate(Manual, "zero")
    BY <1>3 DEF OnStop
  <2>2. StopOK' /\ failed' \in BOOLEAN /\ (failed => failed')
    BY <1>1, <1>2, <2>1, InitiateStop DEF Initiate
  <2>3. stops' \in 0..MaxStops /\ ctxSeen' \in BOOLEAN
    BY <1>1, <2>1 DEF ExecutorInv, TypeOK
  <2> QED BY <2>1, <2>2, <2>3, RequestExecutor DEF controlFrame
<1>4. CASE OnContext
  <2> DEFINE r == IF ctx = "deadline" THEN Timeout ELSE Manual
  <2>1. /\ cpc = "loop" /\ cpc' = "loop" /\ ctxSeen' = TRUE
        /\ UNCHANGED <<controlFrame, ctx, stops, leaderExit>>
        /\ Initiate(r, "plan")
    BY <1>4 DEF OnContext
  <2>2. r \in Reasons
    BY <1>2
  <2> HIDE DEF r
  <2>3. StopOK' /\ failed' \in BOOLEAN /\ (failed => failed')
    BY <1>1, <2>1, <2>2, InitiateStop DEF Initiate
  <2> QED BY <1>1, <2>1, <2>3, RequestExecutor DEF controlFrame
<1>5. CASE OnTimeout
  <2>1. /\ cpc = "loop" /\ cpc' = "loop"
        /\ UNCHANGED <<controlFrame, ctx, ctxSeen, stops, leaderExit>>
    BY <1>5 DEF OnTimeout, inputVars
  <2>2. \/ Begin(Timeout, "plan", failed)
        \/ /\ timeoutArmed' = FALSE
           /\ UNCHANGED <<initiated, reason, graceArmed, grace, accepted, failed>>
    BY <1>5 DEF OnTimeout
  <2>4. StopOK' /\ failed' \in BOOLEAN /\ (failed => failed')
    <3>1. CASE Begin(Timeout, "plan", failed)
      BY <1>1, <1>2, <3>1, InitiateStop
    <3>2. CASE /\ timeoutArmed' = FALSE
               /\ UNCHANGED <<initiated, reason, graceArmed, grace, accepted, failed>>
      <4>1. StopOK'
        BY <1>1, <3>2 DEF StopOK
      <4> QED BY <1>1, <3>2, <4>1
    <3> QED BY <2>2, <3>1, <3>2
  <2>5. ctxSeen' \in BOOLEAN
    BY <2>1 DEF ExecutorInv, TypeOK
  <2> QED BY <1>1, <2>1, <2>4, <2>5, RequestExecutor DEF controlFrame
<1> QED BY <1>3, <1>4, <1>5

LEMMA ObservationExecutor ==
  ASSUME ExecutorInv, OnObservationError \/ OnLeaderExit
  PROVE  ExecutorInv'
<1> USE DEF OnObservationError, OnLeaderExit, ExecutorInv, osVars, stopState,
            reaperVars
<1>1. TypeOK'
  <2>1. /\ cpc' \in {"loop", "scanExit", "returned"}
        /\ leaderExit' = "taken" /\ observationDone' = TRUE
        /\ leaderObserved' \in BOOLEAN /\ failed' \in BOOLEAN
    BY DEF TypeOK
  <2>2. scan' \subseteq Processes
    BY DEF TypeOK, LiveGroup
  <2>3. UNCHANGED <<osVars, ctx, ctxSeen, stops, stopState, polling, killSent,
                    reaperVars>>
    OBVIOUS
  <2> QED BY ONLY TypeOK, <2>1, <2>2, <2>3 DEF TypeOK, osVars, stopState, reaperVars
<1>2. TreeInv'
  BY DEF TreeInv, LiveGroup
<1>3. LeaderInv'
  BY DEF LeaderInv, Scans
<1>4. ReapInv'
  BY DEF ReapInv
<1>5. GroupInv'
  BY DEF GroupInv, LiveGroup
<1>6. ReasonInv'
  BY DEF ReasonInv
<1> QED BY <1>1, <1>2, <1>3, <1>4, <1>5, <1>6

\* A scan that found nobody: no process that it listed is left in the group.
LEMMA EmptyScanExecutor ==
  ASSUME ExecutorInv, cpc \in Scans, cpc' = "returned",
         scan \cap LiveGroup = {} \/ LiveGroup = {},
         UNCHANGED <<scanFrame, stopState, polling, killSent>>,
         failed' \in BOOLEAN, failed => failed'
  PROVE  ExecutorInv'
<1> USE DEF ExecutorInv, scanFrame, osVars, inputVars, stopState, observation,
            reaperVars
<1>1. TypeOK'
  BY DEF TypeOK
<1>2. TreeInv'
  BY DEF TreeInv
<1>3. LeaderInv'
  BY DEF LeaderInv, Scans
<1>4. ReapInv'
  BY DEF ReapInv, Scans
<1>5. GroupInv'
  BY DEF GroupInv, LiveGroup
<1>6. ReasonInv'
  BY DEF ReasonInv
<1> QED BY <1>1, <1>2, <1>3, <1>4, <1>5, <1>6

LEMMA ExitScanExecutor ==
  ASSUME ExecutorInv, ExitScanEmpty \/ ExitScanCleanup
  PROVE  ExecutorInv'
<1>0. failed \in BOOLEAN /\ StopOK /\ cpc = "scanExit" /\ leaderObserved
  BY StopOKHolds DEF ExitScanEmpty, ExitScanCleanup, ExecutorInv, TypeOK, LeaderInv,
     Scans
<1>1. CASE ExitScanEmpty
  BY <1>0, <1>1, EmptyScanExecutor DEF ExitScanEmpty, ProbeDead, Scans
<1>2. CASE ExitScanCleanup
  <2>1. PICK f \in BOOLEAN :
          /\ ProbeLive(f)
          /\ \/ /\ IF initiated THEN failed' = f /\ UNCHANGED stopState
                   ELSE Begin(Cleanup, "plan", f)
                /\ cpc' = "loop" /\ polling' = TRUE
             \/ Vain(f) /\ cpc' = "returned" /\ UNCHANGED polling
    BY <1>2 DEF ExitScanCleanup
  <2>2. UNCHANGED <<scanFrame, killSent>>
    BY <1>2 DEF ExitScanCleanup
  <2>3. failed => f
    BY <2>1 DEF ProbeLive
  <2>4. CASE Vain(f) /\ cpc' = "returned" /\ UNCHANGED polling
    BY <1>0, <2>2, <2>3, <2>4, EmptyScanExecutor DEF Vain, NoSuchGroup, Scans
  <2>5. CASE /\ IF initiated THEN failed' = f /\ UNCHANGED stopState
                ELSE Begin(Cleanup, "plan", f)
             /\ cpc' = "loop" /\ polling' = TRUE
    <3>1. StopOK' /\ failed' \in BOOLEAN /\ (failed => failed')
      <4>1. CASE initiated
        BY <1>0, <2>3, <2>5, <4>1 DEF stopState, StopOK
      <4>2. CASE ~initiated
        BY <1>0, <2>3, <2>5, <4>2, InitiateStop DEF Reasons
      <4> QED BY <4>1, <4>2
    <3> USE <1>0, <2>2, <2>5, <3>1 DEF ExecutorInv, scanFrame, osVars, inputVars,
                                       observation, reaperVars
    <3>2. TypeOK'
      BY DEF TypeOK, StopOK, Reasons
    <3>3. TreeInv'
      BY DEF TreeInv
    <3>4. LeaderInv'
      BY DEF LeaderInv, Scans
    <3>5. ReapInv'
      BY DEF ReapInv
    <3>6. GroupInv'
      BY DEF GroupInv, LiveGroup
    <3>7. ReasonInv'
      BY DEF ReasonInv, StopOK, ReapInv
    <3> QED BY <3>2, <3>3, <3>4, <3>5, <3>6, <3>7
  <2> QED BY <2>1, <2>4, <2>5
<1> QED BY <1>1, <1>2

LEMMA PollExecutor ==
  ASSUME ExecutorInv, OnPoll \/ PollScan
  PROVE  ExecutorInv'
<1>0. failed \in BOOLEAN
  BY DEF ExecutorInv, TypeOK
<1>1. CASE cpc' = "returned"
  <2>1. cpc = "scanPoll" /\ ProbeDead /\ UNCHANGED failed
        /\ UNCHANGED <<scanFrame, stopState, polling, killSent>>
    BY <1>1 DEF OnPoll, PollScan
  <2> QED BY <1>0, <1>1, <2>1, EmptyScanExecutor DEF ProbeDead, Scans
<1>2. CASE cpc' # "returned"
  <2>1. \/ /\ cpc = "loop" /\ polling /\ cpc' = "scanPoll" /\ scan' = LiveGroup
           /\ failed' = failed
        \/ /\ cpc = "scanPoll" /\ cpc' = "loop" /\ UNCHANGED scan
           /\ failed' \in BOOLEAN /\ (failed => failed')
    BY <1>0, <1>2 DEF OnPoll, PollScan, ProbeLive, scanFrame
  <2>2. UNCHANGED <<osVars, inputVars, stopState, polling, observation, killSent,
                    reaperVars>>
    BY DEF OnPoll, PollScan, scanFrame
  <2> USE <1>0, <2>1, <2>2 DEF ExecutorInv, osVars, inputVars, stopState,
                               observation, reaperVars
  <2>3. TypeOK'
    BY DEF TypeOK, LiveGroup
  <2>4. TreeInv'
    BY DEF TreeInv, LiveGroup
  <2>5. LeaderInv'
    BY DEF LeaderInv, Scans
  <2>6. ReapInv'
    BY DEF ReapInv
  <2>7. GroupInv'
    BY DEF GroupInv, LiveGroup
  <2>8. ReasonInv'
    BY DEF ReasonInv
  <2> QED BY <2>3, <2>4, <2>5, <2>6, <2>7, <2>8
<1> QED BY <1>1, <1>2

\* KILL is sent to whoever is in the group; an error is recorded otherwise.
LEMMA KillExecutor ==
  ASSUME ExecutorInv, cpc # "returned", NEW f \in BOOLEAN, failed => f, SendKill(f)
  PROVE  ExecutorInv'
<1>1. /\ killSent' = TRUE /\ graceArmed' = FALSE /\ polling' = FALSE
      /\ cpc' = (IF observationDone THEN "returned" ELSE "loop")
      /\ UNCHANGED <<alive, born, group, pipe, exitZero, inputVars, initiated,
                     reason, timeoutArmed, grace, accepted, observation, scan,
                     reaperVars>>
  BY DEF SendKill
<1>2. /\ failed' \in BOOLEAN /\ (failed => failed')
      /\ \/ doomed' = doomed \cup LiveGroup
         \/ doomed' = doomed /\ failed' = TRUE
  BY DEF SendKill
<1> USE <1>1, <1>2 DEF ExecutorInv, inputVars, observation, reaperVars
<1>3. TypeOK'
  <2>1. doomed' \subseteq Processes /\ cpc' \in {"loop", "returned"}
    BY DEF TypeOK, LiveGroup
  <2>2. killSent' \in BOOLEAN /\ graceArmed' \in BOOLEAN /\ polling' \in BOOLEAN
    OBVIOUS
  <2>3. UNCHANGED <<alive, born, group, pipe, exitZero, inputVars, initiated,
                    reason, timeoutArmed, grace, accepted, observation, scan,
                    reaperVars>>
    OBVIOUS
  <2> QED BY ONLY TypeOK, failed' \in BOOLEAN, <2>1, <2>2, <2>3
          DEF TypeOK, inputVars, observation, reaperVars
<1>4. TreeInv'
  BY DEF TreeInv
<1>5. LeaderInv'
  BY DEF LeaderInv, Scans, LiveGroup
<1>6. ReapInv'
  BY DEF ReapInv
<1>7. GroupInv'
  BY DEF GroupInv, LiveGroup
<1>8. ReasonInv'
  BY DEF ReasonInv, ReapInv
<1> QED BY <1>3, <1>4, <1>5, <1>6, <1>7, <1>8

LEMMA GraceExecutor ==
  ASSUME ExecutorInv, OnGrace \/ GraceScanEmpty \/ GraceScanKill
  PROVE  ExecutorInv'
<1>0. failed \in BOOLEAN
  BY DEF ExecutorInv, TypeOK
<1>1. CASE OnGrace /\ leaderObserved
  <2>1. /\ cpc = "loop" /\ cpc' = "scanGrace" /\ scan' = LiveGroup
        /\ UNCHANGED <<osVars, inputVars, stopState, polling, observation,
                       killSent, failed, reaperVars>>
    BY <1>1 DEF OnGrace
  <2> USE <1>1, <2>1 DEF ExecutorInv, osVars, inputVars, stopState, observation,
                         reaperVars
  <2>2. TypeOK'
    BY DEF TypeOK, LiveGroup
  <2>3. TreeInv'
    BY DEF TreeInv, LiveGroup
  <2>4. LeaderInv'
    BY DEF LeaderInv, Scans
  <2>5. ReapInv'
    BY DEF ReapInv
  <2>6. GroupInv'
    BY DEF GroupInv, LiveGroup
  <2>7. ReasonInv'
    BY DEF ReasonInv
  <2> QED BY <2>2, <2>3, <2>4, <2>5, <2>6, <2>7
<1>2. CASE OnGrace /\ ~leaderObserved
  BY <1>0, <1>2, KillExecutor DEF OnGrace
<1>3. CASE GraceScanEmpty
  BY <1>0, <1>3, EmptyScanExecutor DEF GraceScanEmpty, ProbeDead, Scans
<1>4. CASE GraceScanKill
  <2>1. PICK f \in BOOLEAN : ProbeLive(f) /\ SendKill(f)
    BY <1>4 DEF GraceScanKill
  <2>2. cpc # "returned" /\ (failed => f)
    BY <1>4, <2>1 DEF GraceScanKill, ProbeLive
  <2> QED BY <2>1, <2>2, KillExecutor
<1> QED BY <1>1, <1>2, <1>3, <1>4
-----------------------------------------------------------------------------
(***************************************************************************)
(* The reaper, and the theorems.                                           *)
(***************************************************************************)
LEMMA ReapExecutor ==
  ASSUME ExecutorInv, Reap
  PROVE  ExecutorInv'
<1> USE DEF Reap, ReapBegin, ReapLeader, ReapDone, ExecutorInv, notReaper, osVars,
            inputVars, stopState, observation
<1>1. TypeOK'
  <2>1. /\ rpc' \in {"wait", "stream", "done"} /\ reaped' \in BOOLEAN
        /\ status' \in {"none", "succeeded", "failed", "killed", "timed_out"}
    BY DEF TypeOK
  <2>2. UNCHANGED notReaper
    OBVIOUS
  <2> QED BY ONLY TypeOK, <2>1, <2>2
          DEF TypeOK, notReaper, osVars, inputVars, stopState, observation
<1>2. TreeInv'
  BY DEF TreeInv
<1>3. LeaderInv'
  BY DEF LeaderInv, Scans
<1>4. ReapInv'
  BY DEF ReapInv
<1>5. GroupInv'
  BY DEF GroupInv, LiveGroup
<1>6. ReasonInv'
  BY DEF ReasonInv
<1> QED BY <1>1, <1>2, <1>3, <1>4, <1>5, <1>6

LEMMA StutterExecutor ==
  ASSUME ExecutorInv, UNCHANGED vars
  PROVE  ExecutorInv'
  BY DEF ExecutorInv, vars, TypeOK, TreeInv, LeaderInv, ReapInv, GroupInv, ReasonInv,
     LiveGroup

LEMMA NextExecutor == ExecutorInv /\ [Next]_vars => ExecutorInv'
<1> SUFFICES ASSUME ExecutorInv, [Next]_vars
             PROVE  ExecutorInv'
  OBVIOUS
<1>1. Environment => ExecutorInv'
  BY ForkExecutor, ExitExecutor, SurroundingsExecutor DEF Environment
<1>2. Control => ExecutorInv'
  BY OnRequestExecutor, ObservationExecutor, ExitScanExecutor, PollExecutor,
     GraceExecutor DEF Control
<1> QED BY <1>1, <1>2, ObserveExecutor, ReapExecutor, StutterExecutor DEF Next

LEMMA ReachableExecutor == Spec => []ExecutorInv
<1> QED BY InitExecutor, NextExecutor, PTL DEF Spec

\* The state of an execution stays well-formed.
THEOREM ExecutorTypeCorrect == Spec => []TypeOK
<1>1. ExecutorInv => TypeOK
  BY DEF ExecutorInv
<1> QED BY <1>1, ReachableExecutor, PTL

\* A controller that returned without an error has left no process of the group
\* that it could have known of, whatever forked, exited or escaped meanwhile.
THEOREM SurvivorsAreUnknown == Spec => []NoKnownSurvivor
<1>1. ExecutorInv => NoKnownSurvivor
  BY DEF ExecutorInv, LeaderInv, GroupInv, NoKnownSurvivor
<1> QED BY <1>1, ReachableExecutor, PTL

\* The status of a finished execution is that of the strongest request acted on.
THEOREM StatusIsStrongestReason == Spec => []StatusNamesStrongestReason
<1>1. ExecutorInv => StatusNamesStrongestReason
  <2> SUFFICES ASSUME ExecutorInv, rpc = "done"
               PROVE  /\ status = "killed" <=> Manual \in accepted
                      /\ status = "timed_out" <=> Timeout \in accepted /\ Manual \notin accepted
                      /\ status = "succeeded" => exitZero /\ Leader \notin doomed
    BY DEF StatusNamesStrongestReason
  <2> USE DEF ExecutorInv, Manual, Timeout, Cleanup
  <2>1. initiated /\ reason = Manual <=> Manual \in accepted
    BY DEF ReasonInv, TypeOK
  <2>2. initiated /\ reason = Timeout <=> Timeout \in accepted /\ Manual \notin accepted
    BY DEF ReasonInv, TypeOK
  <2>3. exitZero => Leader \notin doomed
    BY DEF LeaderInv
  <2> QED BY <2>1, <2>2, <2>3 DEF ReasonInv
<1> QED BY <1>1, ReachableExecutor, PTL

\* The controller signals the group only while the leader has not been reaped.
THEOREM SignalsOnlyOwnGroup == Spec => SignalsWhileOwned
<1>1. ExecutorInv /\ [Next]_vars =>
        [(initiated' # initiated \/ killSent' # killSent) => ~reaped]_vars
  <2> SUFFICES ASSUME ExecutorInv, Next, reaped
               PROVE  UNCHANGED <<initiated, killSent>>
    OBVIOUS
  <2>1. cpc = "returned"
    BY DEF ExecutorInv, ReapInv
  <2>2. ~Control
    BY <2>1 DEF Control, OnObservationError, OnLeaderExit, ExitScanEmpty,
       ExitScanCleanup, OnStop, OnContext, OnTimeout, OnPoll, PollScan, OnGrace,
       GraceScanEmpty, GraceScanKill
  <2>3. Environment => UNCHANGED <<initiated, killSent>>
    BY DEF Environment, ClosePipe, Exit, Fork, Escape, CancelContext, CallStop,
       AbandonStop, notOS, notInput, stopState
  <2>4. ObserveLeader \/ Reap => UNCHANGED <<initiated, killSent>>
    BY DEF ObserveLeader, Reap, ReapBegin, ReapLeader, ReapDone, notInput, notReaper,
       stopState
  <2> QED BY <2>2, <2>3, <2>4 DEF Next
<1> QED BY <1>1, ReachableExecutor, PTL DEF Spec, SignalsWhileOwned
=============================================================================
