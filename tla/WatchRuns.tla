------------------------------ MODULE WatchRuns ------------------------------
(***************************************************************************)
(* WatchManager composed with the part of RunService (run_service.go) that *)
(* decides what becomes of a watch's request: the overlap policy of the    *)
(* job, its active and its pending run, promotion, and Stop of the pending *)
(* run.  RunService.tla is the full model of those.  Requests of other     *)
(* origins, some for a dry run, compete for the same two slots.            *)
(*                                                                         *)
(* A run is "current" if it has the job's present definition and is not    *)
(* dry, and "other" if not.                                                *)
(***************************************************************************)
EXTENDS WatchManager

CONSTANTS
  Policies,      \* the overlap policies that jobs may have
  Requests       \* the kinds of run that other origins ask for

ASSUME RunsAssumption ==
  /\ Policies \subseteq {"skip", "queue-latest"}
  /\ Requests \subseteq {"current", "other"}

VARIABLES
  overlap,       \* job |-> Execution.Overlap
  runs           \* job |-> what RunService has for it, and three history
                 \* variables (see RunView)

runVars == <<overlap, runs>>
allVars == <<vars, runVars>>

\* served: changes made before the latest launch of a current run; skipped: before
\* the latest request of the watch that was answered with ErrOverlap; withdrawn:
\* before the latest end of a pending current run that was never launched.
RunView == [active : BOOLEAN, pending : {"none", "current", "other"},
            served : 0..MaxChanges, skipped : 0..MaxChanges,
            withdrawn : 0..MaxChanges]

NoRuns == [active |-> FALSE, pending |-> "none", served |-> 0, skipped |-> 0,
           withdrawn |-> 0]

RunsInit ==
  /\ Init
  /\ overlap = [j \in Jobs |-> "skip"]
  /\ runs = [j \in Jobs |-> NoRuns]
-----------------------------------------------------------------------------
\* A run of kind k gets the active slot of job j and its goroutine: from here on it
\* sees the source, or ends on the record as failed or stopped.
Launched(j, k) ==
  [runs[j] EXCEPT !.active = TRUE, !.pending = "none",
                  !.served = IF k = "current" THEN content[j] ELSE @]

\* The pending run of job j, if there is one, makes room for k.
Pending(j, k) ==
  [runs[j] EXCEPT !.pending = k,
                  !.withdrawn = IF runs[j].pending = "current" /\ k # "current"
                                THEN content[j] ELSE @]

\* Start would only store a skipped run and return ErrOverlap.
Overlaps(j) == runs[j].active /\ overlap[j] = "skip"

\* Start accepts a request.
Accepted(j, k) == IF runs[j].active THEN Pending(j, k) ELSE Launched(j, k)

\* fire() reaches Start.
WatchStart(f) ==
  /\ FireStart(f)
  /\ LET j == hs[calls[f].h].job IN
     runs' = [runs EXCEPT ![j] = IF Overlaps(j) THEN [@ EXCEPT !.skipped = content[j]]
                                 ELSE Accepted(j, "current")]
  /\ UNCHANGED overlap

OtherStart(j, k) ==
  /\ ~Overlaps(j)
  /\ runs' = [runs EXCEPT ![j] = Accepted(j, k)]
  /\ UNCHANGED <<vars, overlap>>

\* Mutant: the pending run is not promoted.
RunEndsAlone(j) ==
  /\ runs[j].active
  /\ runs' = [runs EXCEPT ![j].active = FALSE]
  /\ UNCHANGED <<vars, overlap>>

\* finishLocked of the active run promotes the pending one.
RunEnds(j) ==
  /\ runs[j].active
  /\ runs' = [runs EXCEPT ![j] = IF @.pending = "none" THEN [@ EXCEPT !.active = FALSE]
                                 ELSE Launched(j, @.pending)]
  /\ UNCHANGED <<vars, overlap>>

\* Stop of the pending run
StopPending(j) ==
  /\ runs[j].pending # "none"
  /\ runs' = [runs EXCEPT ![j] = Pending(j, "none")]
  /\ UNCHANGED <<vars, overlap>>

\* A request changes the job.  The pending run keeps the definition it had.
MutateJob(j, on, policy) ==
  /\ Mutate(j, on)
  /\ overlap' = [overlap EXCEPT ![j] = policy]
  /\ runs' = [runs EXCEPT ![j].pending = IF @ = "none" THEN "none" ELSE "other"]
-----------------------------------------------------------------------------
RunsNext ==
  /\ ~crashed
  /\ \/ WatchStep /\ UNCHANGED runVars
     \/ \E f \in Callbacks : WatchStart(f)
     \/ \E j \in Jobs : \/ RunEnds(j) \/ StopPending(j)
                        \/ \E k \in Requests : OtherStart(j, k)
                        \/ \E on \in BOOLEAN, p \in Policies : MutateJob(j, on, p)

\* An active run ends, as RunService and HostExecutor see to.
RunsSpec ==
  /\ RunsInit /\ [][RunsNext]_allVars /\ Fairness
  /\ \A j \in Jobs : WF_allVars(RunEnds(j) /\ ~crashed)
-----------------------------------------------------------------------------
\* The poll goroutine of job j's healthy handle has last read the source before
\* the n-th change below it.
Watched(j, n) ==
  LET h == active[j] IN
  /\ h \in Handles /\ hs[h].st = "started" /\ repo[j].rev = hs[h].rev
  /\ j \in root /\ j \notin degraded
  /\ hs[h].last \in 0..n - 1

\* The watch of job j no longer stands: degraded, replaced, removed or closed; or
\* Start has failed, which is about to be published as an error.
Interrupted(j) ==
  \/ j \in degraded \/ j \notin root \/ crashed
  \/ active[j] \notin Handles \/ repo[j].rev # hs[active[j]].rev
  \/ \E f \in Callbacks : calls[f].pc = "failed" /\ hs[calls[f].h].job = j

\* A change below the root of a polled job with the policy queue-latest leads to the
\* launch of a current run after it, whatever runs hold the job's slots when the
\* debounce timer fires; unless a request stops the pending run or replaces it by a
\* dry one, or the watch is interrupted.  With the policy skip it leads to that or to
\* an ErrOverlap, after which no run is owed for it: fire() ignores that answer and
\* poll() has already remembered the signature.  (watch_manager.go: poll,
\* signalHandle, fire; run_service.go: Start, finishLocked)
ChangeIsServed ==
  \A j \in Jobs, n \in 1..MaxChanges :
    Watched(j, n) /\ content[j] >= n /\ runs[j].served < n ~>
      \/ runs[j].served >= n \/ runs[j].withdrawn >= n
      \/ overlap[j] = "skip" /\ runs[j].skipped >= n
      \/ Interrupted(j)
=============================================================================
