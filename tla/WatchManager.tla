---------------------------- MODULE WatchManager ----------------------------
(***************************************************************************)
(* WatchManager (cmd/syncbridge/watch_manager.go): the watch handle of     *)
(* every eligible job, its event and poll goroutines, the debounce timer,  *)
(* the callbacks that ask RunService for a run, Reconcile and Close.       *)
(*                                                                         *)
(* A section under WatchManager.mu or watchHandle.opMu is one step, and so *)
(* is every look at the filesystem: what a goroutine saw may be outdated   *)
(* when it takes the lock.  The watched tree of a job is a root that       *)
(* exists or not and a counter of changes, which stands for its signature. *)
(* Globs, sibling paths and permissions only select which changes count,   *)
(* so only those that do are represented.  Reconcile and Close are         *)
(* serialized by reconcileMu; several calls may have planned before they   *)
(* get it, and an older plan may be applied last.  A nil dereference ends  *)
(* the program.  What RunService makes of a callback's request is the      *)
(* subject of WatchRuns.                                                   *)
(***************************************************************************)
EXTENDS Integers, Sequences, FiniteSets

CONSTANTS
  Jobs,
  Handles,       \* bound: watch handles that exist at a time
  Callbacks,     \* bound: fired timers whose callback has not returned
  Planners,      \* bound: Reconcile calls that wait for reconcileMu
  Mode,          \* watch mode of the jobs: "event", "poll" or "hybrid"
  MaxRevision,   \* bound: revisions of one job
  MaxChanges,    \* bound: changes below the one root that changes
  MaxQueue,      \* bound: undelivered notifications of one watcher
  Faults,        \* "call": inotify, stat and walks may fail though the root
                 \* exists, and so may newRunID; "overflow": a watcher may
                 \* report an error
  None,          \* no handle: the map m.active has no such key
  Nil            \* a key of m.active with a nil handle

ASSUME WatchAssumption ==
  /\ Mode \in {"event", "poll", "hybrid"}
  /\ MaxRevision \in Nat /\ MaxChanges \in Nat /\ MaxQueue \in Nat
  /\ Faults \subseteq {"call", "overflow"}
  /\ None # Nil /\ {None, Nil} \cap Handles = {}

VARIABLES
  repo,        \* job |-> [rev, on]: revision, and eligible for watching
  root,        \* jobs whose source directory exists
  content,     \* job |-> changes below the root so far
  active,      \* m.active
  degraded,    \* m.degraded
  errs,        \* the jobs in m.errors
  closed,
  hs,          \* the watch handles
  calls,       \* callbacks of fired timers
  plans,       \* what the Reconcile calls before reconcileMu have planned
  rec,         \* the Reconcile that holds reconcileMu
  stopping,    \* handles that the holder of reconcileMu has still to stop
  closer,      \* Close: "open", "stopping", "done"
  crashed      \* a nil handle was dereferenced

vars == <<repo, root, content, active, degraded, errs, closed, hs, calls, plans, rec,
          stopping, closer, crashed>>

fsVars  == <<root, content>>
mgrVars == <<active, degraded, errs, closed>>

HasEvents == Mode \in {"event", "hybrid"}
HasPoll   == Mode \in {"poll", "hybrid"}

CallsCanFail == "call" \in Faults

\* st: "free", "prepared" (newHandle), "started", "stopped" (watcher closed and
\* context cancelled).  ew and pw: the event and the poll goroutine.
FreeHandle == [st |-> "free", job |-> None, rev |-> 0, ctx |-> FALSE,
               timer |-> FALSE, armed |-> FALSE, queue |-> << >>,
               ew |-> "none", pw |-> "none", last |-> -1]
IdleCall == [pc |-> "free", h |-> None]
NoPlan   == [made |-> FALSE, rev |-> [j \in Jobs |-> 0], desired |-> {},
             invalid |-> {}]
IdleRec  == [pc |-> "idle", rev |-> [j \in Jobs |-> 0], desired |-> {},
             invalid |-> {}, create |-> {}, prepared |-> [j \in Jobs |-> None],
             start |-> {}]

Notice == {"change", "removed", "created", "error"}

Handle == [st : {"free", "prepared", "started", "stopped"}, job : Jobs \cup {None},
           rev : 0..MaxRevision, ctx : BOOLEAN, timer : BOOLEAN, armed : BOOLEAN,
           queue : Seq(Notice),
           ew : {"none", "idle", "lost", "rearm", "signal", "gone"},
           pw : {"none", "first", "idle", "lost", "signal", "gone"},
           last : -1..MaxChanges]
Call   == [pc : {"free", "fired", "claimed", "lost", "start", "failed"},
           h : Handles \cup {None}]
Plan   == [made : BOOLEAN, rev : [Jobs -> 0..MaxRevision],
           desired : SUBSET Jobs, invalid : SUBSET Jobs]
Rec    == [pc : {"idle", "new", "swap"}, rev : [Jobs -> 0..MaxRevision],
           desired : SUBSET Jobs, invalid : SUBSET Jobs, create : SUBSET Jobs,
           prepared : [Jobs -> Handles \cup {None}], start : SUBSET Handles]

TypeOK ==
  /\ repo \in [Jobs -> [rev : 0..MaxRevision, on : BOOLEAN]]
  /\ root \subseteq Jobs /\ content \in [Jobs -> 0..MaxChanges]
  /\ active \in [Jobs -> Handles \cup {None, Nil}]
  /\ degraded \subseteq Jobs /\ errs \subseteq Jobs
  /\ closed \in BOOLEAN /\ crashed \in BOOLEAN
  /\ hs \in [Handles -> Handle]
  /\ calls \in [Callbacks -> Call]
  /\ plans \in [Planners -> Plan] /\ rec \in Rec
  /\ stopping \subseteq Handles \cup {Nil}
  /\ closer \in {"open", "stopping", "done"}

Init ==
  /\ repo = [j \in Jobs |-> [rev |-> 0, on |-> FALSE]]
  /\ root = Jobs /\ content = [j \in Jobs |-> 0]
  /\ active = [j \in Jobs |-> None]
  /\ degraded = {} /\ errs = {} /\ closed = FALSE
  /\ hs = [h \in Handles |-> FreeHandle]
  /\ calls = [f \in Callbacks |-> IdleCall]
  /\ plans = [p \in Planners |-> NoPlan]
  /\ rec = IdleRec /\ stopping = {} /\ closer = "open" /\ crashed = FALSE
-----------------------------------------------------------------------------
(***************************************************************************)
(* The environment: requests that change jobs, and the filesystem, whose   *)
(* notifications queue up in every open watcher.  The parent of the root   *)
(* is watched too, so the root's own removal and creation are seen.        *)
(***************************************************************************)
Mutate(j, on) ==
  /\ repo[j].rev < MaxRevision
  /\ repo' = [repo EXCEPT ![j] = [rev |-> @.rev + 1, on |-> on]]
  /\ UNCHANGED <<fsVars, mgrVars, hs, calls, plans, rec, stopping, closer, crashed>>

Open(h) == HasEvents /\ hs[h].st \in {"prepared", "started"}

\* The watchers of j in the set notified get notice n; stays says
\* whether the watch on the root survives.
Notify(j, n, notified, stays) ==
  /\ \A h \in Handles : hs[h].job = j => Len(hs[h].queue) < MaxQueue
  /\ hs' = [h \in Handles |->
              IF Open(h) /\ hs[h].job = j /\ h \in notified
              THEN [hs[h] EXCEPT !.queue = Append(@, n), !.armed = @ /\ stays]
              ELSE hs[h]]

Change(j) ==
  /\ j \in root /\ content[j] < MaxChanges
  /\ \A i \in Jobs \ {j} : content[i] = 0
  /\ content' = [content EXCEPT ![j] = @ + 1]
  /\ Notify(j, "change", {h \in Handles : hs[h].armed}, TRUE)
  /\ UNCHANGED <<repo, root, mgrVars, calls, plans, rec, stopping, closer, crashed>>

RemoveRoot(j) ==
  /\ j \in root
  /\ root' = root \ {j}
  /\ Notify(j, "removed", Handles, FALSE)
  /\ UNCHANGED <<repo, content, mgrVars, calls, plans, rec, stopping, closer, crashed>>

CreateRoot(j) ==
  /\ j \notin root
  /\ root' = root \cup {j}
  /\ Notify(j, "created", Handles, TRUE)
  /\ UNCHANGED <<repo, content, mgrVars, calls, plans, rec, stopping, closer, crashed>>

\* fsnotify reports an error, such as an overflow of its queue.
WatcherError(h) ==
  /\ "overflow" \in Faults /\ Open(h) /\ Len(hs[h].queue) < MaxQueue
  /\ hs' = [hs EXCEPT ![h].queue = Append(@, "error")]
  /\ UNCHANGED <<repo, fsVars, mgrVars, calls, plans, rec, stopping, closer, crashed>>
-----------------------------------------------------------------------------
(***************************************************************************)
(* The goroutines of a handle.                                             *)
(***************************************************************************)
workerFrame == <<repo, fsVars, active, closed, calls, plans, rec, stopping, closer,
                 crashed>>

\* degrade and publishError(job, h, err, TRUE)
Degrade(h) ==
  IF ~closed /\ active[hs[h].job] = h
  THEN degraded' = degraded \cup {hs[h].job} /\ errs' = errs \cup {hs[h].job}
  ELSE UNCHANGED <<degraded, errs>>

\* stop(): context cancelled, timer stopped and watcher closed
Stopped(h) == [hs[h] EXCEPT !.st = "stopped", !.ctx = TRUE, !.timer = FALSE,
                            !.queue = << >>]

\* The check of signalHandle and of fire
Serving(h) ==
  ~closed /\ active[hs[h].job] = h /\ hs[h].job \notin degraded

\* Looking at the source can fail.
SourceFails(h) == hs[h].job \notin root \/ CallsCanFail
SourceHolds(h) == hs[h].job \in root

Pop(h, ew) == [hs EXCEPT ![h].queue = Tail(@), ![h].ew = ew]

Received(h, n) == hs[h].ew = "idle" /\ hs[h].queue # << >> /\ Head(hs[h].queue) \in n

\* "watch root disappeared", or an error of the watcher
EventLost(h) ==
  /\ Received(h, {"removed", "error"})
  /\ hs' = Pop(h, "idle")
  /\ Degrade(h)
  /\ UNCHANGED workerFrame

\* rearmRoot: the tree is watched again ...
EventRearm(h) ==
  /\ Received(h, {"created"})
  /\ \/ /\ SourceHolds(h) /\ ~hs[h].ctx
        /\ hs' = [Pop(h, "rearm") EXCEPT ![h].armed = TRUE]
     \/ /\ SourceFails(h) \/ hs[h].ctx
        /\ hs' = Pop(h, "lost")
  /\ UNCHANGED <<degraded, errs, workerFrame>>

\* ... and the job is healthy again.
EventRearmed(h) ==
  /\ hs[h].ew = "rearm"
  /\ hs' = [hs EXCEPT ![h].ew = "idle"]
  /\ IF active[hs[h].job] = h /\ ~closed
     THEN degraded' = degraded \ {hs[h].job} /\ errs' = errs \ {hs[h].job}
     ELSE UNCHANGED <<degraded, errs>>
  /\ UNCHANGED workerFrame

\* A change below the root: signalHandle up to its first unlock, or a created
\* entry that cannot be inspected or watched.
EventChange(h) ==
  /\ Received(h, {"change"})
  /\ \/ hs' = Pop(h, IF Serving(h) THEN "signal" ELSE "idle")
     \/ SourceFails(h) /\ hs' = Pop(h, "lost")
  /\ UNCHANGED <<degraded, errs, workerFrame>>

\* The first signature; a failure leaves it empty.
PollFirst(h) ==
  /\ hs[h].pw = "first"
  /\ \/ /\ SourceHolds(h) /\ ~hs[h].ctx
        /\ hs' = [hs EXCEPT ![h].pw = "idle", ![h].last = content[hs[h].job]]
     \/ /\ SourceFails(h) \/ hs[h].ctx
        /\ hs' = [hs EXCEPT ![h].pw = "lost"]
  /\ UNCHANGED <<degraded, errs, workerFrame>>

\* A tick: the signature is compared, and remembered before the signal.
PollTick(h) ==
  /\ hs[h].pw = "idle"
  /\ LET now == content[hs[h].job] IN
     \/ /\ SourceHolds(h) /\ ~hs[h].ctx /\ now # hs[h].last
        /\ hs' = [hs EXCEPT ![h].last = now,
                            ![h].pw = IF Serving(h) THEN "signal" ELSE "idle"]
     \/ /\ SourceFails(h) \/ hs[h].ctx
        /\ hs' = [hs EXCEPT ![h].pw = "lost"]
  /\ UNCHANGED <<degraded, errs, workerFrame>>

\* The goroutine that failed to read the source publishes it.
WorkerDegrades(h) ==
  /\ \/ hs[h].ew = "lost" /\ hs' = [hs EXCEPT ![h].ew = "idle"]
     \/ hs[h].pw = "lost" /\ hs' = [hs EXCEPT ![h].pw = "idle"]
  /\ Degrade(h)
  /\ UNCHANGED workerFrame

\* Mutant: a stopped handle is not recognised.
RearmedAlways(h) == TRUE

\* The section of signalHandle under opMu restarts the debounce timer, unless
\* the handle was stopped in between.
Rearmed(h) == ~hs[h].ctx \/ hs[h].timer

SignalEvent(h) ==
  /\ hs[h].ew = "signal"
  /\ hs' = [hs EXCEPT ![h].ew = "idle", ![h].timer = Rearmed(h)]
  /\ UNCHANGED <<degraded, errs, workerFrame>>

SignalPoll(h) ==
  /\ hs[h].pw = "signal"
  /\ hs' = [hs EXCEPT ![h].pw = "idle", ![h].timer = Rearmed(h)]
  /\ UNCHANGED <<degraded, errs, workerFrame>>

\* Mutant: the poll loop does not look at the context.
WorkerExitEvents(h) ==
  /\ hs[h].ctx
  /\ hs[h].ew = "idle" /\ hs' = [hs EXCEPT ![h].ew = "gone"]
  /\ UNCHANGED <<degraded, errs, workerFrame>>

\* case <-handle.ctx.Done(), or a closed channel
WorkerExit(h) ==
  /\ hs[h].ctx
  /\ \/ hs[h].ew = "idle" /\ hs' = [hs EXCEPT ![h].ew = "gone"]
     \/ hs[h].pw = "idle" /\ hs' = [hs EXCEPT ![h].pw = "gone"]
  /\ UNCHANGED <<degraded, errs, workerFrame>>
-----------------------------------------------------------------------------
(***************************************************************************)
(* The debounce timer and fire().                                          *)
(***************************************************************************)
TimerFires(h, f) ==
  /\ hs[h].timer /\ calls[f].pc = "free"
  /\ hs' = [hs EXCEPT ![h].timer = FALSE]
  /\ calls' = [calls EXCEPT ![f] = [pc |-> "fired", h |-> h]]
  /\ UNCHANGED <<repo, fsVars, mgrVars, plans, rec, stopping, closer, crashed>>

callFrame == <<repo, fsVars, active, closed, hs, plans, rec, stopping, closer, crashed>>

FireClaim(f) ==
  /\ calls[f].pc = "fired"
  /\ calls' = [calls EXCEPT ![f] = IF Serving(@.h)
                                   THEN [@ EXCEPT !.pc = "claimed"] ELSE IdleCall]
  /\ UNCHANGED <<degraded, errs, callFrame>>

\* checkSource, once more
FireCheck(f) ==
  /\ calls[f].pc = "claimed"
  /\ \/ SourceHolds(calls[f].h) /\ calls' = [calls EXCEPT ![f].pc = "start"]
     \/ SourceFails(calls[f].h) /\ calls' = [calls EXCEPT ![f].pc = "lost"]
  /\ UNCHANGED <<degraded, errs, callFrame>>

FireDegrades(f) ==
  /\ calls[f].pc = "lost"
  /\ Degrade(calls[f].h)
  /\ calls' = [calls EXCEPT ![f] = IdleCall]
  /\ UNCHANGED callFrame

\* starter.Start returns a run, or ErrOverlap, which is not an error here: nobody
\* asks again.
FireStart(f) ==
  /\ calls[f].pc = "start"
  /\ repo[hs[calls[f].h].job].rev = hs[calls[f].h].rev
  /\ calls' = [calls EXCEPT ![f] = IdleCall]
  /\ UNCHANGED <<degraded, errs, callFrame>>

\* starter.Start fails: the job has another revision by now, or newRunID fails.
FireRefused(f) ==
  /\ calls[f].pc = "start"
  /\ repo[hs[calls[f].h].job].rev # hs[calls[f].h].rev \/ CallsCanFail
  /\ calls' = [calls EXCEPT ![f].pc = "failed"]
  /\ UNCHANGED <<degraded, errs, callFrame>>

\* publishError(job, h, err, FALSE), and callbacks.Done
FireFailed(f) ==
  /\ calls[f].pc = "failed"
  /\ LET h == calls[f].h IN
     errs' = IF ~closed /\ active[hs[h].job] = h THEN errs \cup {hs[h].job} ELSE errs
  /\ calls' = [calls EXCEPT ![f] = IdleCall]
  /\ UNCHANGED <<degraded, callFrame>>
-----------------------------------------------------------------------------
(***************************************************************************)
(* Reconcile.                                                              *)
(***************************************************************************)
recFrame == <<repo, fsVars, calls, plans>>

\* The list of jobs and the checks of their sources, before reconcileMu: a job
\* whose check fails is invalid.
ReconcilePlan(p) ==
  /\ ~plans[p].made
  /\ LET wanted == {j \in Jobs : repo[j].on} IN
     \E bad \in IF CallsCanFail THEN SUBSET wanted ELSE {{}} :
       plans' = [plans EXCEPT ![p] = [made |-> TRUE,
                                      rev |-> [j \in Jobs |-> repo[j].rev],
                                      desired |-> (wanted \cap root) \ bad,
                                      invalid |-> (wanted \ root) \cup bad]]
  /\ UNCHANGED <<repo, fsVars, calls, mgrVars, hs, rec, stopping, closer, crashed>>

\* sameWatchSpec, for a handle h and the revision r of its job: a revision has one
\* definition
Same(h, r) == h \in Handles /\ hs[h].rev = r

\* The first section under mu: which handles to create.
ReconcileBegin(p) ==
  /\ plans[p].made /\ rec.pc = "idle" /\ closer # "stopping"
  /\ LET q == plans[p] IN
     rec' = IF closed THEN IdleRec
            ELSE [IdleRec EXCEPT !.pc = "new", !.rev = q.rev, !.desired = q.desired,
                    !.invalid = q.invalid,
                    !.create = {j \in q.desired :
                                  ~Same(active[j], q.rev[j]) \/ j \in degraded}]
  /\ plans' = [plans EXCEPT ![p] = NoPlan]
  /\ UNCHANGED <<repo, fsVars, calls, mgrVars, hs, stopping, closer, crashed>>

Exited(h) == {hs[h].ew, hs[h].pw} \subseteq {"none", "gone"}

\* A handle nobody can reach any more may be used for a new one.
Available(h) ==
  \/ hs[h].st = "free"
  \/ /\ hs[h].st = "stopped" /\ Exited(h)
     /\ \A f \in Callbacks : calls[f].h # h
     /\ h \notin stopping

\* newHandle succeeds for j: source checked, parent and tree watched.
ReconcileNew(j, h) ==
  /\ rec.pc = "new" /\ j \in rec.create /\ rec.prepared[j] = None
  /\ j \in root /\ Available(h)
  /\ hs' = [hs EXCEPT ![h] = [FreeHandle EXCEPT !.st = "prepared", !.job = j,
                                !.rev = rec.rev[j], !.armed = HasEvents]]
  /\ rec' = [rec EXCEPT !.prepared[j] = h]
  /\ UNCHANGED <<recFrame, mgrVars, stopping, closer, crashed>>

Prepared == {rec.prepared[j] : j \in rec.create} \ {None}

\* Mutant: prepared handles are not rolled back.
ReconcileFailKeeping(j) ==
  /\ rec.pc = "new" /\ j \in rec.create /\ rec.prepared[j] = None
  /\ j \notin root \/ CallsCanFail
  /\ errs' = errs \cup {j}
  /\ rec' = IdleRec
  /\ UNCHANGED <<recFrame, active, degraded, closed, hs, stopping, closer, crashed>>

\* newHandle fails for j: the handles prepared so far are stopped, no goroutine
\* of theirs having been started, and the error is published for j.
ReconcileFail(j) ==
  /\ rec.pc = "new" /\ j \in rec.create /\ rec.prepared[j] = None
  /\ j \notin root \/ CallsCanFail
  /\ hs' = [h \in Handles |-> IF h \in Prepared THEN Stopped(h) ELSE hs[h]]
  /\ errs' = errs \cup {j}
  /\ rec' = IdleRec
  /\ UNCHANGED <<recFrame, active, degraded, closed, stopping, closer, crashed>>

\* The second section under mu.  m.degraded is read again: a job that became
\* degraded since the first section keeps no handle and has none prepared.
\* (m.closed is read again too, but Close would have to hold reconcileMu.)
NextActive(j) ==
  CASE j \in rec.invalid                               -> active[j]
    [] j \in rec.desired /\ rec.prepared[j] # None     -> rec.prepared[j]
    [] j \in rec.desired /\ rec.prepared[j] = None     ->
         IF Same(active[j], rec.rev[j]) /\ j \notin degraded THEN active[j] ELSE Nil
    [] OTHER                                           -> None

\* The current handle of j is one to stop.
ToStop(j) ==
  /\ active[j] # None /\ j \notin rec.invalid
  /\ j \notin rec.desired \/ rec.prepared[j] # None

ReconcilePublish ==
  /\ rec.pc = "new" /\ \A j \in rec.create : rec.prepared[j] # None
  /\ active' = [j \in Jobs |-> NextActive(j)]
  /\ errs' = (errs \cup rec.invalid) \ rec.desired
  /\ degraded' = degraded \ rec.desired
  /\ rec' = [rec EXCEPT !.pc = "swap", !.start = Prepared]
  /\ stopping' = {active[j] : j \in {i \in Jobs : ToStop(i)}}
  /\ UNCHANGED <<recFrame, closed, hs, closer, crashed>>

\* handle.stop() of one handle after the other, by Reconcile or by Close: the
\* section under opMu, then the wait for the goroutines.  A nil handle panics.
Waiting == \E h \in stopping \ {Nil} : hs[h].st = "stopped"

StopHandle(h) ==
  /\ h \in stopping \ {Nil} /\ ~Waiting
  /\ hs' = [hs EXCEPT ![h] = Stopped(h)]
  /\ UNCHANGED <<recFrame, mgrVars, rec, stopping, closer, crashed>>

StopWaited(h) ==
  /\ h \in stopping \ {Nil} /\ hs[h].st = "stopped" /\ Exited(h)
  /\ stopping' = stopping \ {h}
  /\ UNCHANGED <<recFrame, mgrVars, hs, rec, closer, crashed>>

StopNil ==
  /\ Nil \in stopping /\ ~Waiting
  /\ crashed' = TRUE
  /\ UNCHANGED <<recFrame, mgrVars, hs, rec, stopping, closer>>

\* m.start(id, handle), and the return when all are started
ReconcileStart(h) ==
  /\ rec.pc = "swap" /\ stopping = {} /\ h \in rec.start
  /\ hs' = [hs EXCEPT ![h].st = "started",
                      ![h].ew = IF HasEvents THEN "idle" ELSE "none",
                      ![h].pw = IF HasPoll THEN "first" ELSE "none"]
  /\ rec' = [rec EXCEPT !.start = @ \ {h}]
  /\ UNCHANGED <<recFrame, mgrVars, stopping, closer, crashed>>

ReconcileEnd ==
  /\ rec.pc = "swap" /\ stopping = {} /\ rec.start = {}
  /\ rec' = IdleRec
  /\ UNCHANGED <<recFrame, mgrVars, hs, stopping, closer, crashed>>
-----------------------------------------------------------------------------
(***************************************************************************)
(* Close.  Cancelling m.ctx cancels every handle's context.                *)
(***************************************************************************)
CloseBegin ==
  /\ closer = "open" /\ rec.pc = "idle"
  /\ closed' = TRUE
  /\ closer' = "stopping"
  /\ active' = [j \in Jobs |-> None]
  /\ stopping' = {active[j] : j \in Jobs} \ {None}
  /\ hs' = [h \in Handles |-> [hs[h] EXCEPT !.ctx = hs[h].st # "free"]]
  /\ UNCHANGED <<recFrame, degraded, errs, rec, crashed>>

\* callbacks.Wait()
CloseDone ==
  /\ closer = "stopping" /\ stopping = {}
  /\ \A f \in Callbacks : calls[f].pc \in {"free", "fired"}
  /\ closer' = "done"
  /\ UNCHANGED <<recFrame, mgrVars, hs, rec, stopping, crashed>>
-----------------------------------------------------------------------------
Filesystem(j) == Change(j) \/ RemoveRoot(j) \/ CreateRoot(j)

Event(h) == EventLost(h) \/ EventRearm(h) \/ EventRearmed(h) \/ EventChange(h)
            \/ SignalEvent(h)
Poll(h)  == PollFirst(h) \/ PollTick(h) \/ SignalPoll(h)
Serve(f) == FireClaim(f) \/ FireCheck(f) \/ FireDegrades(f) \/ FireRefused(f)
            \/ FireFailed(f)
Fire(f)  == Serve(f) \/ FireStart(f)

ReconcileStep ==
  \/ \E p \in Planners : ReconcileBegin(p)
  \/ ReconcilePublish \/ StopNil \/ ReconcileEnd
  \/ \E j \in Jobs : ReconcileFail(j) \/ \E h \in Handles : ReconcileNew(j, h)
  \/ \E h \in Handles : StopHandle(h) \/ StopWaited(h) \/ ReconcileStart(h)

\* The steps that neither change a job nor reach RunService
WatchStep ==
  \/ \E j \in Jobs : Filesystem(j)
  \/ \E h \in Handles : \/ WatcherError(h) \/ Event(h) \/ Poll(h)
                        \/ WorkerDegrades(h) \/ WorkerExit(h)
                        \/ \E f \in Callbacks : TimerFires(h, f)
  \/ \E f \in Callbacks : Serve(f)
  \/ \E p \in Planners : ReconcilePlan(p)
  \/ ReconcileStep \/ CloseBegin \/ CloseDone

Next ==
  /\ ~crashed
  /\ \/ WatchStep
     \/ \E j \in Jobs, on \in BOOLEAN : Mutate(j, on)
     \/ \E f \in Callbacks : FireStart(f)

Spec == Init /\ [][Next]_vars
-----------------------------------------------------------------------------
(***************************************************************************)
(* Safety                                                                  *)
(***************************************************************************)
\* A handle whose stop() has closed its watcher never has a debounce timer
\* again, although its goroutines may be on their way to start one: nothing
\* fires for a job after its watch was replaced, removed or closed, except a
\* callback that had fired before.  (ctx.Done() looked at under opMu)
StoppedHandleIsSilent ==
  \A h \in Handles : hs[h].st = "stopped" => ~hs[h].timer

\* What the manager publishes is consistent.  A degraded job shows an error, in
\* whatever order failures, recovery of the root and reconciliations arrive; and
\* between reconciliations every handle that was not stopped belongs to its job,
\* so that replaced and rolled back handles are never left running.  The
\* exception is a job that was published without a handle.
WatchSetConsistent ==
  /\ degraded \subseteq errs
  /\ rec.pc = "idle" /\ ~closed =>
       \A h \in Handles : hs[h].st \in {"prepared", "started"} =>
         hs[h].st = "started" /\ active[hs[h].job] \in {h, Nil}

\* "Reconcile atomically publishes complete watcher sets" (watch_manager.go:126):
\* a job in the published set has a handle.
CompleteWatcherSets == \A j \in Jobs : active[j] # Nil
-----------------------------------------------------------------------------
(***************************************************************************)
(* Liveness.  Goroutines are scheduled, tickers tick, timers fire and Go   *)
(* mutexes do not starve; requests and the filesystem owe nothing, and no  *)
(* look at a source that is there has to fail.                             *)
(***************************************************************************)
FairPoll(h) ==
  Poll(h) /\ (hs'[h].pw = "lost" => ~SourceHolds(h) \/ hs[h].ctx)

Fairness ==
  /\ \A h \in Handles :
       /\ WF_vars(Event(h) /\ ~crashed) /\ WF_vars(FairPoll(h) /\ ~crashed)
       /\ WF_vars(WorkerDegrades(h) /\ ~crashed) /\ SF_vars(WorkerExit(h) /\ ~crashed)
       /\ SF_vars((\E f \in Callbacks : TimerFires(h, f)) /\ ~crashed)
  /\ \A f \in Callbacks : WF_vars(Fire(f) /\ ~crashed)
  /\ WF_vars(ReconcileStep /\ ~crashed) /\ WF_vars(CloseDone /\ ~crashed)

\* Close comes back: handles stop although their goroutines use mu and opMu.
CloseReturns == closer = "stopping" ~> closer = "done" \/ crashed
=============================================================================
