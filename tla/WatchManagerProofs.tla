------------------------- MODULE WatchManagerProofs -------------------------
(***************************************************************************)
(* Proofs about WatchManager for any jobs, handles, callbacks, watch mode, *)
(* faults and bounds.                                                      *)
(***************************************************************************)
EXTENDS WatchManager, TLAPS

\* A handle in use has its job, and only a handle in use has goroutines, a timer
\* or callbacks, or is to be stopped.
HandleInv ==
  /\ \A h \in Handles :
       /\ hs[h].st # "free" => hs[h].job \in Jobs
       /\ hs[h].ew # "none" \/ hs[h].pw # "none" \/ hs[h].timer => hs[h].st # "free"
  /\ \A f \in Callbacks : calls[f].pc # "free" =>
       calls[f].h \in Handles /\ hs[calls[f].h].st # "free"
  /\ \A h \in stopping \ {Nil} : hs[h].st # "free"

\* stop() has cancelled the context of a handle before its timer can be started
\* again.
SilentInv ==
  \A h \in Handles : hs[h].st = "stopped" => hs[h].ctx /\ ~hs[h].timer

\* The plans of the calls before reconcileMu, and of the one that holds it.
PlanInv ==
  /\ \A p \in Planners : plans[p].desired \cap plans[p].invalid = {}
  /\ rec.desired \cap rec.invalid = {} /\ rec.create \subseteq rec.desired
  /\ rec.pc = "idle" => \A j \in Jobs : rec.prepared[j] = None
  /\ closed => rec.pc = "idle" /\ closer # "open"

\* Who is responsible for a handle: the published set, the reconciliation that
\* has prepared it and will start or stop it, or the one that is stopping it.
OwnerInv ==
  /\ rec.pc # "swap" => stopping = {}
  /\ \A j \in Jobs : active[j] \in Handles =>
       /\ hs[active[j]].job = j
       /\ \/ hs[active[j]].st = "started"
          \/ hs[active[j]].st = "prepared" /\ rec.pc = "swap" /\ active[j] \in rec.start
  /\ \A h \in Handles : hs[h].st = "started" =>
       \/ active[hs[h].job] \in {h, Nil}
       \/ rec.pc = "swap" /\ (h \in stopping \/ Nil \in stopping)
  /\ \A h \in Handles : hs[h].st = "prepared" =>
       \/ rec.pc = "new" /\ hs[h].job \in rec.create /\ rec.prepared[hs[h].job] = h
       \/ rec.pc = "swap" /\ h \in rec.start
  /\ rec.pc = "new" => \A j \in Jobs : rec.prepared[j] # None =>
       /\ j \in rec.create /\ hs[rec.prepared[j]].st = "prepared"
       /\ hs[rec.prepared[j]].job = j
  /\ rec.pc = "swap" =>
       /\ \A h \in rec.start : hs[h].st = "prepared" /\ active[hs[h].job] = h
       /\ \A h \in stopping \ {Nil} : active[hs[h].job] # h

WatchInv ==
  /\ TypeOK /\ HandleInv /\ SilentInv /\ PlanInv /\ degraded \subseteq errs
  /\ ~closed => OwnerInv
-----------------------------------------------------------------------------
LEMMA InitWatch == Init => WatchInv
<1> SUFFICES ASSUME Init
             PROVE  WatchInv
  OBVIOUS
<1>1. FreeHandle \in Handle /\ IdleCall \in Call /\ IdleRec \in Rec /\ NoPlan \in Plan
  BY WatchAssumption DEF FreeHandle, Handle, IdleCall, Call, IdleRec, Rec, NoPlan, Plan
<1>2. TypeOK
  <2>1. closed \in BOOLEAN /\ crashed \in BOOLEAN
    BY DEF Init
  <2>2. repo \in [Jobs -> [rev : 0..MaxRevision, on : BOOLEAN]]
    BY WatchAssumption DEF Init
  <2> QED BY <1>1, <2>1, <2>2, WatchAssumption DEF Init, TypeOK
<1>3. /\ \A h \in Handles : /\ hs[h].st = "free" /\ hs[h].ew = "none"
                            /\ hs[h].pw = "none" /\ ~hs[h].timer
      /\ \A f \in Callbacks : calls[f].pc = "free"
  BY DEF Init, FreeHandle, IdleCall
<1>4. HandleInv /\ SilentInv
  BY <1>3 DEF Init, HandleInv, SilentInv
<1>5. PlanInv /\ degraded \subseteq errs
  BY DEF Init, PlanInv, IdleRec, NoPlan
<1>6. OwnerInv
  BY <1>3, WatchAssumption DEF Init, OwnerInv, IdleRec
<1> QED BY <1>2, <1>4, <1>5, <1>6 DEF WatchInv
-----------------------------------------------------------------------------
(***************************************************************************)
(* Steps that leave the set of watches alone: the environment, goroutines, *)
(* timers and callbacks.                                                   *)
(***************************************************************************)
\* No handle comes, goes or belongs to another job, and no timer is started on
\* one whose context is cancelled.
QuietHandles ==
  /\ hs' \in [Handles -> Handle]
  /\ \A h \in Handles :
       /\ hs'[h].st = hs[h].st /\ hs'[h].job = hs[h].job
       /\ hs[h].ctx => hs'[h].ctx
       /\ hs'[h].timer => hs[h].timer \/ ~hs[h].ctx
       /\ hs'[h].ew # "none" \/ hs'[h].pw # "none" \/ hs'[h].timer => hs[h].st # "free"

QuietCalls ==
  /\ calls' \in [Callbacks -> Call]
  /\ \A f \in Callbacks : calls'[f].pc # "free" =>
       calls'[f].h \in Handles /\ hs[calls'[f].h].st # "free"

QuietRest ==
  /\ repo' \in [Jobs -> [rev : 0..MaxRevision, on : BOOLEAN]]
  /\ root' \subseteq Jobs /\ content' \in [Jobs -> 0..MaxChanges]
  /\ plans' \in [Planners -> Plan]
  /\ \A p \in Planners : plans'[p].desired \cap plans'[p].invalid = {}
  /\ errs' \subseteq Jobs /\ degraded' \subseteq errs'

LEMMA QuietStep ==
  ASSUME WatchInv, QuietHandles, QuietCalls, QuietRest,
         UNCHANGED <<active, closed, rec, stopping, closer, crashed>>
  PROVE  WatchInv'
<1>1. TypeOK'
  BY DEF WatchInv, TypeOK, QuietHandles, QuietCalls, QuietRest
<1>2. HandleInv' /\ SilentInv'
  BY DEF WatchInv, TypeOK, HandleInv, SilentInv, QuietHandles, QuietCalls
<1>3. PlanInv'
  BY DEF WatchInv, PlanInv, QuietRest
<1>4. ASSUME ~closed
      PROVE  OwnerInv'
  <2>1. OwnerInv /\ rec \in Rec /\ stopping \subseteq Handles \cup {Nil}
    BY <1>4 DEF WatchInv, TypeOK
  <2> QED BY <2>1 DEF OwnerInv, QuietHandles, Rec
<1>5. (degraded \subseteq errs)'
  BY DEF QuietRest
<1> QED BY <1>1, <1>2, <1>3, <1>4, <1>5 DEF WatchInv

LEMMA SameHandles == ASSUME WatchInv, hs' = hs PROVE QuietHandles
  BY DEF WatchInv, TypeOK, HandleInv, QuietHandles

LEMMA SameCalls == ASSUME WatchInv, calls' = calls PROVE QuietCalls
  BY DEF WatchInv, TypeOK, HandleInv, QuietCalls

LEMMA SameRest ==
  ASSUME WatchInv, UNCHANGED <<repo, root, content, plans, errs, degraded>>
  PROVE  QuietRest
  BY DEF WatchInv, TypeOK, PlanInv, QuietRest

\* One handle changes.
LEMMA OneHandle ==
  ASSUME WatchInv, NEW h \in Handles, NEW x \in Handle, hs' = [hs EXCEPT ![h] = x],
         x.st = hs[h].st, x.job = hs[h].job, x.ctx = hs[h].ctx,
         x.timer => hs[h].timer \/ ~hs[h].ctx,
         x.ew # "none" \/ x.pw # "none" \/ x.timer => hs[h].st # "free"
  PROVE  QuietHandles
  BY DEF WatchInv, TypeOK, HandleInv, QuietHandles

LEMMA DegradeRest ==
  ASSUME WatchInv, NEW h \in Handles, hs[h].st # "free", Degrade(h),
         UNCHANGED <<repo, root, content, plans>>
  PROVE  QuietRest
<1>1. hs[h].job \in Jobs /\ errs \subseteq Jobs /\ degraded \subseteq errs
  BY DEF WatchInv, TypeOK, HandleInv
<1>2. errs' \subseteq Jobs /\ degraded' \subseteq errs'
  BY <1>1 DEF Degrade
<1> QED BY <1>2 DEF WatchInv, TypeOK, PlanInv, QuietRest

LEMMA NotifyQuiet ==
  ASSUME WatchInv, NEW j \in Jobs, NEW n \in Notice, NEW notified, NEW stays \in BOOLEAN,
         Notify(j, n, notified, stays)
  PROVE  QuietHandles
<1> DEFINE y(h) == [hs[h] EXCEPT !.queue = Append(@, n), !.armed = @ /\ stays]
<1>1. ASSUME NEW h \in Handles
      PROVE  /\ hs[h] \in Handle /\ y(h) \in Handle
             /\ y(h).st = hs[h].st /\ y(h).job = hs[h].job /\ y(h).ctx = hs[h].ctx
             /\ y(h).timer = hs[h].timer /\ y(h).ew = hs[h].ew /\ y(h).pw = hs[h].pw
  <2>1. hs[h] \in Handle
    BY DEF WatchInv, TypeOK
  <2>2. Append(hs[h].queue, n) \in Seq(Notice)
    BY <2>1 DEF Handle
  <2>3. (hs[h].armed /\ stays) \in BOOLEAN
    OBVIOUS
  <2>4. PICK q, b : q = Append(hs[h].queue, n) /\ b = (hs[h].armed /\ stays)
    OBVIOUS
  <2>5. y(h) = [hs[h] EXCEPT !.queue = q, !.armed = b]
    BY <2>1, <2>4 DEF Handle
  <2> QED BY <2>1, <2>2, <2>3, <2>4, <2>5 DEF Handle
<1>2. hs' = [h \in Handles |-> IF Open(h) /\ hs[h].job = j /\ h \in notified
                               THEN y(h) ELSE hs[h]]
  BY DEF Notify
<1> HIDE DEF y
<1> QED BY <1>1, <1>2 DEF QuietHandles, WatchInv, HandleInv

LEMMA EnvironmentStep ==
  ASSUME WatchInv, NEW j \in Jobs, Filesystem(j) \/ \E on \in BOOLEAN : Mutate(j, on)
  PROVE  WatchInv'
<1>1. ASSUME NEW on \in BOOLEAN, Mutate(j, on)
      PROVE  WatchInv'
  <2>1. /\ repo[j].rev < MaxRevision
        /\ repo' = [repo EXCEPT ![j] = [rev |-> repo[j].rev + 1, on |-> on]]
        /\ UNCHANGED <<fsVars, mgrVars, hs, calls, plans, rec, stopping, closer, crashed>>
    BY <1>1 DEF Mutate, WatchInv, TypeOK
  <2>2. repo' \in [Jobs -> [rev : 0..MaxRevision, on : BOOLEAN]]
    <3>1. [rev |-> repo[j].rev + 1, on |-> on] \in [rev : 0..MaxRevision, on : BOOLEAN]
      BY <2>1, WatchAssumption DEF WatchInv, TypeOK
    <3> QED BY <2>1, <3>1 DEF WatchInv, TypeOK
  <2>3. QuietRest
    BY <2>1, <2>2 DEF QuietRest, WatchInv, TypeOK, PlanInv, fsVars, mgrVars
  <2> QED BY <2>1, <2>3, SameHandles, SameCalls, QuietStep DEF mgrVars
<1>2. CASE Change(j)
  <2>1. /\ content[j] < MaxChanges /\ content' = [content EXCEPT ![j] = @ + 1]
        /\ QuietHandles
        /\ UNCHANGED <<repo, root, mgrVars, calls, plans, rec, stopping, closer, crashed>>
    BY <1>2, NotifyQuiet DEF Change, Notice
  <2>2. content' \in [Jobs -> 0..MaxChanges]
    BY <2>1, WatchAssumption DEF WatchInv, TypeOK
  <2>3. QuietRest
    BY <2>1, <2>2 DEF QuietRest, WatchInv, TypeOK, PlanInv, mgrVars
  <2> QED BY <2>1, <2>3, SameCalls, QuietStep DEF mgrVars
<1>3. CASE RemoveRoot(j) \/ CreateRoot(j)
  <2>1. /\ root' \subseteq Jobs /\ QuietHandles
        /\ UNCHANGED <<repo, content, mgrVars, calls, plans, rec, stopping, closer, crashed>>
    BY <1>3, NotifyQuiet DEF RemoveRoot, CreateRoot, Notice, WatchInv, TypeOK
  <2>2. QuietRest
    BY <2>1 DEF QuietRest, WatchInv, TypeOK, PlanInv, mgrVars
  <2> QED BY <2>1, <2>2, SameCalls, QuietStep DEF mgrVars
<1> QED BY <1>1, <1>2, <1>3 DEF Filesystem

\* What the goroutines and the watcher of handle h do to it.
LEMMA WorkerHandles ==
  ASSUME WatchInv, NEW h \in Handles,
         \/ WatcherError(h) \/ Event(h) \/ Poll(h) \/ WorkerDegrades(h) \/ WorkerExit(h)
  PROVE  QuietHandles
<1>1. /\ hs \in [Handles -> Handle] /\ hs[h] \in Handle
      /\ content \in [Jobs -> 0..MaxChanges] /\ root \subseteq Jobs
      /\ hs[h].ew # "none" \/ hs[h].pw # "none" \/ hs[h].timer => hs[h].st # "free"
  BY DEF WatchInv, TypeOK, HandleInv
<1>2. CASE WatcherError(h)
  <2>1. PICK q : q = Append(hs[h].queue, "error")
    OBVIOUS
  <2>2. q \in Seq(Notice) /\ hs' = [hs EXCEPT ![h].queue = q]
    BY <1>1, <1>2, <2>1 DEF Handle, Notice, WatcherError
  <2> QED BY <1>1, <2>2 DEF Handle, QuietHandles, WatchInv, HandleInv
\* The event goroutine takes a notification and goes to e.
<1>3. ASSUME NEW e \in {"idle", "lost", "rearm", "signal"}, NEW a \in BOOLEAN,
             hs[h].ew = "idle", hs[h].queue # << >>,
             \/ hs' = Pop(h, e) \/ hs' = [Pop(h, e) EXCEPT ![h].armed = a]
      PROVE  QuietHandles
  <2>1. PICK q : q = Tail(hs[h].queue)
    OBVIOUS
  <2>2. q \in Seq(Notice)
    BY <1>1, <1>3, <2>1 DEF Handle
  <2>3. CASE hs' = Pop(h, e)
    <3>1. hs' = [hs EXCEPT ![h].queue = q, ![h].ew = e]
      BY <2>1, <2>3 DEF Pop
    <3> QED BY <1>1, <1>3, <2>2, <3>1 DEF Handle, QuietHandles, WatchInv, HandleInv
  <2>4. CASE hs' = [Pop(h, e) EXCEPT ![h].armed = a]
    <3>1. hs' = [hs EXCEPT ![h].queue = q, ![h].ew = e, ![h].armed = a]
      BY <2>1, <2>4 DEF Pop
    <3> QED BY <1>1, <1>3, <2>2, <3>1 DEF Handle, QuietHandles, WatchInv, HandleInv
  <2> QED BY <1>3, <2>3, <2>4
<1>4. CASE EventLost(h) \/ EventRearm(h) \/ EventChange(h)
  <2>1. hs[h].ew = "idle" /\ hs[h].queue # << >>
    BY <1>4 DEF EventLost, EventRearm, EventChange, Received
  <2>2. \E e \in {"idle", "lost", "rearm", "signal"}, a \in BOOLEAN :
          hs' = Pop(h, e) \/ hs' = [Pop(h, e) EXCEPT ![h].armed = a]
    BY <1>4 DEF EventLost, EventRearm, EventChange
  <2> QED BY <1>3, <2>1, <2>2
\* A goroutine goes to another place.
<1>5. ASSUME NEW e \in {"idle", "lost", "gone"},
             \/ hs[h].ew # "none" /\ hs' = [hs EXCEPT ![h].ew = e]
             \/ hs[h].pw # "none" /\ hs' = [hs EXCEPT ![h].pw = e]
      PROVE  QuietHandles
  <2>1. CASE hs[h].ew # "none" /\ hs' = [hs EXCEPT ![h].ew = e]
    BY <1>1, <1>5, <2>1 DEF Handle, QuietHandles, WatchInv, HandleInv
  <2>2. CASE hs[h].pw # "none" /\ hs' = [hs EXCEPT ![h].pw = e]
    BY <1>1, <1>5, <2>2 DEF Handle, QuietHandles, WatchInv, HandleInv
  <2> QED BY <1>5, <2>1, <2>2
<1>6. CASE EventRearmed(h) \/ WorkerDegrades(h) \/ WorkerExit(h)
  BY <1>5, <1>6 DEF EventRearmed, WorkerDegrades, WorkerExit
<1>7. CASE SignalEvent(h)
  <2>1. PICK b \in BOOLEAN : b = Rearmed(h)
    BY DEF Rearmed
  <2>2. hs[h].ew = "signal" /\ hs' = [hs EXCEPT ![h].ew = "idle", ![h].timer = b]
    BY <1>7, <2>1 DEF SignalEvent
  <2>3. b => ~hs[h].ctx \/ hs[h].timer
    BY <2>1 DEF Rearmed
  <2> QED BY <1>1, <2>2, <2>3 DEF Handle, QuietHandles, WatchInv, HandleInv
<1>8. CASE SignalPoll(h)
  <2>1. PICK b \in BOOLEAN : b = Rearmed(h)
    BY DEF Rearmed
  <2>2. hs[h].pw = "signal" /\ hs' = [hs EXCEPT ![h].pw = "idle", ![h].timer = b]
    BY <1>8, <2>1 DEF SignalPoll
  <2>3. b => ~hs[h].ctx \/ hs[h].timer
    BY <2>1 DEF Rearmed
  <2> QED BY <1>1, <2>2, <2>3 DEF Handle, QuietHandles, WatchInv, HandleInv
<1>9. CASE PollFirst(h) \/ PollTick(h)
  <2>1. hs[h].pw # "none"
    BY <1>9 DEF PollFirst, PollTick
  <2>2. ASSUME hs' # [hs EXCEPT ![h].pw = "lost"]
        PROVE  /\ hs[h].job \in root
               /\ \E e \in {"idle", "signal"} :
                    \/ hs' = [hs EXCEPT ![h].pw = e, ![h].last = content[hs[h].job]]
                    \/ hs' = [hs EXCEPT ![h].last = content[hs[h].job], ![h].pw = e]
    BY <1>9, <2>2 DEF PollFirst, PollTick, SourceHolds
  <2>3. CASE hs' = [hs EXCEPT ![h].pw = "lost"]
    BY <1>5, <2>1, <2>3
  <2>4. ASSUME NEW e \in {"idle", "signal"}, NEW l \in -1..MaxChanges,
               \/ hs' = [hs EXCEPT ![h].pw = e, ![h].last = l]
               \/ hs' = [hs EXCEPT ![h].last = l, ![h].pw = e]
        PROVE  QuietHandles
    <3>1. CASE hs' = [hs EXCEPT ![h].pw = e, ![h].last = l]
      BY <1>1, <2>1, <2>4, <3>1 DEF Handle, QuietHandles, WatchInv, HandleInv
    <3>2. CASE hs' = [hs EXCEPT ![h].last = l, ![h].pw = e]
      BY <1>1, <2>1, <2>4, <3>2 DEF Handle, QuietHandles, WatchInv, HandleInv
    <3> QED BY <2>4, <3>1, <3>2
  <2>5. hs[h].job \in root => content[hs[h].job] \in -1..MaxChanges
    BY <1>1, WatchAssumption
  <2> QED BY <2>2, <2>3, <2>4, <2>5
<1> QED BY <1>2, <1>4, <1>6, <1>7, <1>8, <1>9 DEF Event, Poll

LEMMA WorkerStep ==
  ASSUME WatchInv, NEW h \in Handles,
         \/ WatcherError(h) \/ Event(h) \/ Poll(h) \/ WorkerDegrades(h) \/ WorkerExit(h)
  PROVE  WatchInv'
<1>1. UNCHANGED <<active, closed, rec, stopping, closer, crashed, calls, plans, repo,
                  root, content>>
  BY DEF WatcherError, Event, Poll, WorkerDegrades, WorkerExit, EventLost, EventRearm,
     EventRearmed, EventChange, SignalEvent, PollFirst, PollTick, SignalPoll,
     workerFrame, fsVars, mgrVars
<1>2. QuietRest
  <2>1. CASE UNCHANGED <<degraded, errs>>
    BY <1>1, <2>1, SameRest
  <2>2. CASE EventLost(h) \/ WorkerDegrades(h)
    <3>1. Degrade(h) /\ hs[h].st # "free"
      BY <2>2 DEF EventLost, WorkerDegrades, Received, WatchInv, HandleInv
    <3> QED BY <1>1, <3>1, DegradeRest
  <2>3. CASE EventRearmed(h)
    <3>1. errs' \subseteq errs /\ degraded' \subseteq errs'
      BY <2>3 DEF EventRearmed, WatchInv
    <3> QED BY <1>1, <3>1 DEF QuietRest, WatchInv, TypeOK, PlanInv
  <2> QED BY <2>1, <2>2, <2>3 DEF WatcherError, Event, Poll, WorkerExit, EventRearm,
             EventChange, SignalEvent, PollFirst, PollTick, SignalPoll, mgrVars
<1> QED BY <1>1, <1>2, WorkerHandles, SameCalls, QuietStep

LEMMA TimerStep ==
  ASSUME WatchInv, NEW h \in Handles, NEW f \in Callbacks, TimerFires(h, f)
  PROVE  WatchInv'
<1>1. /\ hs[h].timer /\ hs' = [hs EXCEPT ![h].timer = FALSE]
      /\ calls' = [calls EXCEPT ![f] = [pc |-> "fired", h |-> h]]
      /\ UNCHANGED <<repo, fsVars, mgrVars, plans, rec, stopping, closer, crashed>>
  BY DEF TimerFires
<1>2. /\ hs \in [Handles -> Handle] /\ hs[h] \in Handle /\ hs[h].st # "free"
      /\ calls \in [Callbacks -> Call]
  BY <1>1 DEF WatchInv, TypeOK, HandleInv
<1>3. QuietHandles
  <2>1. PICK b \in BOOLEAN : b = FALSE
    OBVIOUS
  <2>2. hs' = [hs EXCEPT ![h].timer = b]
    BY <1>1, <2>1
  <2>3. ~b
    BY <2>1
  <2>4. PICK x : x = [hs[h] EXCEPT !.timer = b]
    OBVIOUS
  <2>5. /\ x \in Handle /\ x.st = hs[h].st /\ x.job = hs[h].job /\ x.ctx = hs[h].ctx
        /\ x.timer = b
    BY <1>2, <2>4 DEF Handle
  <2>6. hs' = [hs EXCEPT ![h] = x]
    BY <1>2, <2>2, <2>4
  <2> QED BY <1>2, <2>3, <2>5, <2>6, OneHandle
<1>4. QuietCalls
  BY <1>1, <1>2 DEF Call, QuietCalls, WatchInv, HandleInv
<1>5. QuietRest
  BY <1>1, SameRest DEF fsVars, mgrVars
<1> QED BY <1>1, <1>3, <1>4, <1>5, QuietStep DEF mgrVars

LEMMA FireStep ==
  ASSUME WatchInv, NEW f \in Callbacks, Fire(f)
  PROVE  WatchInv'
<1>1. UNCHANGED <<repo, root, content, active, closed, hs, plans, rec, stopping,
                  closer, crashed>>
  BY DEF Fire, Serve, FireClaim, FireCheck, FireDegrades, FireStart, FireRefused,
     FireFailed, callFrame, fsVars
<1>2. PICK h : h = calls[f].h
  OBVIOUS
<1>3. /\ calls[f].pc # "free" /\ calls \in [Callbacks -> Call]
      /\ h \in Handles /\ hs[h].st # "free" /\ hs[h].job \in Jobs
  BY <1>2 DEF Fire, Serve, FireClaim, FireCheck, FireDegrades, FireStart, FireRefused,
     FireFailed, WatchInv, TypeOK, HandleInv
<1>4. QuietCalls
  <2>1. IdleCall \in Call /\ IdleCall.pc = "free"
    BY DEF IdleCall, Call
  <2>2. \/ calls' = [calls EXCEPT ![f] = IdleCall]
        \/ \E s \in {"claimed", "start", "lost", "failed"} :
             calls' = [calls EXCEPT ![f] = [calls[f] EXCEPT !.pc = s]]
    BY DEF Fire, Serve, FireClaim, FireCheck, FireDegrades, FireStart, FireRefused,
       FireFailed
  <2>3. ASSUME NEW s \in {"claimed", "start", "lost", "failed"}
        PROVE  [calls[f] EXCEPT !.pc = s] \in Call /\ [calls[f] EXCEPT !.pc = s].h = h
    BY <1>2, <1>3 DEF Call
  <2> QED BY <1>3, <2>1, <2>2, <2>3 DEF QuietCalls, WatchInv, HandleInv
<1>5. QuietRest
  <2>1. CASE FireClaim(f) \/ FireCheck(f) \/ FireStart(f) \/ FireRefused(f)
    BY <1>1, <2>1, SameRest DEF FireClaim, FireCheck, FireStart, FireRefused
  <2>2. CASE FireDegrades(f)
    BY <1>1, <1>2, <1>3, <2>2, DegradeRest DEF FireDegrades
  <2>3. CASE FireFailed(f)
    <3>1. /\ UNCHANGED degraded
          /\ errs' = errs \/ errs' = errs \cup {hs[h].job}
      BY <1>2, <2>3 DEF FireFailed
    <3> QED BY <1>1, <1>3, <3>1 DEF QuietRest, WatchInv, TypeOK, PlanInv
  <2> QED BY <2>1, <2>2, <2>3 DEF Fire, Serve
<1> QED BY <1>1, <1>4, <1>5, SameHandles, QuietStep
-----------------------------------------------------------------------------
(***************************************************************************)
(* Reconcile and Close.                                                    *)
(***************************************************************************)
\* The parts of the invariant that do not depend on who owns a handle.
LEMMA OwnerStep ==
  ASSUME WatchInv, UNCHANGED <<repo, root, content, calls>>, plans' \in [Planners -> Plan],
         active' \in [Jobs -> Handles \cup {None, Nil}],
         errs' \subseteq Jobs, degraded' \subseteq errs',
         closed' \in BOOLEAN, crashed' \in BOOLEAN,
         hs' \in [Handles -> Handle], rec' \in Rec,
         stopping' \subseteq Handles \cup {Nil},
         closer' \in {"open", "stopping", "done"},
         \A h \in Handles : /\ hs[h].st # "free" => hs'[h].st # "free"
                            /\ hs'[h].st # "free" => hs'[h].job \in Jobs
                            /\ hs'[h].ew # "none" \/ hs'[h].pw # "none" \/ hs'[h].timer
                                 => hs'[h].st # "free",
         \A h \in stopping' \ {Nil} : hs'[h].st # "free",
         SilentInv', PlanInv', ~closed' => OwnerInv'
  PROVE  WatchInv'
<1>1. TypeOK'
  BY DEF WatchInv, TypeOK
<1>2. HandleInv'
  BY DEF WatchInv, HandleInv
<1> QED BY <1>1, <1>2 DEF WatchInv

\* A reconciliation begins or ends, and holds nothing before and after.
LEMMA PlanStep ==
  ASSUME WatchInv, NEW r \in Rec, rec' = r, r.pc # "swap",
         r.desired \cap r.invalid = {}, r.create \subseteq r.desired,
         \A j \in Jobs : r.prepared[j] = None,
         closed => r.pc = "idle",
         ~closed => stopping = {} /\ \A h \in Handles : hs[h].st # "prepared",
         plans' \in [Planners -> Plan],
         \A p \in Planners : plans'[p].desired \cap plans'[p].invalid = {},
         UNCHANGED <<repo, fsVars, calls, mgrVars, hs, stopping, closer, crashed>>
  PROVE  WatchInv'
<1>1. /\ UNCHANGED <<repo, root, content, calls, active, degraded, errs, closed,
                     hs, stopping, closer, crashed>>
      /\ TypeOK /\ HandleInv /\ SilentInv /\ PlanInv
      /\ degraded \subseteq errs
      /\ ~closed => OwnerInv
  BY DEF WatchInv, mgrVars, fsVars
<1>2. SilentInv' /\ PlanInv'
  BY <1>1 DEF SilentInv, PlanInv
<1>3. ~closed' => OwnerInv'
  BY <1>1 DEF OwnerInv
<1> QED BY <1>1, <1>2, <1>3, OwnerStep DEF TypeOK, HandleInv

LEMMA IdleRecFacts ==
  /\ IdleRec \in Rec /\ IdleRec.pc = "idle"
  /\ IdleRec.desired = {} /\ IdleRec.invalid = {} /\ IdleRec.create = {}
  /\ \A j \in Jobs : IdleRec.prepared[j] = None
  BY WatchAssumption DEF IdleRec, Rec

\* A plan divides the jobs it is about into desired and invalid ones.
LEMMA ReconcilePlanStep ==
  ASSUME WatchInv, NEW p \in Planners, ReconcilePlan(p)
  PROVE  WatchInv'
<1> DEFINE wanted == {j \in Jobs : repo[j].on}
<1>1. PICK bad \in SUBSET wanted :
        plans' = [plans EXCEPT ![p] = [made |-> TRUE, rev |-> [j \in Jobs |-> repo[j].rev],
                                       desired |-> (wanted \cap root) \ bad,
                                       invalid |-> (wanted \ root) \cup bad]]
  BY DEF ReconcilePlan
<1>2. PICK v, d, i : /\ v = [j \in Jobs |-> repo[j].rev]
                     /\ d = (wanted \cap root) \ bad /\ i = (wanted \ root) \cup bad
  OBVIOUS
<1>3. /\ v \in [Jobs -> 0..MaxRevision] /\ d \subseteq Jobs /\ i \subseteq Jobs
      /\ d \cap i = {}
  BY <1>2 DEF WatchInv, TypeOK
<1>4. PICK q : q = [made |-> TRUE, rev |-> v, desired |-> d, invalid |-> i]
  OBVIOUS
<1>5. q \in Plan /\ q.desired \cap q.invalid = {}
  BY <1>3, <1>4 DEF Plan
<1>6. plans' = [plans EXCEPT ![p] = q]
  BY <1>1, <1>2, <1>4
<1>7. /\ UNCHANGED <<repo, root, content, calls, active, degraded, errs, closed, hs, rec,
                     stopping, closer, crashed>>
      /\ plans \in [Planners -> Plan]
      /\ \A r \in Planners : plans[r].desired \cap plans[r].invalid = {}
  BY DEF ReconcilePlan, fsVars, mgrVars, WatchInv, TypeOK, PlanInv
<1>8. QuietRest
  BY <1>5, <1>6, <1>7 DEF QuietRest, WatchInv, TypeOK
<1> QED BY <1>7, <1>8, SameHandles, SameCalls, QuietStep

LEMMA ReconcileBeginStep ==
  ASSUME WatchInv, NEW p \in Planners, ReconcileBegin(p)
  PROVE  WatchInv'
<1>1. ~closed => stopping = {} /\ \A h \in Handles : hs[h].st # "prepared"
  BY DEF ReconcileBegin, WatchInv, OwnerInv
<1>2. /\ plans' \in [Planners -> Plan]
      /\ \A r \in Planners : plans'[r].desired \cap plans'[r].invalid = {}
  <2>1. NoPlan \in Plan /\ NoPlan.desired \cap NoPlan.invalid = {}
    BY WatchAssumption DEF NoPlan, Plan
  <2> QED BY <2>1 DEF ReconcileBegin, WatchInv, TypeOK, PlanInv
<1>3. CASE closed
  BY <1>1, <1>2, <1>3, IdleRecFacts, PlanStep DEF ReconcileBegin
<1>4. CASE ~closed
  <2>1. PICK q : q = plans[p]
    OBVIOUS
  <2>2. PICK c : c = {j \in q.desired : ~Same(active[j], q.rev[j]) \/ j \in degraded}
    OBVIOUS
  <2>3. PICK r : r = [IdleRec EXCEPT !.pc = "new", !.rev = q.rev, !.desired = q.desired,
                                     !.invalid = q.invalid, !.create = c]
    OBVIOUS
  <2>4. rec' = r
    BY <1>4, <2>1, <2>2, <2>3 DEF ReconcileBegin
  <2>5. q \in Plan /\ q.desired \cap q.invalid = {} /\ c \subseteq q.desired
    BY <2>1, <2>2 DEF WatchInv, TypeOK, PlanInv
  <2>6. /\ r \in Rec /\ r.pc = "new" /\ r.desired = q.desired /\ r.create = c
        /\ r.invalid = q.invalid /\ \A j \in Jobs : r.prepared[j] = None
    BY <2>3, <2>5 DEF IdleRec, Rec, Plan
  <2> QED BY <1>1, <1>2, <1>4, <2>4, <2>5, <2>6, PlanStep DEF ReconcileBegin
<1> QED BY <1>3, <1>4

LEMMA ReconcileEndStep == ASSUME WatchInv, ReconcileEnd PROVE WatchInv'
<1>1. ~closed => stopping = {} /\ \A h \in Handles : hs[h].st # "prepared"
  BY DEF ReconcileEnd, WatchInv, OwnerInv
<1>2. plans' = plans
  BY DEF ReconcileEnd, recFrame
<1> QED BY <1>1, <1>2, IdleRecFacts, PlanStep
           DEF ReconcileEnd, recFrame, WatchInv, TypeOK, PlanInv

\* newHandle succeeds: the slot belonged to nobody.
LEMMA ReconcileNewStep ==
  ASSUME WatchInv, NEW j \in Jobs, NEW h \in Handles, ReconcileNew(j, h)
  PROVE  WatchInv'
<1>1. /\ TypeOK /\ HandleInv /\ SilentInv /\ PlanInv /\ OwnerInv /\ ~closed
      /\ degraded \subseteq errs
  BY DEF ReconcileNew, WatchInv, PlanInv
<1>2. /\ rec.pc = "new" /\ j \in rec.create /\ hs[h].st \in {"free", "stopped"}
      /\ rec \in Rec /\ rec.prepared \in [Jobs -> Handles \cup {None}]
      /\ rec.rev \in [Jobs -> 0..MaxRevision] /\ stopping = {}
      /\ UNCHANGED <<repo, root, content, calls, plans, active, degraded, errs, closed,
                     stopping, closer, crashed>>
  BY <1>1 DEF ReconcileNew, Available, recFrame, fsVars, mgrVars, TypeOK, Rec, OwnerInv
<1>3. PICK b \in BOOLEAN : b = HasEvents
  <2>1. HasEvents \in BOOLEAN
    BY DEF HasEvents
  <2> QED BY <2>1
<1>4. PICK x : x = [FreeHandle EXCEPT !.st = "prepared", !.job = j, !.rev = rec.rev[j],
                                      !.armed = b]
  OBVIOUS
<1>5. x \in Handle /\ x.st = "prepared" /\ x.job = j
  <2>1. FreeHandle \in Handle /\ rec.rev[j] \in 0..MaxRevision
    BY <1>2, WatchAssumption DEF FreeHandle, Handle
  <2> QED BY <1>4, <2>1 DEF Handle
<1>6. hs' = [hs EXCEPT ![h] = x]
  BY <1>3, <1>4 DEF ReconcileNew
<1>7. PICK r : r = [rec EXCEPT !.prepared[j] = h]
  OBVIOUS
<1>8. /\ rec' = r /\ r \in Rec /\ r.pc = "new" /\ r.desired = rec.desired
      /\ r.invalid = rec.invalid /\ r.create = rec.create /\ r.start = rec.start
      /\ r.prepared = [rec.prepared EXCEPT ![j] = h]
  BY <1>2, <1>7 DEF ReconcileNew, Rec
<1>9. /\ hs' \in [Handles -> Handle] /\ hs'[h] = x
      /\ \A g \in Handles \ {h} : hs'[g] = hs[g]
  BY <1>1, <1>5, <1>6 DEF TypeOK
<1>10. SilentInv' /\ PlanInv'
  BY <1>1, <1>2, <1>5, <1>8, <1>9 DEF SilentInv, PlanInv
<1>11. OwnerInv'
  <2>1. ASSUME NEW k \in Jobs
        PROVE  /\ active[k] # h /\ rec.prepared[k] # h
               /\ r.prepared[k] = IF k = j THEN h ELSE rec.prepared[k]
    BY <1>1, <1>2, <1>8, WatchAssumption DEF OwnerInv
  <2>2. \A k \in Jobs : active[k] \in Handles => hs'[active[k]] = hs[active[k]]
    BY <1>9, <2>1
  <2>3. \A k \in Jobs : r.prepared[k] # None =>
          k \in r.create /\ hs'[r.prepared[k]].st = "prepared" /\ hs'[r.prepared[k]].job = k
    <3> SUFFICES ASSUME NEW k \in Jobs, r.prepared[k] # None
                 PROVE  /\ k \in r.create /\ hs'[r.prepared[k]].st = "prepared"
                        /\ hs'[r.prepared[k]].job = k
      OBVIOUS
    <3>1. CASE k = j
      BY <1>2, <1>5, <1>8, <1>9, <2>1, <3>1
    <3>2. CASE k # j
      <4>1. r.prepared[k] = rec.prepared[k] /\ rec.prepared[k] \in Handles \ {h}
        BY <1>2, <2>1, <3>2
      <4> QED BY <1>1, <1>2, <1>8, <1>9, <4>1 DEF OwnerInv
    <3> QED BY <3>1, <3>2
  <2>4. \A g \in Handles : hs'[g].st = "prepared" =>
          hs'[g].job \in r.create /\ r.prepared[hs'[g].job] = g
    <3> SUFFICES ASSUME NEW g \in Handles, hs'[g].st = "prepared"
                 PROVE  hs'[g].job \in r.create /\ r.prepared[hs'[g].job] = g
      OBVIOUS
    <3>1. CASE g = h
      BY <1>2, <1>5, <1>8, <1>9, <2>1, <3>1
    <3>2. CASE g # h
      <4>1. /\ hs'[g] = hs[g] /\ hs[g].job \in rec.create /\ rec.prepared[hs[g].job] = g
            /\ hs[g].job \in Jobs
        BY <1>1, <1>2, <1>9, <3>2 DEF OwnerInv, Rec
      <4>2. hs[g].job # j
        BY <4>1, WatchAssumption DEF ReconcileNew
      <4> QED BY <1>8, <2>1, <4>1, <4>2
    <3> QED BY <3>1, <3>2
  <2>5. \A g \in Handles : hs'[g].st = "started" => active[hs'[g].job] \in {g, Nil}
    BY <1>1, <1>2, <1>5, <1>9 DEF OwnerInv
  <2>6. \A k \in Jobs : active[k] \in Handles =>
          hs'[active[k]].job = k /\ hs'[active[k]].st = "started"
    BY <1>1, <1>2, <2>2 DEF OwnerInv
  <2> QED BY <1>2, <1>8, <2>3, <2>4, <2>5, <2>6 DEF OwnerInv
<1> QED BY <1>1, <1>2, <1>5, <1>8, <1>9, <1>10, <1>11, OwnerStep DEF TypeOK, HandleInv

LEMMA StoppedFacts ==
  ASSUME NEW h \in Handles, hs[h] \in Handle
  PROVE  /\ Stopped(h) \in Handle /\ Stopped(h).st = "stopped" /\ Stopped(h).ctx
         /\ ~Stopped(h).timer /\ Stopped(h).job = hs[h].job
<1>1. PICK b, c : b \in BOOLEAN /\ c \in BOOLEAN /\ b = TRUE /\ c = FALSE
  OBVIOUS
<1>2. Stopped(h) = [hs[h] EXCEPT !.st = "stopped", !.ctx = b, !.timer = c, !.queue = << >>]
  BY <1>1 DEF Stopped
<1>3. << >> \in Seq(Notice)
  OBVIOUS
<1>4. /\ Stopped(h) \in Handle /\ Stopped(h).st = "stopped" /\ Stopped(h).ctx = b
      /\ Stopped(h).timer = c /\ Stopped(h).job = hs[h].job
  <2> HIDE DEF Notice
  <2> QED BY <1>1, <1>2, <1>3 DEF Handle
<1> QED BY <1>1, <1>4

\* newHandle fails: the handles prepared so far are all the prepared handles, and
\* no other.
LEMMA ReconcileFailStep ==
  ASSUME WatchInv, NEW j \in Jobs, ReconcileFail(j)
  PROVE  WatchInv'
<1>1. /\ TypeOK /\ HandleInv /\ SilentInv /\ PlanInv /\ OwnerInv /\ ~closed
      /\ degraded \subseteq errs
  BY DEF ReconcileFail, WatchInv, PlanInv
<1>2. /\ rec.pc = "new" /\ stopping = {} /\ rec' = IdleRec /\ errs' = errs \cup {j}
      /\ UNCHANGED <<repo, root, content, calls, plans, active, degraded, closed,
                     stopping, closer, crashed>>
  BY <1>1 DEF ReconcileFail, recFrame, fsVars, OwnerInv
<1>3. \A h \in Handles : h \in Prepared <=> hs[h].st = "prepared"
  BY <1>1, <1>2, WatchAssumption DEF OwnerInv, Prepared, TypeOK, Rec
<1>4. PICK x : x = [h \in Handles |-> Stopped(h)]
  OBVIOUS
<1>5. \A h \in Handles : /\ x[h] \in Handle /\ x[h].st = "stopped" /\ x[h].ctx
                         /\ ~x[h].timer /\ x[h].job = hs[h].job
  BY <1>1, <1>4, StoppedFacts DEF TypeOK
<1>6. \A h \in Handles : hs'[h] = IF hs[h].st = "prepared" THEN x[h] ELSE hs[h]
  BY <1>3, <1>4 DEF ReconcileFail
<1>7. hs' \in [Handles -> Handle]
  BY <1>1, <1>4, <1>5 DEF ReconcileFail, TypeOK
<1>8. SilentInv' /\ PlanInv'
  BY <1>1, <1>2, <1>5, <1>6, IdleRecFacts DEF SilentInv, PlanInv
<1>9. OwnerInv'
  BY <1>1, <1>2, <1>5, <1>6, IdleRecFacts DEF OwnerInv
<1> QED BY <1>1, <1>2, <1>5, <1>6, <1>7, <1>8, <1>9, IdleRecFacts, OwnerStep
           DEF TypeOK, HandleInv

\* The second section under mu: every handle changes hands, and none is lost.
LEMMA ReconcilePublishStep == ASSUME WatchInv, ReconcilePublish PROVE WatchInv'
<1>1. /\ TypeOK /\ HandleInv /\ SilentInv /\ PlanInv /\ OwnerInv /\ ~closed
      /\ degraded \subseteq errs
  BY DEF ReconcilePublish, WatchInv, PlanInv
<1>2. /\ rec.pc = "new" /\ \A j \in rec.create : rec.prepared[j] # None
      /\ active' = [j \in Jobs |-> NextActive(j)]
      /\ errs' = (errs \cup rec.invalid) \ rec.desired
      /\ degraded' = degraded \ rec.desired
      /\ stopping' = {active[j] : j \in {i \in Jobs : ToStop(i)}}
      /\ UNCHANGED <<repo, root, content, calls, plans, closed, hs, closer, crashed>>
      /\ rec \in Rec /\ rec.prepared \in [Jobs -> Handles \cup {None}]
      /\ active \in [Jobs -> Handles \cup {None, Nil}]
      /\ rec.desired \subseteq Jobs /\ rec.invalid \subseteq Jobs
      /\ rec.create \subseteq rec.desired /\ rec.desired \cap rec.invalid = {}
  BY <1>1 DEF ReconcilePublish, recFrame, fsVars, TypeOK, Rec, PlanInv
<1>3. PICK p : p = Prepared
  OBVIOUS
<1>4. PICK r : r = [rec EXCEPT !.pc = "swap", !.start = p]
  OBVIOUS
<1>5. p \subseteq Handles
  BY <1>2, <1>3 DEF Prepared
<1>6. /\ rec' = r /\ r \in Rec /\ r.pc = "swap" /\ r.start = p
      /\ r.desired = rec.desired /\ r.invalid = rec.invalid /\ r.create = rec.create
  BY <1>2, <1>3, <1>4, <1>5 DEF ReconcilePublish, Rec
\* The new handle of a job: the one it has, the one prepared for it, or none.
<1>7. ASSUME NEW j \in Jobs
      PROVE  /\ j \in rec.invalid => active'[j] = active[j]
             /\ j \in rec.desired /\ rec.prepared[j] # None =>
                  active'[j] = rec.prepared[j]
             /\ j \in rec.desired /\ rec.prepared[j] = None =>
                  active'[j] \in {active[j], Nil}
             /\ j \notin rec.desired /\ j \notin rec.invalid => active'[j] = None
  <2>1. active'[j] = NextActive(j)
    BY <1>2
  <2>2. CASE j \in rec.invalid
    BY <1>2, <2>1, <2>2 DEF NextActive
  <2>3. CASE j \in rec.desired /\ rec.prepared[j] # None
    BY <1>2, <2>1, <2>3 DEF NextActive
  <2>4. CASE j \in rec.desired /\ rec.prepared[j] = None
    BY <1>2, <2>1, <2>4 DEF NextActive
  <2>5. CASE j \notin rec.desired /\ j \notin rec.invalid
    BY <1>2, <2>1, <2>5 DEF NextActive
  <2> QED BY <2>2, <2>3, <2>4, <2>5
<1>8. /\ active' \in [Jobs -> Handles \cup {None, Nil}]
      /\ stopping' \subseteq Handles \cup {Nil}
  <2>1. \A j \in Jobs : active'[j] \in Handles \cup {None, Nil}
    BY <1>2, <1>7
  <2>2. stopping' \subseteq Handles \cup {Nil}
    BY <1>2 DEF ToStop
  <2> QED BY <1>2, <2>1, <2>2
<1>9. PlanInv' /\ SilentInv'
  BY <1>1, <1>2, <1>6 DEF PlanInv, SilentInv
<1>10. \A j \in Jobs : active[j] \in Handles =>
         hs[active[j]].job = j /\ hs[active[j]].st = "started"
  BY <1>1, <1>2 DEF OwnerInv
<1>11. \A j \in Jobs : rec.prepared[j] # None =>
         /\ j \in rec.create /\ rec.prepared[j] \in p
         /\ hs[rec.prepared[j]].st = "prepared" /\ hs[rec.prepared[j]].job = j
  BY <1>1, <1>2, <1>3 DEF OwnerInv, Prepared
<1>12. OwnerInv'
  <2>1. ASSUME NEW j \in Jobs, active'[j] \in Handles
        PROVE  /\ hs[active'[j]].job = j
               /\ \/ hs[active'[j]].st = "started"
                  \/ hs[active'[j]].st = "prepared" /\ active'[j] \in p
    <3>1. CASE active'[j] = active[j]
      BY <1>10, <2>1, <3>1
    <3>2. CASE rec.prepared[j] # None /\ active'[j] = rec.prepared[j]
      BY <1>11, <2>1, <3>2
    <3> QED BY <1>2, <1>7, <2>1, <3>1, <3>2, WatchAssumption
  <2>2. ASSUME NEW h \in Handles, hs[h].st = "started"
        PROVE  active'[hs[h].job] \in {h, Nil} \/ h \in stopping' \/ Nil \in stopping'
    <3>1. PICK j \in Jobs : j = hs[h].job
      BY <1>1, <2>2 DEF HandleInv
    <3>2. active[j] \in {h, Nil} /\ active[j] # None
      BY <1>1, <1>2, <2>2, <3>1, WatchAssumption DEF OwnerInv
    <3>3. ToStop(j) => active[j] \in stopping'
      BY <1>2
    <3>4. ToStop(j) \/ active'[j] \in {active[j], Nil}
      BY <1>7, <3>2 DEF ToStop
    <3> QED BY <3>1, <3>2, <3>3, <3>4
  <2>3. \A h \in Handles : hs[h].st = "prepared" => h \in p
    BY <1>1, <1>2, <1>3, WatchAssumption DEF OwnerInv, Prepared, Rec
  <2>4. ASSUME NEW h \in p
        PROVE  hs[h].st = "prepared" /\ active'[hs[h].job] = h
    <3>1. PICK j \in rec.create : h = rec.prepared[j] /\ h # None
      BY <1>3 DEF Prepared
    <3> QED BY <1>2, <1>7, <1>11, <3>1
  <2>5. ASSUME NEW h \in stopping' \ {Nil}
        PROVE  active'[hs[h].job] # h
    <3>1. PICK j \in Jobs : h = active[j] /\ ToStop(j)
      BY <1>2
    <3>2. h \in Handles /\ hs[h].job = j /\ hs[h].st = "started"
      BY <1>2, <1>10, <3>1 DEF ToStop
    <3>3. CASE j \notin rec.desired
      BY <1>7, <3>1, <3>2, <3>3, WatchAssumption DEF ToStop
    <3>4. CASE j \in rec.desired
      BY <1>7, <1>11, <3>1, <3>2, <3>4 DEF ToStop
    <3> QED BY <3>3, <3>4
  <2>6. hs' = hs /\ rec'.pc = "swap" /\ rec'.start = p
    BY <1>2, <1>6
  <2> QED BY <2>1, <2>2, <2>3, <2>4, <2>5, <2>6 DEF OwnerInv
<1>13. errs' \subseteq Jobs /\ degraded' \subseteq errs'
  BY <1>1, <1>2 DEF TypeOK
<1>14. \A h \in stopping' \ {Nil} : hs[h].st # "free"
  BY <1>2, <1>10 DEF ToStop
<1> QED BY <1>1, <1>2, <1>6, <1>8, <1>9, <1>12, <1>13, <1>14, OwnerStep
           DEF TypeOK, HandleInv

LEMMA StopHandleStep ==
  ASSUME WatchInv, NEW h \in Handles, StopHandle(h)
  PROVE  WatchInv'
<1>1. /\ TypeOK /\ HandleInv /\ SilentInv /\ PlanInv
      /\ degraded \subseteq errs /\ (~closed => OwnerInv)
  BY DEF WatchInv
<1>2. /\ h \in stopping \ {Nil} /\ hs[h] \in Handle /\ hs[h].st # "free"
      /\ hs[h].job \in Jobs
      /\ UNCHANGED <<repo, root, content, calls, plans, active, degraded, errs, closed,
                     rec, stopping, closer, crashed>>
  BY <1>1 DEF StopHandle, recFrame, fsVars, mgrVars, TypeOK, HandleInv
<1>3. PICK x : x = Stopped(h)
  OBVIOUS
<1>4. x \in Handle /\ x.st = "stopped" /\ x.ctx /\ ~x.timer /\ x.job = hs[h].job
  BY <1>2, <1>3, StoppedFacts
<1>5. /\ hs' \in [Handles -> Handle] /\ hs'[h] = x
      /\ \A g \in Handles \ {h} : hs'[g] = hs[g]
  BY <1>1, <1>3, <1>4 DEF StopHandle, TypeOK
<1>6. SilentInv' /\ PlanInv'
  BY <1>1, <1>2, <1>4, <1>5 DEF SilentInv, PlanInv
<1>7. ASSUME ~closed
      PROVE  OwnerInv'
  <2>1. OwnerInv /\ rec.pc = "swap"
    BY <1>1, <1>2, <1>7 DEF OwnerInv
  <2>2. active[hs[h].job] # h
    BY <1>2, <2>1 DEF OwnerInv
  <2>3. \A j \in Jobs : active[j] \in Handles =>
          active[j] # h /\ hs'[active[j]] = hs[active[j]]
    BY <1>5, <2>1, <2>2 DEF OwnerInv
  <2>4. \A g \in rec.start : g \in Handles /\ g # h
    BY <1>1, <2>1, <2>2 DEF OwnerInv, TypeOK, Rec
  <2>5. stopping \subseteq Handles \cup {Nil}
    BY <1>1 DEF TypeOK
  <2>6. \A g \in Handles : hs'[g].job = hs[g].job
    BY <1>4, <1>5
  <2>7. \A g \in Handles : hs'[g].st # "stopped" => hs'[g] = hs[g]
    BY <1>4, <1>5
  <2> QED BY <1>2, <1>5, <2>1, <2>3, <2>4, <2>5, <2>6, <2>7 DEF OwnerInv
<1>8. \A g \in Handles : /\ hs[g].st # "free" => hs'[g].st # "free"
                         /\ hs'[g].st # "free" => hs'[g].job \in Jobs
                         /\ hs'[g].ew # "none" \/ hs'[g].pw # "none" \/ hs'[g].timer
                              => hs'[g].st # "free"
  BY <1>1, <1>2, <1>4, <1>5 DEF HandleInv
<1>9. \A g \in stopping' \ {Nil} : hs'[g].st # "free"
  BY <1>1, <1>2, <1>8 DEF HandleInv, TypeOK
<1> QED BY <1>1, <1>2, <1>5, <1>6, <1>7, <1>8, <1>9, OwnerStep DEF TypeOK

\* The goroutines of a stopped handle have ended, or a nil handle is met.
LEMMA StopEndsStep ==
  ASSUME WatchInv, StopNil \/ \E h \in Handles : StopWaited(h)
  PROVE  WatchInv'
<1>1. /\ TypeOK /\ HandleInv /\ SilentInv /\ PlanInv
      /\ degraded \subseteq errs /\ (~closed => OwnerInv)
  BY DEF WatchInv
<1>2. /\ UNCHANGED <<repo, root, content, calls, plans, active, degraded, errs, closed,
                     hs, rec, closer>>
      /\ stopping' \subseteq stopping /\ crashed' \in BOOLEAN
      /\ \A h \in stopping \ stopping' : h # Nil /\ hs[h].st = "stopped"
  BY <1>1 DEF StopNil, StopWaited, recFrame, fsVars, mgrVars, TypeOK
<1>3. SilentInv' /\ PlanInv'
  BY <1>1, <1>2 DEF SilentInv, PlanInv
<1>4. ~closed => OwnerInv'
  BY <1>1, <1>2 DEF OwnerInv
<1> QED BY <1>1, <1>2, <1>3, <1>4, OwnerStep DEF TypeOK, HandleInv

LEMMA ReconcileStartStep ==
  ASSUME WatchInv, NEW h \in Handles, ReconcileStart(h)
  PROVE  WatchInv'
<1>1. /\ TypeOK /\ HandleInv /\ SilentInv /\ PlanInv /\ OwnerInv /\ ~closed
      /\ degraded \subseteq errs
  BY DEF ReconcileStart, WatchInv, PlanInv
<1>2. /\ rec.pc = "swap" /\ stopping = {} /\ h \in rec.start /\ rec \in Rec
      /\ hs[h] \in Handle /\ hs[h].st = "prepared" /\ active[hs[h].job] = h
      /\ UNCHANGED <<repo, root, content, calls, plans, active, degraded, errs, closed,
                     stopping, closer, crashed>>
  BY <1>1 DEF ReconcileStart, recFrame, fsVars, mgrVars, TypeOK, OwnerInv
<1>3. PICK e \in {"idle", "none"}, q \in {"first", "none"} :
        /\ e = IF HasEvents THEN "idle" ELSE "none"
        /\ q = IF HasPoll THEN "first" ELSE "none"
  OBVIOUS
<1>4. PICK x : x = [hs[h] EXCEPT !.st = "started", !.ew = e, !.pw = q]
  OBVIOUS
<1>5. x \in Handle /\ x.st = "started" /\ x.job = hs[h].job
  BY <1>2, <1>4 DEF Handle
<1>6. hs' = [hs EXCEPT ![h] = x]
  BY <1>1, <1>2, <1>3, <1>4 DEF ReconcileStart, TypeOK
<1>7. PICK r : r = [rec EXCEPT !.start = @ \ {h}]
  OBVIOUS
<1>8. /\ rec' = r /\ r \in Rec /\ r.pc = "swap" /\ r.desired = rec.desired
      /\ r.invalid = rec.invalid /\ r.create = rec.create /\ r.start = rec.start \ {h}
  BY <1>2, <1>7 DEF ReconcileStart, Rec
<1>9. /\ hs' \in [Handles -> Handle] /\ hs'[h] = x
      /\ \A g \in Handles \ {h} : hs'[g] = hs[g]
  BY <1>1, <1>5, <1>6 DEF TypeOK
<1>10. SilentInv' /\ PlanInv'
  BY <1>1, <1>2, <1>5, <1>8, <1>9 DEF SilentInv, PlanInv
<1>11. OwnerInv'
  <2>1. \A j \in Jobs : active[j] \in Handles =>
          /\ hs'[active[j]].job = j
          /\ \/ hs'[active[j]].st = "started"
             \/ hs'[active[j]].st = "prepared" /\ active[j] \in r.start
    BY <1>1, <1>5, <1>8, <1>9 DEF OwnerInv
  <2>2. \A g \in Handles : hs'[g].st = "started" => active[hs'[g].job] \in {g, Nil}
    BY <1>1, <1>2, <1>5, <1>9 DEF OwnerInv
  <2>3. \A g \in Handles : hs'[g].st = "prepared" => g \in r.start
    BY <1>1, <1>2, <1>5, <1>8, <1>9 DEF OwnerInv
  <2>4. \A g \in r.start : hs'[g].st = "prepared" /\ active[hs'[g].job] = g
    BY <1>1, <1>2, <1>8, <1>9 DEF OwnerInv, Rec
  <2> QED BY <1>2, <1>8, <2>1, <2>2, <2>3, <2>4 DEF OwnerInv
<1>12. \A g \in Handles : /\ hs[g].st # "free" => hs'[g].st # "free"
                          /\ hs'[g].st # "free" => hs'[g].job \in Jobs
                          /\ hs'[g].ew # "none" \/ hs'[g].pw # "none" \/ hs'[g].timer
                               => hs'[g].st # "free"
  BY <1>1, <1>2, <1>5, <1>9 DEF HandleInv
<1> QED BY <1>1, <1>2, <1>8, <1>9, <1>10, <1>11, <1>12, OwnerStep DEF TypeOK

LEMMA CloseStep == ASSUME WatchInv, CloseBegin \/ CloseDone PROVE WatchInv'
<1>1. /\ TypeOK /\ HandleInv /\ SilentInv /\ PlanInv
      /\ degraded \subseteq errs /\ (~closed => OwnerInv)
  BY DEF WatchInv
<1>2. CASE CloseBegin
  <2>1. /\ rec.pc = "idle" /\ closed' /\ closer' = "stopping"
        /\ active' = [j \in Jobs |-> None]
        /\ stopping' = {active[j] : j \in Jobs} \ {None}
        /\ UNCHANGED <<repo, root, content, calls, plans, degraded, errs, rec, crashed>>
        /\ OwnerInv
    BY <1>1, <1>2 DEF CloseBegin, recFrame, fsVars, PlanInv
  <2>2. closed' \in BOOLEAN
    BY <1>2 DEF CloseBegin
  <2>3. ASSUME NEW h \in Handles
        PROVE  /\ hs'[h] \in Handle /\ hs'[h].st = hs[h].st /\ hs'[h].job = hs[h].job
               /\ hs'[h].ew = hs[h].ew /\ hs'[h].pw = hs[h].pw
               /\ hs'[h].timer = hs[h].timer /\ (hs[h].st # "free" => hs'[h].ctx)
    <3>1. PICK b \in BOOLEAN : b = (hs[h].st # "free")
      OBVIOUS
    <3>2. hs[h] \in Handle /\ hs'[h] = [hs[h] EXCEPT !.ctx = b]
      BY <1>1, <1>2, <3>1 DEF CloseBegin, TypeOK
    <3>3. /\ hs'[h] \in Handle /\ hs'[h].st = hs[h].st /\ hs'[h].job = hs[h].job
          /\ hs'[h].ew = hs[h].ew /\ hs'[h].pw = hs[h].pw
          /\ hs'[h].timer = hs[h].timer /\ hs'[h].ctx = b
      BY <3>2 DEF Handle
    <3> QED BY <3>1, <3>3
  <2>4. hs' \in [Handles -> Handle]
    BY <1>2, <2>3 DEF CloseBegin
  <2>5. SilentInv' /\ PlanInv'
    BY <1>1, <2>1, <2>3 DEF SilentInv, PlanInv
  <2>6. stopping' \subseteq Handles \cup {Nil} /\ \A h \in stopping' \ {Nil} : hs'[h].st # "free"
    BY <1>1, <2>1, <2>3 DEF OwnerInv, TypeOK
  <2>7. active' \in [Jobs -> Handles \cup {None, Nil}]
    BY <2>1
  <2> QED BY <1>1, <2>1, <2>2, <2>3, <2>4, <2>5, <2>6, <2>7, OwnerStep DEF TypeOK, HandleInv
<1>3. CASE CloseDone
  <2>1. /\ UNCHANGED <<repo, root, content, calls, plans, active, degraded, errs, closed,
                       hs, rec, stopping, crashed>>
        /\ closer' = "done"
    BY <1>3 DEF CloseDone, recFrame, fsVars, mgrVars
  <2>2. SilentInv' /\ PlanInv' /\ (~closed => OwnerInv')
    BY <1>1, <2>1 DEF SilentInv, PlanInv, OwnerInv
  <2> QED BY <1>1, <2>1, <2>2, OwnerStep DEF TypeOK, HandleInv
<1> QED BY <1>2, <1>3
-----------------------------------------------------------------------------
LEMMA NextWatch == WatchInv /\ [Next]_vars => WatchInv'
<1> SUFFICES ASSUME WatchInv, [Next]_vars
             PROVE  WatchInv'
  OBVIOUS
<1>1. CASE Next
  BY <1>1, EnvironmentStep, WorkerStep, TimerStep, FireStep, ReconcilePlanStep,
     ReconcileBeginStep, ReconcilePublishStep, ReconcileEndStep, ReconcileFailStep,
     ReconcileNewStep, StopHandleStep, StopEndsStep, ReconcileStartStep, CloseStep
     DEF Next, WatchStep, ReconcileStep, Fire
<1>2. CASE UNCHANGED vars
  <2>1. UNCHANGED <<active, closed, rec, stopping, closer, crashed, calls, hs, plans,
                    repo, root, content, errs, degraded>>
    BY <1>2 DEF vars
  <2> QED BY <2>1, SameHandles, SameCalls, SameRest, QuietStep
<1> QED BY <1>1, <1>2

LEMMA WatchInvariant == Spec => []WatchInv
  BY InitWatch, NextWatch, PTL DEF Spec

\* Every variable of the manager, its handles, callbacks and reconciliation keeps
\* its type.  (WatchManager, watchHandle)
THEOREM WatchTypeCorrect == Spec => []TypeOK
<1>1. WatchInv => TypeOK
  BY DEF WatchInv
<1> QED BY <1>1, WatchInvariant, PTL

\* Once stop() has closed a handle's watcher, no goroutine of it starts its
\* debounce timer again, for any number of handles, pending signals and callbacks.
\* (signalHandle and stop, under opMu)
THEOREM StoppedHandlesAreSilent == Spec => []StoppedHandleIsSilent
<1>1. WatchInv => StoppedHandleIsSilent
  BY DEF WatchInv, SilentInv, StoppedHandleIsSilent
<1> QED BY <1>1, WatchInvariant, PTL

\* A degraded job shows an error, and between reconciliations every running handle
\* is the published one of its job, whatever fails in between.  (Reconcile, degrade,
\* publishError)
THEOREM WatchSetIsConsistent == Spec => []WatchSetConsistent
<1>1. WatchInv => WatchSetConsistent
  <2> SUFFICES ASSUME WatchInv
               PROVE  WatchSetConsistent
    OBVIOUS
  <2>1. ASSUME rec.pc = "idle", ~closed,
               NEW h \in Handles, hs[h].st \in {"prepared", "started"}
        PROVE  hs[h].st = "started" /\ active[hs[h].job] \in {h, Nil}
    BY <2>1 DEF WatchInv, OwnerInv
  <2> QED BY <2>1 DEF WatchInv, WatchSetConsistent
<1> QED BY <1>1, WatchInvariant, PTL
=============================================================================
