-------------------------------- MODULE App --------------------------------
(***************************************************************************)
(* The application (cmd/syncbridge/app.go, api_v1_jobs.go, api_legacy.go,  *)
(* history.go and the end of main.go): the HTTP handlers of both APIs, the *)
(* triggers, the event streams and the shutdown sequence, all running      *)
(* concurrently over one job repository and one run service.               *)
(*                                                                         *)
(* A handler is a request that takes one step per call it makes to a       *)
(* component; other requests, callbacks and runs step in between.  The     *)
(* run service is RunLifecycle, which RunService implements; the           *)
(* repository's operations are single steps, which JobRepository justifies *)
(* (a change that shows although its fsync failed is left to that module); *)
(* reg stands for the registries of Scheduler and WatchManager.  A call    *)
(* that is refused (404, 409, 412) and changes nothing is not a step.      *)
(***************************************************************************)
EXTENDS EventHub, FiniteSets

CONSTANTS
  Jobs,         \* job identifiers; the repository never reuses one
  Seed,         \* the jobs in the repository at the first start
  Requests,     \* API calls and trigger callbacks, each used once
  NoRun, NoJob, \* no run, no job
  HistKeep,     \* histKeep, 20 in the code
  MaxRevision,  \* bound: revisions of a job
  MaxLogID,     \* bound: no log event is published from this identifier on
  MaxRestarts   \* bound: restarts of the process

ASSUME AppAssumption ==
  /\ Seed \subseteq Jobs
  /\ NoRun \notin Runs /\ NoJob \notin Jobs
  /\ {HistKeep, MaxRevision} \subseteq Nat \ {0}
  /\ {MaxLogID, MaxRestarts} \subseteq Nat

VARIABLES
  rev, on,       \* Job.Revision (0: not in the repository) and Job.Enabled
  deleted,       \* jobs that were deleted
  reg,           \* revision the triggers of a job are registered with, or 0
  req,           \* the requests in flight
  state, jobOf, active, pending,  \* the run service: RunLifecycle
  asked,         \* live runs whose executor was told to stop, or will be
  unwritten,     \* runs that ended and are not in the history file yet
  history,       \* the history file: per job, newest first
  hub, follows,  \* event streams; the run a compatibility stream follows
  phase, late,   \* the process, and whether the 20 s of the shutdown are over
  toStop,        \* runs App.Close has listed and not handled
  restarts,
  raced,         \* history variable: runs that overlapped a DELETE of their job
  purged         \* history variable: jobs whose history was purged

jobVars     == <<rev, on, deleted>>
lifeVars    == <<state, jobOf, active, pending>>
historyVars == <<unwritten, history>>
streamVars  == <<hub, follows>>
exitVars    == <<phase, late, toStop, restarts>>
ghostVars   == <<raced, purged>>

vars == <<jobVars, reg, req, lifeVars, asked, historyVars, streamVars, exitVars,
          ghostVars>>

Life == INSTANCE RunLifecycle

\* What a request may be: an operation of the API or a trigger callback
\* ("fire"), the step it takes next, and what it has read so far.
Ops == {"legacyPut", "legacyToggle", "legacyClone", "delete", "legacyDelete",
        "run", "fire", "reconcile"}
Steps == {"new", "update", "create", "delete", "purge", "list", "apply",
          "reserve", "done"}
Registry == [Jobs -> 0..MaxRevision]
Request == [op : Ops \cup {"none"}, step : Steps, job : Jobs \cup {NoJob},
            rev : 0..MaxRevision, on : BOOLEAN, jobs : Registry]

NoList == [j \in Jobs |-> 0]
NewRequest == [op |-> "none", step |-> "new", job |-> NoJob, rev |-> 0,
               on |-> FALSE, jobs |-> NoList]
Done(q) == [req EXCEPT ![q] = [NewRequest EXCEPT !.step = "done"]]

TypeOK ==
  /\ rev \in Registry /\ on \in [Jobs -> BOOLEAN] /\ deleted \subseteq Jobs
  /\ reg \in Registry
  /\ req \in [Requests -> Request]
  /\ Life!TypeOK
  /\ asked \subseteq Runs /\ unwritten \subseteq Runs
  /\ history \in [Jobs -> Seq(Runs)]
  /\ \A j \in Jobs : Len(history[j]) <= HistKeep
  /\ hub \in Hub /\ follows \in [Subscribers -> Runs \cup {NoRun}]
  /\ phase \in {"up", "draining", "stopping", "down"}
  /\ late \in BOOLEAN /\ toStop \subseteq Runs /\ restarts \in 0..MaxRestarts
  /\ raced \subseteq Runs /\ purged \subseteq Jobs

\* What Jobs.List() makes of the registries: the enabled jobs.
Listed == [j \in Jobs |-> IF on[j] THEN rev[j] ELSE 0]

Init ==
  /\ rev = [j \in Jobs |-> IF j \in Seed THEN 1 ELSE 0]
  /\ on = [j \in Jobs |-> j \in Seed]
  /\ deleted = {}
  /\ reg = Listed
  /\ req = [q \in Requests |-> NewRequest]
  /\ Life!Init
  /\ asked = {} /\ unwritten = {}
  /\ history = [j \in Jobs |-> << >>]
  /\ hub = EmptyHub /\ follows = [s \in Subscribers |-> NoRun]
  /\ phase = "up" /\ late = FALSE /\ toStop = {} /\ restarts = 0
  /\ raced = {} /\ purged = {}

Alive == phase # "down"
-----------------------------------------------------------------------------
(***************************************************************************)
(* Handlers that change a job.  A revision named by the client (If-Match)  *)
(* that is not the current one is refused, so a handler of API v1 is seen  *)
(* here only when it names the revision in force at its first step; the    *)
(* compatibility handlers read the job themselves.                         *)
(***************************************************************************)
Arrives(q) == phase = "up" /\ req[q].step = "new"

\* The job is written; reconcileTriggers is left to do.
ToReconcile(q) ==
  req' = [req EXCEPT ![q] = [NewRequest EXCEPT !.op = "reconcile",
                                               !.step = "list"]]

\* a.Jobs.Get(j), kept by the request for its next step.
Get(q, op, j, enabled, step) ==
  /\ req[q].step = "new" /\ rev[j] > 0
  /\ req' = [req EXCEPT ![q] =
       [NewRequest EXCEPT !.op = op, !.step = step, !.job = j,
                          !.rev = rev[j], !.on = enabled]]

Write(j, enabled) ==
  /\ rev[j] < MaxRevision
  /\ rev' = [rev EXCEPT ![j] = @ + 1]
  /\ on' = [on EXCEPT ![j] = enabled]
  /\ UNCHANGED deleted

quiet == <<lifeVars, asked, historyVars, streamVars, exitVars, ghostVars>>

\* PUT /api/v1/jobs/{id}: the body carries the switch.
Put(q) ==
  /\ Arrives(q) /\ ToReconcile(q)
  /\ \E j \in Jobs, enabled \in BOOLEAN : rev[j] > 0 /\ Write(j, enabled)
  /\ UNCHANGED <<reg, quiet>>

\* PUT /api/jobs/{id} keeps the switch it has read.
LegacyPutRead(q) ==
  /\ phase = "up"
  /\ \E j \in Jobs : Get(q, "legacyPut", j, on[j], "update")
  /\ UNCHANGED <<jobVars, reg, quiet>>

\* toggle inverts the switch it has read.
LegacyToggleRead(q) ==
  /\ phase = "up"
  /\ \E j \in Jobs : Get(q, "legacyToggle", j, ~on[j], "update")
  /\ UNCHANGED <<jobVars, reg, quiet>>

\* The copy of a job is switched off.
LegacyCloneRead(q) ==
  /\ phase = "up"
  /\ \E j \in Jobs : Get(q, "legacyClone", j, FALSE, "create")
  /\ UNCHANGED <<jobVars, reg, quiet>>

\* Mutant: the revision is not compared.
UpdateBlind(q) ==
  LET j == req[q].job IN
  /\ req[q].step = "update"
  /\ \/ rev[j] > 0 /\ Write(j, req[q].on) /\ ToReconcile(q)
     \/ req' = Done(q) /\ UNCHANGED jobVars
  /\ UNCHANGED <<reg, quiet>>

\* a.Jobs.Update(id, the revision read, candidate).  It is refused when the
\* revision is no longer the one read, and may fail to be written.
Update(q) ==
  LET j == req[q].job IN
  /\ req[q].step = "update"
  /\ \/ rev[j] = req[q].rev /\ Write(j, req[q].on) /\ ToReconcile(q)
     \/ req' = Done(q) /\ UNCHANGED jobVars
  /\ UNCHANGED <<reg, quiet>>

\* a.Jobs.Create under the next identifier.
Insert(enabled) ==
  \E j \in Jobs \ deleted :
    /\ rev[j] = 0
    /\ rev' = [rev EXCEPT ![j] = 1]
    /\ on' = [on EXCEPT ![j] = enabled]
    /\ UNCHANGED deleted

\* POST /api/v1/jobs, POST /api/jobs and, after its Get, clone, whose write
\* may fail.
Create(q) ==
  /\ \/ Arrives(q) /\ ToReconcile(q) /\ \E enabled \in BOOLEAN : Insert(enabled)
     \/ req[q].step = "create" /\ ToReconcile(q) /\ Insert(FALSE)
     \/ req[q].step = "create" /\ req' = Done(q) /\ UNCHANGED jobVars
  /\ UNCHANGED <<reg, quiet>>

\* reconcileTriggers: the list is read, and applied later.  Reconcile may
\* fail and keep the registries.
List(q) ==
  /\ req[q].step = "list"
  /\ req' = [req EXCEPT ![q].step = "apply", ![q].jobs = Listed]
  /\ UNCHANGED <<jobVars, reg, quiet>>

Apply(q) ==
  /\ req[q].step = "apply"
  /\ reg' \in {reg, req[q].jobs}
  /\ req' = Done(q)
  /\ UNCHANGED <<jobVars, quiet>>
-----------------------------------------------------------------------------
(***************************************************************************)
(* DELETE of both APIs: look for a run that is not terminal, delete under  *)
(* the revision read, purge the history (compatibility API only),          *)
(* reconcile.                                                              *)
(***************************************************************************)
RunsOf(j) == {r \in Runs : jobOf[r] = j}

\* Mutant: a queued run is missed.
JobHasRunningRun(j) == \E r \in RunsOf(j) : state[r] = "running"

\* jobHasActiveRun
JobHasActiveRun(j) == \E r \in RunsOf(j) : Life!Live(r)

DeleteCheck(q, op) ==
  /\ phase = "up"
  /\ \E j \in Jobs :
       /\ Get(q, op, j, FALSE, "delete")
       /\ ~JobHasActiveRun(j)
       /\ raced' = raced \cup (RunsOf(j) \cap unwritten)
  /\ UNCHANGED <<jobVars, reg, lifeVars, asked, historyVars, streamVars,
                 exitVars, purged>>

V1DeleteCheck(q) == DeleteCheck(q, "delete")

LegacyDeleteCheck(q) == DeleteCheck(q, "legacyDelete")

\* a.Jobs.Delete(id, revision), which may be refused or fail like Update.
Delete(q) ==
  LET j == req[q].job IN
  /\ req[q].step = "delete"
  /\ \/ /\ rev[j] = req[q].rev
        /\ rev' = [rev EXCEPT ![j] = 0]
        /\ on' = [on EXCEPT ![j] = FALSE]
        /\ deleted' = deleted \cup {j}
        /\ IF req[q].op = "legacyDelete"
           THEN req' = [req EXCEPT ![q].step = "purge"]
           ELSE ToReconcile(q)
     \/ req' = Done(q) /\ UNCHANGED jobVars
  /\ UNCHANGED <<reg, quiet>>

\* removeHistory under histMu.  Its errors are ignored: a failed write leaves
\* the file, an unreadable file counts as empty and is written back so.
Purge(q) ==
  LET j == req[q].job IN
  /\ req[q].step = "purge" /\ ToReconcile(q)
  /\ \/ history' = [history EXCEPT ![j] = << >>] /\ purged' = purged \cup {j}
     \/ history' = [k \in Jobs |-> << >>] /\ purged' = purged \cup {j}
     \/ UNCHANGED <<history, purged>>
  /\ UNCHANGED <<jobVars, reg, lifeVars, asked, unwritten, streamVars, exitVars,
                 raced>>
-----------------------------------------------------------------------------
(***************************************************************************)
(* Runs.  Start reads the job and compares the revision, then reserves the *)
(* run under the service's lock; the overlap policy is the one of the job  *)
(* it has read, so either may meet any state of the slots.                 *)
(***************************************************************************)
\* POST /api/v1/jobs/{id}/runs, while the server accepts requests.
V1RunRead(q) ==
  /\ phase = "up"
  /\ \E j \in Jobs : Get(q, "run", j, FALSE, "reserve")
  /\ UNCHANGED <<jobVars, reg, quiet>>

\* POST /api/jobs/{id}/run, with the revision of the job it reads itself.
LegacyRunRead(q) ==
  /\ phase = "up"
  /\ \E j \in Jobs : Get(q, "run", j, FALSE, "reserve")
  /\ UNCHANGED <<jobVars, reg, quiet>>

\* A callback of Scheduler or WatchManager, with the revision it was
\* registered with, until both are closed.
TriggerRead(q) ==
  /\ phase \in {"up", "draining"}
  /\ \E j \in Jobs : reg[j] = rev[j] /\ Get(q, "fire", j, FALSE, "reserve")
  /\ UNCHANGED <<jobVars, reg, quiet>>

\* A DELETE of j has passed its check, or has come first.
DeleteOverlaps(j) ==
  rev[j] = 0 \/ \E q \in Requests : req[q].step = "delete" /\ req[q].job = j

Say(r, status) == hub' = Publish(hub, r, status)

\* The queued run that a new one takes the place of ends first.
Displaced(ended) ==
  IF ended = {} THEN hub
  ELSE Publish(hub, CHOOSE p \in ended : TRUE, "skipped_overlap")

\* The section of Start under mu, with what it publishes and what it leaves
\* for history.
Reserve(q) ==
  LET j == req[q].job
      Ended == {p \in Runs : state[p] # "ended" /\ state'[p] = "ended"}
  IN
  /\ req[q].step = "reserve" /\ req' = Done(q)
  /\ \E r \in Runs :
       /\ Life!Start(r, j)
       /\ hub' = IF r \in Ended THEN Publish(hub, r, "skipped_overlap")
                 ELSE Publish(Displaced(Ended), r, "queued")
       /\ unwritten' = unwritten \cup Ended
       /\ raced' = IF DeleteOverlaps(j) THEN raced \cup {r} ELSE raced
  /\ UNCHANGED <<jobVars, reg, asked, history, follows, exitVars, purged>>

calm == <<jobVars, reg, req, follows, ghostVars>>

\* execute(): the process is there.
RunStarts(r) ==
  /\ Alive /\ Life!Run(r) /\ Say(r, "running")
  /\ UNCHANGED <<calm, asked, historyVars, exitVars>>

\* publishLog
LogLine(r) ==
  /\ Alive /\ state[r] = "running" /\ hub.eventID < MaxLogID
  /\ hub' = Publish(hub, r, "running")
  /\ UNCHANGED <<calm, lifeVars, asked, historyVars, exitVars>>

Ends(r, status) ==
  /\ Life!End(r) /\ Say(r, status)
  /\ unwritten' = unwritten \cup {r} /\ asked' = asked \ {r}

\* finish()
RunEnds(r) ==
  /\ Alive /\ Ends(r, "succeeded")
  /\ UNCHANGED <<calm, history, exitVars>>

\* Mutant: the list of a job is not cut.
NewestAll(list) == list

\* list[:histKeep]
Newest(list) == IF Len(list) > HistKeep THEN SubSeq(list, 1, HistKeep) ELSE list

\* persistHistory: the record goes to the head of the job's list; a failed
\* write, which may have replaced the file before it failed, is reported as
\* an event of the run.
Record(r) ==
  /\ Alive /\ r \in unwritten
  /\ unwritten' = unwritten \ {r}
  /\ \/ /\ history' = [history EXCEPT ![jobOf[r]] = Newest(<<r>> \o @)]
        /\ UNCHANGED hub
     \/ /\ Say(r, "succeeded")
        /\ history' \in {history,
                         [history EXCEPT ![jobOf[r]] = Newest(<<r>> \o @)]}
  /\ UNCHANGED <<calm, lifeVars, asked, exitVars>>

\* Runs.Stop(r) on a run that is not terminal: queued runs are killed,
\* except one whose process is being started; that one and a running one
\* are told to stop.
StopRun(r) ==
  \/ /\ state[r] = "queued" /\ Ends(r, "killed")
  \/ /\ \/ state[r] = "queued" /\ active[jobOf[r]] = r
        \/ state[r] = "running"
     /\ asked' = asked \cup {r}
     /\ UNCHANGED <<lifeVars, hub, unwritten>>

\* POST /api/v1/runs/{id}/stop names any run.
Stop(r) ==
  /\ phase = "up" /\ StopRun(r)
  /\ UNCHANGED <<calm, history, exitVars>>

\* kill stops the newest run of a job that is not terminal: the one that
\* waits, if there is one, and not the one that is running.  (Stop(r) covers
\* a run that has moved on since kill has listed the runs.)
LegacyKill(j) ==
  /\ phase = "up"
  /\ LET r == IF pending[j] # NoRun THEN pending[j] ELSE active[j]
     IN r # NoRun /\ StopRun(r)
  /\ UNCHANGED <<calm, history, exitVars>>
-----------------------------------------------------------------------------
(***************************************************************************)
(* Event streams: handleV1Events and legacyStream.                         *)
(***************************************************************************)
still == <<jobVars, reg, req, lifeVars, asked, historyVars, exitVars, ghostVars>>

\* A client of API v1 (re)connects with the last identifier it has read; a
\* slot used by a compatibility stream before is a new client.
StreamOpen(s) ==
  /\ phase = "up" /\ ~hub.subs[s].open
  /\ hub' = Subscribe(hub, s, IF follows[s] = NoRun THEN hub.subs[s].last ELSE 0)
  /\ follows' = [follows EXCEPT ![s] = NoRun]
  /\ UNCHANGED still

\* legacyStream follows the newest run of a job from the start of the window.
FollowOpen(s) ==
  /\ phase = "up" /\ ~hub.subs[s].open
  /\ hub' = Subscribe(hub, s, 0)
  /\ \E r \in Runs : jobOf[r] # NoJob /\ follows' = [follows EXCEPT ![s] = r]
  /\ UNCHANGED still

\* The event that ends a compatibility stream.
Final(e, s) == e.run = follows[s] /\ e.final

StreamRead(s) ==
  /\ Alive /\ hub.subs[s].chan # << >>
  /\ hub' = IF Final(Head(hub.subs[s].chan), s)
            THEN Unsubscribe(Deliver(hub, s), s)
            ELSE Deliver(hub, s)
  /\ UNCHANGED <<still, follows>>

\* The client goes away.
StreamClose(s) ==
  /\ Alive /\ hub.subs[s].open
  /\ hub' = Unsubscribe(hub, s)
  /\ UNCHANGED <<still, follows>>
-----------------------------------------------------------------------------
(***************************************************************************)
(* The end of main(): server.Shutdown, then App.Close, under one deadline; *)
(* and the end of the process without it.  A deadline passes only while    *)
(* something is waited for.                                                *)
(***************************************************************************)
inert == <<jobVars, reg, req, streamVars, ghostVars>>

InFlight(ops) ==
  \E q \in Requests : req[q].op \in ops /\ req[q].step # "done"

\* SIGTERM: the listener is closed.
Terminate ==
  /\ phase = "up" /\ phase' = "draining"
  /\ UNCHANGED <<inert, lifeVars, asked, historyVars, late, toStop, restarts>>

\* No handler runs, event streams included.
Idle ==
  /\ ~InFlight(Ops \ {"fire"})
  /\ \A s \in Subscribers : ~hub.subs[s].open

\* The 20 s are over.
Deadline ==
  /\ ~late /\ late' = TRUE
  /\ \/ phase = "draining" /\ ~Idle
     \/ phase = "stopping" /\ \E r \in toStop : state[r] = "running"
  /\ UNCHANGED <<inert, lifeVars, asked, historyVars, phase, toStop, restarts>>

LiveRuns == {r \in Runs : Life!Live(r)}

\* Mutant: the runs are listed while a callback is still starting one.
TriggersClosedEarly ==
  /\ phase = "draining" /\ phase' = "stopping"
  /\ late \/ Idle
  /\ toStop' = LiveRuns
  /\ UNCHANGED <<inert, lifeVars, asked, historyVars, late, restarts>>

\* server.Shutdown has returned, because all handlers have or because the
\* deadline has passed; Scheduler.Close and Watches.Close have waited for
\* their callbacks; App.Close lists the runs that are not terminal.
TriggersClosed ==
  /\ phase = "draining" /\ phase' = "stopping"
  /\ late \/ Idle
  /\ ~InFlight({"fire"})
  /\ toStop' = LiveRuns
  /\ UNCHANGED <<inert, lifeVars, asked, historyVars, late, restarts>>

\* App.Close stops one of the listed runs and waits for a running one to
\* end; after the deadline handle.Stop may return without having told it.
CloseRun(r) ==
  /\ phase = "stopping" /\ r \in toStop
  /\ \/ /\ Life!Live(r) /\ r \notin asked /\ StopRun(r)
        /\ toStop' = IF state[r] = "queued" THEN toStop \ {r} ELSE toStop
     \/ /\ ~Life!Live(r) \/ (r \in asked /\ state[r] = "queued") \/ late
        /\ toStop' = toStop \ {r}
        /\ UNCHANGED <<lifeVars, hub, unwritten, asked>>
  /\ UNCHANGED <<jobVars, reg, req, follows, ghostVars, history, phase, late,
                 restarts>>

\* main returns.
Exit ==
  /\ phase = "stopping" /\ toStop = {}
  /\ phase' = "down"
  /\ UNCHANGED <<inert, lifeVars, asked, historyVars, late, toStop, restarts>>

\* The process starts again after it has returned or was killed:
\* NewProductionApp reads the repository and reconciles; no run is known.
Restart ==
  /\ restarts < MaxRestarts
  /\ restarts' = restarts + 1
  /\ phase' = "up" /\ late' = FALSE /\ toStop' = {}
  /\ reg' = Listed
  /\ req' = [q \in Requests |-> IF req[q].step = "new" THEN req[q]
                                ELSE [NewRequest EXCEPT !.step = "done"]]
  /\ state' = [r \in Runs |-> IF state[r] = "none" THEN "none" ELSE "ended"]
  /\ jobOf' = [r \in Runs |-> NoJob]
  /\ active' = [j \in Jobs |-> NoRun] /\ pending' = [j \in Jobs |-> NoRun]
  /\ asked' = {} /\ unwritten' = {}
  /\ hub' = RestartedHub(hub)
  /\ UNCHANGED <<jobVars, history, follows, ghostVars>>
-----------------------------------------------------------------------------
Handler(q) ==
  /\ Alive
  /\ \/ Put(q) \/ LegacyPutRead(q) \/ LegacyToggleRead(q) \/ LegacyCloneRead(q)
     \/ Update(q) \/ Create(q) \/ List(q) \/ Apply(q)
     \/ V1DeleteCheck(q) \/ LegacyDeleteCheck(q) \/ Delete(q) \/ Purge(q)
     \/ V1RunRead(q) \/ LegacyRunRead(q) \/ TriggerRead(q) \/ Reserve(q)

RunStep(r) == RunStarts(r) \/ LogLine(r) \/ RunEnds(r) \/ Record(r) \/ Stop(r)

Stream(s) == StreamOpen(s) \/ FollowOpen(s) \/ StreamRead(s) \/ StreamClose(s)

Shutdown ==
  \/ Terminate \/ Deadline \/ TriggersClosed
  \/ (\E r \in Runs : CloseRun(r)) \/ Exit \/ Restart

Next ==
  \/ \E q \in Requests : Handler(q)
  \/ \E r \in Runs : RunStep(r)
  \/ \E j \in Jobs : LegacyKill(j)
  \/ \E s \in Subscribers : Stream(s)
  \/ Shutdown

Spec == Init /\ [][Next]_vars
-----------------------------------------------------------------------------
(***************************************************************************)
(* Properties                                                              *)
(***************************************************************************)
\* A toggle that is acknowledged inverts the switch in force at that moment
\* and a compatibility PUT leaves it alone, although both computed the new
\* value from a job they read earlier and other writers came in between.
\* (legacyToggle, handleLegacyJobByID: Update under the revision read)
SwitchKept ==
  \A q \in Requests :
    req[q].step = "update" /\ req'[q].step = "list" =>
      LET j == req[q].job IN
      on'[j] = IF req[q].op = "legacyToggle" THEN ~on[j] ELSE on[j]

SwitchIsExact == [][SwitchKept]_vars

\* What a DELETE leaves behind is what overlapped it: a live run of a deleted
\* job was being started while the DELETE was between its check and the
\* deletion, and a record in a purged history belongs to such a run or to
\* one whose record was still to be written at the check.  The check and the
\* deletion are not one step, so neither can be excluded.
\* (jobHasActiveRun, Delete, removeHistory)
DeleteIsClean ==
  /\ \A r \in Runs : Life!Live(r) /\ jobOf[r] \in deleted => r \in raced
  /\ \A j \in purged : \A n \in 1..Len(history[j]) : history[j][n] \in raced

\* When main returns within its deadline no run was overlooked: each that is
\* still alive has been told to stop, also one that a trigger or a handler
\* was starting when the signal came.  (order of server.Shutdown,
\* Scheduler.Close, Watches.Close and the stops; past the deadline, which an
\* open event stream is enough to reach, it does not hold)
ExitLeavesNothing ==
  phase = "down" /\ ~late => \A r \in Runs : Life!Live(r) => r \in asked

\* A client that reconnects with the last identifier it has read sees every
\* event once and in order, unless the window or its channel overflowed or
\* the process was restarted; even then its channel holds the newest events
\* without a gap.  A compatibility stream that missed nothing still has the
\* end of its run before it, so it ends.  (replay and registration in one
\* section of Subscribe, identifiers that start again with the process)
ResumeIsSeamless ==
  \A s \in Subscribers :
    LET sub == hub.subs[s] IN
    /\ \A m, n \in 1..Len(sub.chan) : m < n => sub.chan[m].id < sub.chan[n].id
    /\ sub.open /\ ~sub.lost =>
         \A n \in 1..Len(sub.chan) :
           sub.chan[n].id + Len(sub.chan) = hub.eventID + n
    /\ sub.open /\ sub.sawAll =>
         /\ sub.last + Len(sub.chan) = hub.eventID
         /\ follows[s] # NoRun /\ state[follows[s]] = "ended" =>
              \E n \in 1..Len(sub.chan) : Final(sub.chan[n], s)
=============================================================================
