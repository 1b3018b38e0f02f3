----------------------------- MODULE AppProofs -----------------------------
(***************************************************************************)
(* Proofs about App for any jobs, requests, runs and clients.  The         *)
(* inductive invariant has one part per concern; each part is preserved    *)
(* given the first two.  The last section is about SystemService, which    *)
(* App holds in its field System.                                          *)
(***************************************************************************)
EXTENDS App, SystemService, FiniteSetTheorems, SequenceTheorems, TLAPS

\* What a handler has read, and how far the job may have moved on since.
AskedOK(q) ==
  LET me == req[q]
      j  == req[q].job
  IN
  /\ me.step \notin {"new", "done"} => me.op \in Ops
  /\ me.step \in {"update", "delete", "purge", "reserve"} => j \in Jobs
  /\ me.step \in {"update", "delete"} => me.rev > 0
  /\ me.step = "purge" => j \in deleted
  /\ me.step = "update" =>
       /\ me.rev <= rev[j] \/ j \in deleted
       /\ rev[j] = me.rev =>
            (me.on <=> IF me.op = "legacyToggle" THEN ~on[j] ELSE on[j])

JobsInv ==
  /\ rev \in Registry /\ on \in [Jobs -> BOOLEAN] /\ deleted \subseteq Jobs
  /\ reg \in Registry
  /\ req \in [Requests -> Request]
  /\ \A j \in deleted : rev[j] = 0
  /\ \A q \in Requests : AskedOK(q)

\* The slots of a job hold two different live runs of that job.
RunsInv ==
  /\ Life!TypeOK
  /\ \A r \in Runs : Life!Live(r) => jobOf[r] \in Jobs
  /\ \A j \in Jobs :
       /\ active[j] # NoRun => Life!Live(active[j]) /\ jobOf[active[j]] = j
       /\ pending[j] # NoRun => /\ Life!Live(pending[j]) /\ jobOf[pending[j]] = j
                                /\ pending[j] # active[j]

\* A run that is alive, or still to be recorded, and whose job is gone or
\* about to go.
Doomed(j) ==
  j \in deleted \/ \E q \in Requests : req[q].step = "delete" /\ req[q].job = j

DeleteInv ==
  /\ unwritten \subseteq Runs /\ history \in [Jobs -> Seq(Runs)]
  /\ \A j \in Jobs : Len(history[j]) <= HistKeep
  /\ raced \subseteq Runs /\ purged \subseteq Jobs
  /\ purged \subseteq deleted
  /\ \A r \in Runs :
       (Life!Live(r) \/ r \in unwritten) /\ Doomed(jobOf[r]) => r \in raced
  /\ \A j \in purged : \A n \in 1..Len(history[j]) : history[j][n] \in raced

\* Once the runs to stop are listed nobody is left to start another.
ExitInv ==
  /\ asked \subseteq Runs
  /\ phase \in {"up", "draining", "stopping", "down"}
  /\ late \in BOOLEAN /\ toStop \subseteq Runs /\ restarts \in 0..MaxRestarts
  /\ phase = "down" => toStop = {}
  /\ phase \in {"stopping", "down"} /\ ~late =>
       /\ \A q \in Requests : req[q].step \in {"new", "done"}
       /\ \A r \in Runs : Life!Live(r) => r \in asked \cup toStop

\* The window holds the newest events up to id, numbered without a gap.
WindowOK(id, evs) ==
  /\ Len(evs) <= id
  /\ \A n \in 1..Len(evs) : evs[n].id + Len(evs) = id + n

\* What the channel of a client holds, and which identifier it has read, when
\* id is the last one that was given.
ClientOK(id, sub) ==
  /\ ~sub.open => sub.chan = << >>
  /\ \A n \in 1..Len(sub.chan) : sub.chan[n].id <= id
  /\ \A m, n \in 1..Len(sub.chan) : m < n => sub.chan[m].id < sub.chan[n].id
  /\ sub.open /\ ~sub.lost =>
       \A n \in 1..Len(sub.chan) : sub.chan[n].id + Len(sub.chan) = id + n
  /\ sub.open /\ sub.sawAll => ~sub.lost /\ sub.last + Len(sub.chan) = id
  /\ sub.sawAll => sub.last <= id

HubOK(h) ==
  /\ h \in Hub
  /\ WindowOK(h.eventID, h.events)
  /\ \A s \in Subscribers : ClientOK(h.eventID, h.subs[s])

\* The events evs tell that run r has ended.
Tells(evs, r) == \E n \in 1..Len(evs) : evs[n].run = r /\ evs[n].final

\* The end of a run is in the window until the window has overflowed, and in
\* the channel of a client that follows the run and has missed nothing.
EndsTold ==
  /\ Len(hub.events) = hub.eventID =>
       \A r \in Runs : state[r] = "ended" /\ jobOf[r] # NoJob =>
                         Tells(hub.events, r)
  /\ \A s \in Subscribers :
       /\ hub.subs[s].open /\ hub.subs[s].sawAll
       /\ follows[s] # NoRun /\ state[follows[s]] = "ended"
       => Tells(hub.subs[s].chan, follows[s])

StreamsInv ==
  HubOK(hub) /\ follows \in [Subscribers -> Runs \cup {NoRun}] /\ EndsTold

AppInv == JobsInv /\ RunsInv /\ DeleteInv /\ ExitInv /\ StreamsInv
-----------------------------------------------------------------------------
(***************************************************************************)
(* Jobs and what the handlers have read of them.                           *)
(***************************************************************************)
LEMMA NewRequestFields ==
  /\ NewRequest \in Request
  /\ NewRequest.op = "none" /\ NewRequest.step = "new"
<1>1. 0 \in 0..MaxRevision /\ NoList \in Registry
  BY AppAssumption DEF NoList, Registry
<1> QED BY <1>1 DEF NewRequest, Request, Steps

\* A request that has come to its end, and one that has its triggers to
\* reconcile, remember nothing of a job.
Finished == [NewRequest EXCEPT !.step = "done"]
Reconciling == [NewRequest EXCEPT !.op = "reconcile", !.step = "list"]

LEMMA FinishedFields ==
  /\ Finished \in Request /\ Finished.step = "done"
  /\ Reconciling \in Request /\ Reconciling.step = "list"
  /\ Reconciling.op = "reconcile"
<1>1. NewRequest \in Request /\ NewRequest \in [op : Ops \cup {"none"}, step : Steps,
            job : Jobs \cup {NoJob}, rev : 0..MaxRevision, on : BOOLEAN,
            jobs : Registry]
  BY NewRequestFields DEF Request
<1>2. "done" \in Steps /\ "list" \in Steps /\ "reconcile" \in Ops
  BY DEF Steps, Ops
<1> HIDE DEF NewRequest
<1> QED BY <1>1, <1>2 DEF Finished, Reconciling, Request

\* What a.Jobs.Get leaves with the request.
Reading(op, j, enabled, step) ==
  [NewRequest EXCEPT !.op = op, !.step = step, !.job = j, !.rev = rev[j],
                     !.on = enabled]

LEMMA ReadingFields ==
  ASSUME JobsInv, NEW op \in Ops, NEW j \in Jobs, NEW enabled \in BOOLEAN,
         NEW step \in Steps
  PROVE  LET me == Reading(op, j, enabled, step) IN
         /\ me \in Request
         /\ me.op = op /\ me.step = step /\ me.job = j /\ me.rev = rev[j]
         /\ me.on <=> enabled
<1>1. NewRequest \in [op : Ops \cup {"none"}, step : Steps,
            job : Jobs \cup {NoJob}, rev : 0..MaxRevision, on : BOOLEAN,
            jobs : Registry]
  BY NewRequestFields DEF Request
<1>2. rev[j] \in 0..MaxRevision
  BY DEF JobsInv, Registry
<1> QED BY <1>1, <1>2 DEF Reading, Request

\* A job is left alone, written under a greater revision, or gone.
JobsMove ==
  /\ deleted \subseteq deleted'
  /\ \A j \in Jobs : \/ rev'[j] = rev[j] /\ on'[j] = on[j]
                     \/ rev'[j] > rev[j]
                     \/ j \in deleted'

JobTypes ==
  /\ rev \in Registry /\ on \in [Jobs -> BOOLEAN] /\ deleted \subseteq Jobs
  /\ reg \in Registry
  /\ req \in [Requests -> Request]
  /\ \A j \in deleted : rev[j] = 0

\* Whatever the others do to a job, a request's knowledge of it stays sound.
LEMMA StillAsked ==
  ASSUME JobsInv, JobTypes', JobsMove, NEW q \in Requests, req'[q] = req[q]
  PROVE  AskedOK(q)'
<1> DEFINE me == req[q]
           j  == req[q].job
<1>1. me \in Request /\ AskedOK(q)
  BY DEF JobsInv
<1>2. me.step \in {"update", "delete", "purge", "reserve"} => j \in Jobs
  BY <1>1 DEF AskedOK
<1>3. ASSUME me.step = "update"
      PROVE  /\ me.rev <= rev'[j] \/ j \in deleted'
             /\ rev'[j] = me.rev =>
                  (me.on <=> IF me.op = "legacyToggle" THEN ~on'[j] ELSE on'[j])
  <2>1. j \in Jobs /\ me.rev > 0 /\ (me.rev <= rev[j] \/ j \in deleted)
    BY <1>1, <1>2, <1>3 DEF AskedOK
  <2>2. me.rev \in Nat /\ rev[j] \in Nat /\ rev'[j] \in Nat
    BY <1>1, <2>1 DEF JobsInv, JobTypes, Request, Registry
  <2>3. j \in deleted' => rev'[j] = 0
    BY DEF JobTypes
  <2>4. deleted \subseteq deleted'
    BY DEF JobsMove
  <2>5. CASE rev'[j] = rev[j] /\ on'[j] = on[j]
    <3>1. rev[j] = me.rev =>
            (me.on <=> IF me.op = "legacyToggle" THEN ~on[j] ELSE on[j])
      BY <1>1, <1>3 DEF AskedOK
    <3> HIDE DEF me, j
    <3> QED BY <2>1, <2>4, <2>5, <3>1
  <2>6. CASE rev'[j] > rev[j]
    BY <2>1, <2>2, <2>3, <2>4, <2>6
  <2>7. CASE j \in deleted'
    BY <2>1, <2>3, <2>7
  <2> QED BY <2>1, <2>5, <2>6, <2>7 DEF JobsMove
<1>4. me.step = "purge" => j \in deleted'
  BY <1>1 DEF AskedOK, JobsMove
<1> QED BY <1>1, <1>2, <1>3, <1>4 DEF AskedOK

\* One request steps.
LEMMA JobsStep ==
  ASSUME JobsInv, NEW q \in Requests, JobTypes', JobsMove, AskedOK(q)',
         \A p \in Requests \ {q} : req'[p] = req[p]
  PROVE  JobsInv'
<1>1. \A p \in Requests : AskedOK(p)'
  BY StillAsked
<1> QED BY <1>1 DEF JobsInv, JobTypes

LEMMA JobsSame ==
  ASSUME JobsInv, UNCHANGED jobVars, UNCHANGED reg, UNCHANGED req
  PROVE  JobsInv'
  BY DEF JobsInv, jobVars, AskedOK

\* The request ends, or goes on to reconcile.
LEMMA StepsOn ==
  ASSUME JobsInv, NEW q \in Requests, req' = Done(q) \/ ToReconcile(q)
  PROVE  /\ req' \in [Requests -> Request]
         /\ \A p \in Requests \ {q} : req'[p] = req[p]
         /\ req'[q].step \in {"done", "list"}
         /\ AskedOK(q)'
<1>1. PICK me \in {Finished, Reconciling} : req' = [req EXCEPT ![q] = me]
  BY DEF Done, ToReconcile, Finished, Reconciling
<1>2. me \in Request /\ me.step \in {"done", "list"}
      /\ (me.step = "list" => me.op = "reconcile")
  BY FinishedFields
<1>3. req'[q] = me /\ req \in [Requests -> Request]
  BY <1>1 DEF JobsInv
<1>4. AskedOK(q)'
  BY <1>2, <1>3 DEF AskedOK, Ops
<1> QED BY <1>1, <1>2, <1>3, <1>4

LEMMA GetAsks ==
  ASSUME JobsInv, NEW q \in Requests, NEW op \in Ops, NEW j \in Jobs,
         NEW enabled \in BOOLEAN, NEW step \in Steps, UNCHANGED jobVars,
         UNCHANGED reg, Get(q, op, j, enabled, step), step # "purge",
         step = "update" =>
           (enabled <=> IF op = "legacyToggle" THEN ~on[j] ELSE on[j])
  PROVE  /\ JobsInv'
         /\ req'[q].step = step /\ req'[q].job = j
         /\ \A p \in Requests \ {q} : req'[p] = req[p]
<1> DEFINE me == Reading(op, j, enabled, step)
<1>1. req' = [req EXCEPT ![q] = me] /\ rev[j] > 0
  BY DEF Get, Reading
<1>2. /\ me \in Request /\ me.op = op /\ me.step = step /\ me.job = j
      /\ me.rev = rev[j] /\ (me.on <=> enabled)
  BY ReadingFields
<1> HIDE DEF me
<1>3. req \in [Requests -> Request] /\ rev[j] \in Nat
  BY DEF JobsInv, Registry
<1>4. req' \in [Requests -> Request] /\ req'[q] = me
  BY <1>1, <1>2, <1>3
<1>5. AskedOK(q)'
  BY <1>1, <1>2, <1>3, <1>4 DEF AskedOK, jobVars
<1>6. JobTypes' /\ JobsMove
  BY <1>4 DEF JobsInv, JobTypes, JobsMove, jobVars
<1>7. \A p \in Requests \ {q} : req'[p] = req[p]
  BY <1>1, <1>3
<1> QED BY <1>2, <1>4, <1>5, <1>6, <1>7, JobsStep
LEMMA WriteMoves ==
  ASSUME JobsInv, NEW j \in Jobs, NEW enabled \in BOOLEAN, rev[j] > 0,
         Write(j, enabled), UNCHANGED reg, req' \in [Requests -> Request]
  PROVE  JobTypes' /\ JobsMove
<1>1. rev[j] \in Nat /\ MaxRevision \in Nat /\ rev[j] + 1 \in 0..MaxRevision
  BY AppAssumption DEF JobsInv, Registry, Write
<1>2. rev' \in Registry /\ on' \in [Jobs -> BOOLEAN] /\ deleted' = deleted
  BY <1>1 DEF JobsInv, Registry, Write
<1>3. j \notin deleted
  BY <1>1 DEF JobsInv
<1>4. /\ rev'[j] = rev[j] + 1
      /\ \A k \in Jobs \ {j} : rev'[k] = rev[k] /\ on'[k] = on[k]
  BY DEF JobsInv, Registry, Write
<1>5. JobTypes'
  BY <1>2, <1>3, <1>4 DEF JobsInv, JobTypes
<1> QED BY <1>1, <1>2, <1>4, <1>5 DEF JobsMove

LEMMA InsertMoves ==
  ASSUME JobsInv, NEW enabled \in BOOLEAN, Insert(enabled), UNCHANGED reg,
         req' \in [Requests -> Request]
  PROVE  JobTypes' /\ JobsMove
<1>1. PICK j \in Jobs \ deleted :
        /\ rev[j] = 0
        /\ rev' = [rev EXCEPT ![j] = 1]
        /\ on' = [on EXCEPT ![j] = enabled]
        /\ UNCHANGED deleted
  BY DEF Insert
<1>2. 1 \in 0..MaxRevision
  BY AppAssumption
<1>3. rev' \in Registry /\ on' \in [Jobs -> BOOLEAN]
  BY <1>1, <1>2 DEF JobsInv, Registry
<1>4. /\ rev'[j] = 1
      /\ \A k \in Jobs \ {j} : rev'[k] = rev[k] /\ on'[k] = on[k]
  BY <1>1 DEF JobsInv, Registry
<1>5. JobTypes'
  BY <1>1, <1>3, <1>4 DEF JobsInv, JobTypes
<1> QED BY <1>1, <1>4, <1>5 DEF JobsMove

LEMMA UpdateJobs ==
  ASSUME JobsInv, NEW q \in Requests, Put(q) \/ Update(q) \/ Create(q)
  PROVE  JobsInv'
<1>1. req' = Done(q) \/ ToReconcile(q)
  BY DEF Put, Update, Create
<1>2. /\ req' \in [Requests -> Request] /\ AskedOK(q)'
      /\ \A p \in Requests \ {q} : req'[p] = req[p]
  BY <1>1, StepsOn
<1>3. UNCHANGED reg
  BY DEF Put, Update, Create
<1>4. CASE UNCHANGED jobVars
  BY <1>2, <1>3, <1>4, JobsStep DEF JobsInv, JobTypes, JobsMove, jobVars
<1>5. CASE Put(q)
  <2>1. PICK j \in Jobs, enabled \in BOOLEAN : rev[j] > 0 /\ Write(j, enabled)
    BY <1>5 DEF Put
  <2> QED BY <1>2, <1>3, <2>1, WriteMoves, JobsStep
<1>6. ASSUME Update(q), ~UNCHANGED jobVars
      PROVE  JobsInv'
  <2> DEFINE j == req[q].job
  <2>1. req[q].step = "update" /\ rev[j] = req[q].rev /\ Write(j, req[q].on)
    BY <1>6 DEF Update
  <2>2. req[q] \in Request /\ AskedOK(q)
    BY DEF JobsInv
  <2>3. j \in Jobs /\ rev[j] > 0 /\ req[q].on \in BOOLEAN
    BY <2>1, <2>2 DEF AskedOK, Request
  <2> QED BY <1>2, <1>3, <2>1, <2>3, WriteMoves, JobsStep
<1>7. ASSUME Create(q), ~UNCHANGED jobVars
      PROVE  JobsInv'
  <2>1. PICK enabled \in BOOLEAN : Insert(enabled)
    BY <1>7 DEF Create
  <2> QED BY <1>2, <1>3, <2>1, InsertMoves, JobsStep
<1> QED BY <1>4, <1>5, <1>6, <1>7

LEMMA ListedType ==
  ASSUME JobsInv
  PROVE  Listed \in Registry
  BY AppAssumption DEF JobsInv, Listed, Registry

LEMMA ReconcileJobs ==
  ASSUME JobsInv, NEW q \in Requests, List(q) \/ Apply(q)
  PROVE  JobsInv'
<1>1. CASE List(q)
  <2> DEFINE me == [req[q] EXCEPT !.step = "apply", !.jobs = Listed]
  <2>1. req[q] \in Request /\ AskedOK(q) /\ req[q].step = "list"
    BY <1>1 DEF JobsInv, List
  <2>2. me \in Request /\ me.step = "apply" /\ me.op = req[q].op
    BY <2>1, ListedType DEF Request, Steps
  <2>3. req' = [req EXCEPT ![q] = me] /\ req \in [Requests -> Request]
    BY <1>1 DEF List, JobsInv
  <2> HIDE DEF me
  <2>4. req' \in [Requests -> Request] /\ req'[q] = me
    BY <2>2, <2>3
  <2>5. AskedOK(q)'
    BY <2>1, <2>2, <2>4 DEF AskedOK
  <2>6. JobTypes' /\ JobsMove
    BY <1>1, <2>4 DEF List, JobsInv, JobTypes, JobsMove, jobVars
  <2> QED BY <2>3, <2>5, <2>6, JobsStep
<1>2. CASE Apply(q)
  <2>1. req' = Done(q) /\ reg' \in {reg, req[q].jobs} /\ UNCHANGED jobVars
    BY <1>2 DEF Apply
  <2>2. req[q].jobs \in Registry
    BY DEF JobsInv, Request
  <2>3. /\ req' \in [Requests -> Request] /\ AskedOK(q)'
        /\ \A p \in Requests \ {q} : req'[p] = req[p]
    BY <2>1, StepsOn
  <2> QED BY <2>1, <2>2, <2>3, JobsStep DEF JobsInv, JobTypes, JobsMove, jobVars
<1> QED BY <1>1, <1>2

LEMMA DeleteJobs ==
  ASSUME JobsInv, NEW q \in Requests, Delete(q)
  PROVE  /\ JobsInv'
         /\ \A p \in Requests \ {q} : req'[p] = req[p]
         /\ req'[q].step # "delete"
         /\ deleted' = deleted \/ deleted' = deleted \cup {req[q].job}
         /\ req[q].job \in Jobs
<1> DEFINE j == req[q].job
<1>1. req[q] \in Request /\ AskedOK(q) /\ req[q].step = "delete"
  BY DEF JobsInv, Delete
<1>2. j \in Jobs
  BY <1>1 DEF AskedOK
<1>3. CASE req' = Done(q) /\ UNCHANGED jobVars
  <2>1. /\ req' \in [Requests -> Request] /\ AskedOK(q)'
        /\ \A p \in Requests \ {q} : req'[p] = req[p]
        /\ req'[q].step \in {"done", "list"}
    BY <1>3, StepsOn
  <2>2. UNCHANGED reg
    BY DEF Delete
  <2> QED BY <1>2, <1>3, <2>1, <2>2, JobsStep
          DEF JobsInv, JobTypes, JobsMove, jobVars
<1>4. CASE /\ rev' = [rev EXCEPT ![j] = 0]
           /\ on' = [on EXCEPT ![j] = FALSE]
           /\ deleted' = deleted \cup {j}
           /\ req' = [req EXCEPT ![q].step = "purge"] \/ ToReconcile(q)
  <2>1. /\ req' \in [Requests -> Request] /\ AskedOK(q)'
        /\ \A p \in Requests \ {q} : req'[p] = req[p]
        /\ req'[q].step # "delete"
    <3>1. CASE ToReconcile(q)
      BY <3>1, StepsOn
    <3>2. CASE req' = [req EXCEPT ![q].step = "purge"]
      <4> DEFINE me == [req[q] EXCEPT !.step = "purge"]
      <4>1. me \in Request /\ me.step = "purge" /\ me.op = req[q].op /\ me.job = j
        BY <1>1 DEF Request, Steps
      <4>2. req' = [req EXCEPT ![q] = me] /\ req \in [Requests -> Request]
        BY <3>2 DEF JobsInv
      <4> HIDE DEF me
      <4>3. req' \in [Requests -> Request] /\ req'[q] = me
        BY <4>1, <4>2
      <4>4. AskedOK(q)'
        BY <1>1, <1>2, <1>4, <4>1, <4>3 DEF AskedOK
      <4> QED BY <4>1, <4>2, <4>3, <4>4
    <3> QED BY <1>4, <3>1, <3>2
  <2>2. rev' \in Registry /\ on' \in [Jobs -> BOOLEAN] /\ reg' = reg
    <3>0. 0 \in 0..MaxRevision /\ rev \in [Jobs -> 0..MaxRevision]
      BY AppAssumption DEF JobsInv, Registry
    <3>1. rev' \in Registry
      BY <1>4, <3>0 DEF Registry
    <3>2. on' \in [Jobs -> BOOLEAN]
      BY <1>4 DEF JobsInv
    <3> QED BY <3>1, <3>2 DEF Delete
  <2>3. /\ rev'[j] = 0
        /\ \A k \in Jobs \ {j} : rev'[k] = rev[k] /\ on'[k] = on[k]
    BY <1>2, <1>4 DEF JobsInv, Registry
  <2>4. JobTypes'
    BY <1>2, <1>4, <2>1, <2>2, <2>3 DEF JobsInv, JobTypes
  <2>5. JobsMove
    BY <1>4, <2>3 DEF JobsMove
  <2>6. JobsInv'
    BY <2>1, <2>4, <2>5, JobsStep
  <2> QED BY <1>2, <1>4, <2>1, <2>6
<1> QED BY <1>3, <1>4 DEF Delete

LEMMA ReadJobs ==
  ASSUME JobsInv, NEW q \in Requests,
         \/ LegacyPutRead(q) \/ LegacyToggleRead(q) \/ LegacyCloneRead(q)
         \/ V1DeleteCheck(q) \/ LegacyDeleteCheck(q)
         \/ V1RunRead(q) \/ LegacyRunRead(q) \/ TriggerRead(q)
  PROVE  JobsInv'
<1> USE DEF Ops, Steps
<1>0. UNCHANGED jobVars /\ UNCHANGED reg /\ on \in [Jobs -> BOOLEAN]
  BY DEF LegacyPutRead, LegacyToggleRead, LegacyCloneRead, V1DeleteCheck,
         LegacyDeleteCheck, DeleteCheck, V1RunRead, LegacyRunRead, TriggerRead,
         JobsInv
<1>1. CASE LegacyPutRead(q)
  <2>1. PICK j \in Jobs : Get(q, "legacyPut", j, on[j], "update")
    BY <1>1 DEF LegacyPutRead
  <2> DEFINE enabled == on[j]
  <2>2. enabled \in BOOLEAN /\ (enabled <=> on[j])
    BY <1>0
  <2>3. Get(q, "legacyPut", j, enabled, "update")
    BY <2>1
  <2> HIDE DEF enabled
  <2> QED BY <1>0, <2>2, <2>3, GetAsks
<1>2. CASE LegacyToggleRead(q)
  <2>1. PICK j \in Jobs : Get(q, "legacyToggle", j, ~on[j], "update")
    BY <1>2 DEF LegacyToggleRead
  <2> DEFINE enabled == ~on[j]
  <2>2. enabled \in BOOLEAN /\ (enabled <=> ~on[j])
    BY <1>0
  <2>3. Get(q, "legacyToggle", j, enabled, "update")
    BY <2>1
  <2> HIDE DEF enabled
  <2> QED BY <1>0, <2>2, <2>3, GetAsks
<1>3. ASSUME \E j \in Jobs, op \in Ops, step \in {"create", "delete", "reserve"} :
               Get(q, op, j, FALSE, step)
      PROVE  JobsInv'
  <2>1. PICK j \in Jobs, op \in Ops, step \in {"create", "delete", "reserve"} :
          Get(q, op, j, FALSE, step)
    BY <1>3
  <2> QED BY <1>0, <2>1, GetAsks
<1> QED BY <1>1, <1>2, <1>3
        DEF LegacyCloneRead, V1DeleteCheck, LegacyDeleteCheck, DeleteCheck,
            V1RunRead, LegacyRunRead, TriggerRead
LEMMA RestartJobs ==
  ASSUME JobsInv, Restart
  PROVE  JobsInv' /\ \A q \in Requests : req'[q].step \in {"new", "done"}
<1>1. req' = [q \in Requests |-> IF req[q].step = "new" THEN req[q] ELSE Finished]
  BY DEF Restart, Finished
<1>2. UNCHANGED jobVars /\ reg' \in Registry
  BY ListedType DEF Restart
<1>3. req' \in [Requests -> Request]
  BY <1>1, FinishedFields DEF JobsInv
<1>4. \A q \in Requests : req'[q].step \in {"new", "done"}
  BY <1>1, FinishedFields
<1>5. \A q \in Requests : AskedOK(q)'
  BY <1>4 DEF AskedOK
<1> QED BY <1>2, <1>3, <1>4, <1>5 DEF JobsInv, jobVars

\* A handler that has nothing more to do with the job than what its request
\* remembers.
LEMMA PurgeReserveJobs ==
  ASSUME JobsInv, NEW q \in Requests, Purge(q) \/ Reserve(q)
  PROVE  JobsInv'
<1>1. /\ req' = Done(q) \/ ToReconcile(q)
      /\ UNCHANGED jobVars /\ UNCHANGED reg
  BY DEF Purge, Reserve
<1>2. /\ req' \in [Requests -> Request] /\ AskedOK(q)'
      /\ \A p \in Requests \ {q} : req'[p] = req[p]
  BY <1>1, StepsOn
<1> QED BY <1>1, <1>2, JobsStep DEF JobsInv, JobTypes, JobsMove, jobVars

\* Only handlers and a restart touch jobs, triggers and requests.
LEMMA OthersKeepJobs ==
  ASSUME [Next]_vars, ~\E q \in Requests : Handler(q), ~Restart
  PROVE  UNCHANGED jobVars /\ UNCHANGED reg /\ UNCHANGED req
<1>1. ASSUME NEW r \in Runs, RunStep(r)
      PROVE  UNCHANGED calm
  BY <1>1 DEF RunStep, RunStarts, LogLine, RunEnds, Record, Stop
<1>2. ASSUME NEW j \in Jobs, LegacyKill(j)
      PROVE  UNCHANGED calm
  BY <1>2 DEF LegacyKill
<1>3. ASSUME NEW s \in Subscribers, Stream(s)
      PROVE  UNCHANGED still
  BY <1>3 DEF Stream, StreamOpen, FollowOpen, StreamRead, StreamClose
<1>4. ASSUME Shutdown
      PROVE  UNCHANGED jobVars /\ UNCHANGED reg /\ UNCHANGED req
  BY <1>4 DEF Shutdown, Terminate, Deadline, TriggersClosed, CloseRun, Exit, inert
<1> QED BY <1>1, <1>2, <1>3, <1>4 DEF Next, vars, calm, still

LEMMA NextJobs == JobsInv /\ [Next]_vars => JobsInv'
<1> SUFFICES ASSUME JobsInv, [Next]_vars
             PROVE  JobsInv'
  OBVIOUS
<1>1. ASSUME NEW q \in Requests, Handler(q)
      PROVE  JobsInv'
  BY <1>1, UpdateJobs, ReconcileJobs, DeleteJobs, ReadJobs, PurgeReserveJobs
     DEF Handler
<1>2. CASE Restart
  BY <1>2, RestartJobs
<1> QED BY <1>1, <1>2, OthersKeepJobs, JobsSame

LEMMA InitJobs == Init => JobsInv
<1> SUFFICES ASSUME Init
             PROVE  JobsInv
  OBVIOUS
<1>1. 0 \in 0..MaxRevision /\ 1 \in 0..MaxRevision
  BY AppAssumption
<1>2. rev \in Registry /\ on \in [Jobs -> BOOLEAN] /\ deleted = {}
  BY <1>1 DEF Init, Registry
<1>3. reg \in Registry
  BY <1>1, <1>2 DEF Init, Registry, Listed
<1>4. \A q \in Requests : req[q] = NewRequest
  BY DEF Init
<1>5. req \in [Requests -> Request] /\ \A q \in Requests : req[q].step = "new"
  BY <1>4, NewRequestFields DEF Init
<1> QED BY <1>2, <1>3, <1>5 DEF JobsInv, AskedOK

\* A handler changes no request but its own.
LEMMA HandlerMovesOne ==
  ASSUME JobsInv, NEW q \in Requests, Handler(q)
  PROVE  \A p \in Requests \ {q} : req'[p] = req[p]
<1>1. req \in [Requests -> Request]
  BY DEF JobsInv
<1>2. ASSUME NEW op, NEW j, NEW enabled, NEW step, Get(q, op, j, enabled, step)
      PROVE  \A p \in Requests \ {q} : req'[p] = req[p]
  BY <1>1, <1>2 DEF Get
<1>3. ASSUME req' = Done(q) \/ ToReconcile(q)
      PROVE  \A p \in Requests \ {q} : req'[p] = req[p]
  BY <1>3, StepsOn
<1>4. CASE LegacyPutRead(q) \/ LegacyToggleRead(q) \/ LegacyCloneRead(q)
  BY <1>2, <1>4 DEF LegacyPutRead, LegacyToggleRead, LegacyCloneRead
<1>5. CASE V1DeleteCheck(q) \/ LegacyDeleteCheck(q)
  BY <1>2, <1>5 DEF V1DeleteCheck, LegacyDeleteCheck, DeleteCheck
<1>6. CASE V1RunRead(q) \/ LegacyRunRead(q) \/ TriggerRead(q)
  BY <1>2, <1>6 DEF V1RunRead, LegacyRunRead, TriggerRead
<1>7. CASE Put(q) \/ Update(q) \/ Create(q) \/ Apply(q) \/ Purge(q) \/ Reserve(q)
  BY <1>3, <1>7 DEF Put, Update, Create, Apply, Purge, Reserve
<1>8. CASE List(q)
  BY <1>1, <1>8 DEF List
<1>9. CASE Delete(q)
  BY <1>9, DeleteJobs
<1> QED BY <1>4, <1>5, <1>6, <1>7, <1>8, <1>9 DEF Handler

\* Acknowledged toggles and compatibility PUTs act on the switch in force.
\* (legacyToggle, handleLegacyJobByID)
THEOREM SwitchesAreExact == Spec => SwitchIsExact
<1>1. ASSUME JobsInv, Next
      PROVE  SwitchKept
  <2> SUFFICES ASSUME NEW q \in Requests, req[q].step = "update",
                      req'[q].step = "list"
               PROVE  on'[req[q].job] = IF req[q].op = "legacyToggle"
                                        THEN ~on[req[q].job] ELSE on[req[q].job]
    BY DEF SwitchKept
  <2> DEFINE j == req[q].job
  <2>1. req[q] \in Request /\ AskedOK(q) /\ j \in Jobs
    BY <1>1 DEF JobsInv, AskedOK
  <2>2. Handler(q)
    <3>1. ~Restart
      BY <1>1, RestartJobs
    <3>2. PICK p \in Requests : Handler(p)
      BY <1>1, <3>1, OthersKeepJobs
    <3> QED BY <1>1, <3>2, HandlerMovesOne
  <2>3. Update(q)
    BY <2>2 DEF Handler, Put, Arrives, LegacyPutRead, LegacyToggleRead,
                LegacyCloneRead, V1DeleteCheck, LegacyDeleteCheck, DeleteCheck,
                V1RunRead, LegacyRunRead, TriggerRead, Get, Create, List, Apply,
                Delete, Purge, Reserve
  <2>4. req' # Done(q)
    BY <1>1, FinishedFields DEF Done, Finished, JobsInv
  <2>5. rev[j] = req[q].rev /\ on' = [on EXCEPT ![j] = req[q].on]
    BY <2>3, <2>4 DEF Update, Write
  <2>6. req[q].on <=> IF req[q].op = "legacyToggle" THEN ~on[j] ELSE on[j]
    BY <2>1, <2>5 DEF AskedOK
  <2>7. on'[j] = req[q].on /\ on[j] \in BOOLEAN /\ req[q].on \in BOOLEAN
    BY <1>1, <2>1, <2>5 DEF JobsInv, Request
  <2>8. ASSUME NEW was \in BOOLEAN, NEW is \in BOOLEAN, NEW toggle,
               is <=> IF toggle = "legacyToggle" THEN ~was ELSE was
        PROVE  is = IF toggle = "legacyToggle" THEN ~was ELSE was
    BY <2>8
  <2> QED BY <2>6, <2>7, <2>8, Zenon
<1>2. JobsInv /\ [Next]_vars => [SwitchKept]_vars
  BY <1>1
<1> QED BY <1>2, InitJobs, NextJobs, PTL DEF Spec, SwitchIsExact
-----------------------------------------------------------------------------
(***************************************************************************)
(* Runs.                                                                   *)
(***************************************************************************)
LEMMA StartRuns ==
  ASSUME RunsInv, NEW r \in Runs, NEW j \in Jobs, Life!Start(r, j)
  PROVE  /\ RunsInv'
         /\ state[r] = "none" /\ jobOf'[r] = j
         /\ \A p \in Runs \ {r} : /\ jobOf'[p] = jobOf[p]
                                  /\ Life!Live(p)' => Life!Live(p)
<1> USE DEF Life!TypeOK, Life!Live, Life!Reserve
<1>0. r # NoRun /\ NoRun \notin Runs
  BY AppAssumption
<1>1. CASE Life!Skip(r, j)
  BY <1>0, <1>1 DEF RunsInv, Life!Skip
<1>2. CASE Life!Queue(r, j)
  BY <1>0, <1>2 DEF RunsInv, Life!Queue
<1>3. CASE Life!Replace(r, j)
  <2>1. /\ pending[j] \in Runs /\ pending[j] # r /\ state[r] = "none"
        /\ state' = [state EXCEPT ![pending[j]] = "ended", ![r] = "queued"]
        /\ pending' = [pending EXCEPT ![j] = r] /\ active' = active
        /\ jobOf' = [jobOf EXCEPT ![r] = j] /\ active[j] # NoRun
    BY <1>3 DEF RunsInv, Life!Replace
  <2>2. state' \in [Runs -> {"none", "queued", "running", "ended"}]
        /\ state'[r] = "queued" /\ state'[pending[j]] = "ended"
        /\ \A p \in Runs \ {r, pending[j]} : state'[p] = state[p]
    BY <2>1 DEF RunsInv
  <2> QED BY <1>0, <2>1, <2>2 DEF RunsInv
<1>4. CASE Life!Activate(r, j)
  BY <1>0, <1>4 DEF RunsInv, Life!Activate
<1> QED BY <1>1, <1>2, <1>3, <1>4 DEF Life!Start

LEMMA RunRuns ==
  ASSUME RunsInv, NEW r \in Runs, Life!Run(r)
  PROVE  RunsInv'
  BY AppAssumption DEF RunsInv, Life!Run, Life!TypeOK, Life!Live

LEMMA EndRuns ==
  ASSUME RunsInv, NEW r \in Runs, Life!End(r)
  PROVE  /\ RunsInv'
         /\ Life!Live(r) /\ ~Life!Live(r)'
         /\ UNCHANGED jobOf
         /\ \A p \in Runs \ {r} : state'[p] = state[p]
<1> USE DEF Life!TypeOK, Life!Live
<1> DEFINE j == jobOf[r]
<1>1. /\ j \in Jobs /\ Life!Live(r) /\ state' = [state EXCEPT ![r] = "ended"]
      /\ jobOf' = jobOf
  BY DEF RunsInv, Life!End
<1>2. /\ state' \in [Runs -> {"none", "queued", "running", "ended"}]
      /\ state'[r] = "ended" /\ \A p \in Runs \ {r} : state'[p] = state[p]
  BY <1>1 DEF RunsInv
<1>3. CASE /\ active[j] = r
           /\ active' = [active EXCEPT ![j] = pending[j]]
           /\ pending' = [pending EXCEPT ![j] = NoRun]
  BY <1>1, <1>2, <1>3, AppAssumption DEF RunsInv
<1>4. CASE /\ active[j] # r /\ active' = active
           /\ pending' = [pending EXCEPT ![j] = NoRun]
  BY <1>1, <1>2, <1>4, AppAssumption DEF RunsInv
<1> QED BY <1>3, <1>4 DEF Life!End

\* Apart from a restart, the runs move the way RunLifecycle says.
LEMMA RunMoves ==
  ASSUME JobsInv, RunsInv, [Next]_vars
  PROVE  \/ UNCHANGED lifeVars
         \/ \E r \in Runs, j \in Jobs : Life!Start(r, j)
         \/ \E r \in Runs : Life!Run(r) \/ Life!End(r)
         \/ Restart
<1>1. ASSUME NEW r \in Runs, StopRun(r)
      PROVE  UNCHANGED lifeVars \/ Life!End(r)
  BY <1>1 DEF StopRun, Ends
<1>2. ASSUME NEW q \in Requests, Reserve(q)
      PROVE  \E r \in Runs, j \in Jobs : Life!Start(r, j)
  <2>1. req[q].job \in Jobs
    BY <1>2 DEF Reserve, JobsInv, AskedOK
  <2> QED BY <1>2, <2>1 DEF Reserve
<1>3. ASSUME NEW q \in Requests, Handler(q), ~Reserve(q)
      PROVE  UNCHANGED lifeVars
  BY <1>3 DEF Handler, Put, LegacyPutRead, LegacyToggleRead, LegacyCloneRead,
              Update, Create, List, Apply, V1DeleteCheck, LegacyDeleteCheck,
              DeleteCheck, Delete, Purge, V1RunRead, LegacyRunRead, TriggerRead,
              quiet
<1>4. ASSUME NEW r \in Runs, RunStep(r)
      PROVE  UNCHANGED lifeVars \/ Life!Run(r) \/ Life!End(r)
  BY <1>1, <1>4 DEF RunStep, RunStarts, LogLine, RunEnds, Ends, Record, Stop
<1>5. ASSUME NEW j \in Jobs, LegacyKill(j)
      PROVE  UNCHANGED lifeVars \/ \E r \in Runs : Life!End(r)
  <2>1. PICK r \in Runs : StopRun(r)
    BY <1>5 DEF LegacyKill, RunsInv, Life!TypeOK
  <2> QED BY <1>1, <2>1
<1>6. ASSUME NEW s \in Subscribers, Stream(s)
      PROVE  UNCHANGED lifeVars
  BY <1>6 DEF Stream, StreamOpen, FollowOpen, StreamRead, StreamClose, still
<1>7. ASSUME Shutdown, ~Restart
      PROVE  UNCHANGED lifeVars \/ \E r \in Runs : Life!End(r)
  BY <1>1, <1>7 DEF Shutdown, Terminate, Deadline, TriggersClosed, CloseRun, Exit
<1> QED BY <1>2, <1>3, <1>4, <1>5, <1>6, <1>7 DEF Next, vars

LEMMA RunsSame ==
  ASSUME RunsInv, UNCHANGED lifeVars
  PROVE  RunsInv'
  BY DEF RunsInv, lifeVars, Life!TypeOK, Life!Live

LEMMA RestartRuns ==
  ASSUME RunsInv, Restart
  PROVE  /\ RunsInv'
         /\ \A r \in Runs : ~Life!Live(r)' /\ jobOf'[r] = NoJob
  BY DEF RunsInv, Restart, Life!TypeOK, Life!Live

LEMMA NextRuns == JobsInv /\ RunsInv /\ [Next]_vars => RunsInv'
  BY RunMoves, StartRuns, RunRuns, EndRuns, RestartRuns, RunsSame

LEMMA InitRuns == Init => RunsInv
  BY AppAssumption DEF Init, RunsInv, Life!Init, Life!TypeOK, Life!Live
-----------------------------------------------------------------------------
(***************************************************************************)
(* Deletions and the history file.                                         *)
(***************************************************************************)
\* No run comes to life, no record is left to write and no DELETE passes its
\* check.
NoneDoomed ==
  /\ unwritten' \subseteq Runs
  /\ \A r \in Runs : Life!Live(r)' \/ r \in unwritten' =>
       /\ Life!Live(r) \/ r \in unwritten
       /\ jobOf'[r] = jobOf[r]
  /\ \A j : Doomed(j)' => Doomed(j)

LEMMA NoneDoomedDelete ==
  ASSUME DeleteInv, NoneDoomed, deleted \subseteq deleted', UNCHANGED history,
         UNCHANGED ghostVars
  PROVE  DeleteInv'
<1>1. ASSUME NEW r \in Runs, Life!Live(r)' \/ r \in unwritten', Doomed(jobOf[r])'
      PROVE  r \in raced'
  <2>1. (Life!Live(r) \/ r \in unwritten) /\ jobOf'[r] = jobOf[r]
    BY <1>1 DEF NoneDoomed
  <2>2. Doomed(jobOf[r])
    BY <1>1, <2>1 DEF NoneDoomed, Doomed
  <2> QED BY <2>1, <2>2 DEF DeleteInv, ghostVars
<1> QED BY <1>1 DEF DeleteInv, NoneDoomed, ghostVars

\* Handlers that are not part of a DELETE and start no run.
LEMMA HandlerDoomsNone ==
  ASSUME JobsInv, NEW q \in Requests, UNCHANGED deleted,
         \A p \in Requests \ {q} : req'[p] = req[p],
         req'[q].step # "delete"
  PROVE  \A j : Doomed(j)' => Doomed(j)
  BY DEF Doomed

LEMMA OtherHandlerDelete ==
  ASSUME JobsInv, RunsInv, DeleteInv, NEW q \in Requests, Handler(q),
         ~V1DeleteCheck(q), ~LegacyDeleteCheck(q), ~Delete(q), ~Purge(q),
         ~Reserve(q)
  PROVE  DeleteInv'
<1>1. UNCHANGED quiet
  BY DEF Handler, Put, LegacyPutRead, LegacyToggleRead, LegacyCloneRead, Update,
         Create, List, Apply, V1RunRead, LegacyRunRead, TriggerRead
<1>2. UNCHANGED deleted
  BY DEF Handler, Put, LegacyPutRead, LegacyToggleRead, LegacyCloneRead, Update,
         Create, List, Apply, V1RunRead, LegacyRunRead, TriggerRead, Write,
         Insert, jobVars
<1>3. \A p \in Requests \ {q} : req'[p] = req[p]
  BY HandlerMovesOne
<1>4. req'[q].step # "delete"
  <2>1. ASSUME req' = Done(q) \/ ToReconcile(q)
        PROVE  req'[q].step # "delete"
    BY <2>1, StepsOn
  <2>2. CASE Put(q) \/ Update(q) \/ Create(q) \/ Apply(q)
    BY <2>1, <2>2 DEF Put, Update, Create, Apply
  <2>3. CASE List(q)
    <3>1. req'[q] = [req[q] EXCEPT !.step = "apply", !.jobs = Listed]
          /\ req[q] \in Request
      BY <2>3 DEF List, JobsInv
    <3> QED BY <3>1 DEF Request
  <2>4. ASSUME NEW op \in Ops, NEW j \in Jobs, NEW enabled \in BOOLEAN,
               NEW step \in Steps, step # "delete",
               Get(q, op, j, enabled, step)
        PROVE  req'[q].step # "delete"
    <3>1. req'[q] = Reading(op, j, enabled, step)
      BY <2>4 DEF Get, Reading, JobsInv
    <3> QED BY <2>4, <3>1, ReadingFields
  <2>5. CASE LegacyPutRead(q)
    <3>1. PICK j \in Jobs : Get(q, "legacyPut", j, on[j], "update")
      BY <2>5 DEF LegacyPutRead
    <3>2. on[j] \in BOOLEAN
      BY DEF JobsInv
    <3> QED BY <2>4, <3>1, <3>2 DEF Ops, Steps
  <2>6. CASE LegacyToggleRead(q)
    <3>1. PICK j \in Jobs : Get(q, "legacyToggle", j, ~on[j], "update")
      BY <2>6 DEF LegacyToggleRead
    <3> DEFINE enabled == ~on[j]
    <3>2. enabled \in BOOLEAN /\ Get(q, "legacyToggle", j, enabled, "update")
      BY <3>1
    <3> HIDE DEF enabled
    <3> QED BY <2>4, <3>2 DEF Ops, Steps
  <2>7. CASE LegacyCloneRead(q)
    BY <2>4, <2>7 DEF LegacyCloneRead, Ops, Steps
  <2>8. CASE V1RunRead(q) \/ LegacyRunRead(q) \/ TriggerRead(q)
    BY <2>4, <2>8 DEF V1RunRead, LegacyRunRead, TriggerRead, Ops, Steps
  <2> QED BY <2>2, <2>3, <2>5, <2>6, <2>7, <2>8 DEF Handler
<1>5. \A j : Doomed(j)' => Doomed(j)
  BY <1>2, <1>3, <1>4, HandlerDoomsNone
<1>6. NoneDoomed
  BY <1>1, <1>5 DEF quiet, lifeVars, historyVars, NoneDoomed, DeleteInv, Life!Live
<1> QED BY <1>1, <1>2, <1>6, NoneDoomedDelete DEF quiet, historyVars

\* The check of a DELETE: what is left of the job's runs is remembered.
LEMMA DeleteCheckDelete ==
  ASSUME JobsInv, RunsInv, DeleteInv, NEW q \in Requests,
         V1DeleteCheck(q) \/ LegacyDeleteCheck(q)
  PROVE  DeleteInv'
<1>1. PICK op \in Ops : DeleteCheck(q, op)
  BY DEF V1DeleteCheck, LegacyDeleteCheck, Ops
<1>2. PICK j \in Jobs :
        /\ Get(q, op, j, FALSE, "delete") /\ ~JobHasActiveRun(j)
        /\ raced' = raced \cup (RunsOf(j) \cap unwritten)
  BY <1>1 DEF DeleteCheck
<1>3. UNCHANGED <<jobVars, reg, lifeVars, historyVars, purged>>
  BY <1>1 DEF DeleteCheck
<1>4. /\ \A p \in Requests \ {q} : req'[p] = req[p]
      /\ req'[q].step = "delete" /\ req'[q].job = j
  BY <1>2, <1>3, GetAsks DEF Steps
<1>5. \A k : Doomed(k)' => k = j \/ Doomed(k)
  BY <1>3, <1>4 DEF Doomed, jobVars
<1>6. ASSUME NEW r \in Runs, Life!Live(r)' \/ r \in unwritten', Doomed(jobOf[r])'
      PROVE  r \in raced'
  <2>1. Life!Live(r) \/ r \in unwritten
    BY <1>3, <1>6 DEF Life!Live, lifeVars, historyVars
  <2>2. jobOf[r] = j \/ Doomed(jobOf[r])
    BY <1>3, <1>5, <1>6 DEF Doomed, lifeVars
  <2> QED BY <1>2, <2>1, <2>2 DEF DeleteInv, JobHasActiveRun, RunsOf
<1>7. raced \subseteq raced' /\ raced' \subseteq Runs
  BY <1>2 DEF DeleteInv, RunsOf
<1> QED BY <1>3, <1>6, <1>7 DEF DeleteInv, jobVars, historyVars

LEMMA DeleteDelete ==
  ASSUME JobsInv, DeleteInv, NEW q \in Requests, Delete(q)
  PROVE  DeleteInv'
<1>1. /\ \A p \in Requests \ {q} : req'[p] = req[p]
      /\ req'[q].step # "delete"
      /\ deleted' = deleted \/ deleted' = deleted \cup {req[q].job}
  BY DeleteJobs
<1>2. req[q].step = "delete" /\ UNCHANGED quiet
  BY DEF Delete
<1>3. \A j : Doomed(j)' => Doomed(j)
  BY <1>1, <1>2 DEF Doomed
<1>4. NoneDoomed
  BY <1>2, <1>3 DEF quiet, lifeVars, historyVars, NoneDoomed, DeleteInv, Life!Live
<1> QED BY <1>1, <1>2, <1>4, NoneDoomedDelete DEF quiet, historyVars

LEMMA PurgeDelete ==
  ASSUME JobsInv, DeleteInv, NEW q \in Requests, Purge(q)
  PROVE  DeleteInv'
<1> DEFINE j == req[q].job
<1>1. j \in deleted /\ deleted \subseteq Jobs /\ ToReconcile(q)
  BY DEF JobsInv, AskedOK, Purge
<1>2. UNCHANGED <<jobVars, lifeVars, unwritten, raced>>
  BY DEF Purge
<1>3. /\ \A p \in Requests \ {q} : req'[p] = req[p]
      /\ req'[q].step # "delete"
  BY <1>1, StepsOn
<1>4. \A k : Doomed(k)' => Doomed(k)
  BY <1>2, <1>3, HandlerDoomsNone DEF jobVars
<1>5. \A r \in Runs : (Life!Live(r) \/ r \in unwritten) /\ Doomed(jobOf[r])
                        => r \in raced
  BY DEF DeleteInv
<1>6. ASSUME NEW r \in Runs, Life!Live(r)' \/ r \in unwritten', Doomed(jobOf[r])'
      PROVE  r \in raced'
  BY <1>2, <1>4, <1>5, <1>6 DEF Life!Live, lifeVars, Doomed
<1>7. CASE UNCHANGED <<history, purged>>
  BY <1>2, <1>6, <1>7 DEF DeleteInv, jobVars
<1>8. ASSUME \A k \in Jobs : history'[k] = << >> \/ (k # j /\ history'[k] = history[k]),
             history' \in [Jobs -> Seq(Runs)], purged' = purged \cup {j}
      PROVE  DeleteInv'
  <2>1. Len(<< >>) = 0 /\ HistKeep \in Nat
    BY AppAssumption
  <2>2. purged' \subseteq deleted' /\ deleted' = deleted
    BY <1>1, <1>2, <1>8 DEF DeleteInv, jobVars
  <2>3. \A k \in Jobs : Len(history'[k]) <= HistKeep
    BY <1>8, <2>1 DEF DeleteInv
  <2>4. ASSUME NEW k \in purged', NEW n \in 1..Len(history'[k])
        PROVE  history'[k][n] \in raced'
    <3>1. k \in Jobs
      BY <1>1, <2>2, <2>4
    <3>2. history'[k] # << >>
      BY <2>1, <2>4
    <3>3. k \in purged /\ history'[k] = history[k]
      BY <1>8, <3>1, <3>2
    <3> QED BY <1>2, <2>4, <3>3 DEF DeleteInv
  <2> QED BY <1>1, <1>2, <1>6, <2>2, <2>3, <2>4, <1>8 DEF DeleteInv
<1>9. CASE history' = [history EXCEPT ![j] = << >>] /\ purged' = purged \cup {j}
  <2>1. history' \in [Jobs -> Seq(Runs)]
    BY <1>9, EmptySeq DEF DeleteInv
  <2>2. \A k \in Jobs : history'[k] = << >> \/ (k # j /\ history'[k] = history[k])
    BY <1>9 DEF DeleteInv
  <2> HIDE DEF j
  <2> QED BY <1>8, <1>9, <2>1, <2>2
<1>10. CASE history' = [k \in Jobs |-> << >>] /\ purged' = purged \cup {j}
  <2>1. history' \in [Jobs -> Seq(Runs)]
    BY <1>10, EmptySeq
  <2>2. \A k \in Jobs : history'[k] = << >>
    BY <1>10
  <2> HIDE DEF j
  <2> QED BY <1>8, <1>10, <2>1, <2>2
<1> QED BY <1>7, <1>9, <1>10 DEF Purge
\* The runs that a step ends.
Ended == {p \in Runs : state[p] # "ended" /\ state'[p] = "ended"}

LEMMA StartEnds ==
  ASSUME RunsInv, NEW r \in Runs, NEW j \in Jobs, Life!Start(r, j)
  PROVE  /\ r \in Ended => Ended = {r}
         /\ Ended = {} \/ \E p \in Runs : Ended = {p}
         /\ \A p \in Ended \ {r} : Life!Live(p)
<1> USE DEF Life!TypeOK, Life!Live, Life!Reserve, Ended
<1>1. CASE Life!Skip(r, j)
  BY <1>1 DEF RunsInv, Life!Skip
<1>2. CASE Life!Queue(r, j) \/ Life!Activate(r, j)
  BY <1>2 DEF RunsInv, Life!Queue, Life!Activate
<1>3. CASE Life!Replace(r, j)
  <2>1. /\ pending[j] \in Runs /\ pending[j] # r /\ state[r] = "none"
        /\ state[pending[j]] \in {"queued", "running"}
        /\ state' = [state EXCEPT ![pending[j]] = "ended", ![r] = "queued"]
    BY <1>3, AppAssumption DEF RunsInv, Life!Replace
  <2>2. state'[r] = "queued" /\ state'[pending[j]] = "ended"
        /\ \A p \in Runs \ {r, pending[j]} : state'[p] = state[p]
    BY <2>1 DEF RunsInv
  <2>3. Ended = {pending[j]}
    BY <2>1, <2>2
  <2> QED BY <2>1, <2>2, <2>3
<1> QED BY <1>1, <1>2, <1>3 DEF Life!Start

LEMMA ReserveDelete ==
  ASSUME JobsInv, RunsInv, DeleteInv, NEW q \in Requests, Reserve(q)
  PROVE  DeleteInv'
<1> DEFINE j == req[q].job
<1>1. j \in Jobs /\ req' = Done(q)
  BY DEF Reserve, JobsInv, AskedOK
<1>2. PICK r \in Runs :
        /\ Life!Start(r, j)
        /\ unwritten' = unwritten \cup Ended
        /\ raced' = IF DeleteOverlaps(j) THEN raced \cup {r} ELSE raced
  BY DEF Reserve, Ended
<1>3. UNCHANGED <<jobVars, history, purged>>
  BY DEF Reserve
<1>4. /\ jobOf'[r] = j
      /\ \A p \in Runs \ {r} : jobOf'[p] = jobOf[p] /\ (Life!Live(p)' => Life!Live(p))
  BY <1>1, <1>2, StartRuns
<1>5. /\ \A p \in Requests \ {q} : req'[p] = req[p]
      /\ req'[q].step # "delete"
  BY <1>1, StepsOn
<1>6. \A k : Doomed(k)' => Doomed(k)
  BY <1>3, <1>5, HandlerDoomsNone DEF jobVars
<1>7. Doomed(j) => DeleteOverlaps(j)
  BY DEF Doomed, DeleteOverlaps, JobsInv
<1>8. \A p \in Ended \ {r} : Life!Live(p)
  BY <1>1, <1>2, StartEnds
<1>9. Ended \subseteq Runs
  BY DEF Ended
<1>10. raced \subseteq raced' /\ raced' \subseteq Runs
  BY <1>2 DEF DeleteInv
<1>11. ASSUME NEW p \in Runs, Life!Live(p)' \/ p \in unwritten', Doomed(jobOf[p])'
       PROVE  p \in raced'
  <2>1. Doomed(jobOf'[p])
    BY <1>6, <1>11 DEF Doomed
  <2>2. CASE p = r
    BY <1>2, <1>4, <1>7, <2>1, <2>2
  <2>3. CASE p # r
    <3>1. Life!Live(p) \/ p \in unwritten
      BY <1>2, <1>4, <1>8, <1>11, <2>3
    <3> QED BY <1>4, <1>10, <2>1, <2>3, <3>1 DEF DeleteInv
  <2> QED BY <2>2, <2>3
<1> HIDE DEF j
<1> QED BY <1>2, <1>3, <1>9, <1>10, <1>11 DEF DeleteInv, jobVars

\* A run that goes on, or ends and has its record to write.
LEMMA EndsDelete ==
  ASSUME RunsInv, DeleteInv, NEW r \in Runs,
         UNCHANGED <<jobVars, req, history, ghostVars>>,
         \/ UNCHANGED lifeVars /\ unwritten' \subseteq unwritten
         \/ Life!Run(r) /\ UNCHANGED unwritten
         \/ Life!End(r) /\ unwritten' = unwritten \cup {r}
  PROVE  DeleteInv'
<1>1. \A j : Doomed(j)' => Doomed(j)
  BY DEF Doomed, jobVars
<1>2. CASE UNCHANGED lifeVars /\ unwritten' \subseteq unwritten
  <2>1. NoneDoomed
    BY <1>1, <1>2 DEF NoneDoomed, DeleteInv, Life!Live, lifeVars
  <2> QED BY <2>1, NoneDoomedDelete DEF jobVars
<1>3. CASE Life!Run(r) /\ UNCHANGED unwritten
  <2>1. NoneDoomed
    BY <1>1, <1>3 DEF NoneDoomed, DeleteInv, Life!Run, Life!Live, RunsInv, Life!TypeOK
  <2> QED BY <2>1, NoneDoomedDelete DEF jobVars
<1>4. CASE Life!End(r) /\ unwritten' = unwritten \cup {r}
  <2>1. /\ Life!Live(r) /\ ~Life!Live(r)' /\ UNCHANGED jobOf
        /\ \A p \in Runs \ {r} : state'[p] = state[p]
    BY <1>4, EndRuns
  <2>2. NoneDoomed
    BY <1>1, <1>4, <2>1 DEF NoneDoomed, DeleteInv, Life!Live
  <2> QED BY <2>2, NoneDoomedDelete DEF jobVars
<1> QED BY <1>2, <1>3, <1>4

LEMMA StopDelete ==
  ASSUME RunsInv, DeleteInv, NEW r \in Runs, StopRun(r),
         UNCHANGED <<jobVars, req, history, ghostVars>>
  PROVE  DeleteInv'
  BY EndsDelete DEF StopRun, Ends

\* A list that gets a new head and is cut.
LEMMA NewestType ==
  ASSUME NEW list \in Seq(Runs), NEW r \in Runs
  PROVE  LET new == Newest(<<r>> \o list) IN
         /\ new \in Seq(Runs) /\ Len(new) <= HistKeep
         /\ \A n \in 1..Len(new) :
              new[n] = r \/ \E m \in 1..Len(list) : new[n] = list[m]
<1> DEFINE all == <<r>> \o list
<1>1. /\ all \in Seq(Runs) /\ Len(all) = Len(list) + 1 /\ Len(list) \in Nat
      /\ HistKeep \in Nat
  BY AppAssumption
<1>2. \A n \in 1..Len(all) : all[n] = IF n = 1 THEN r ELSE list[n - 1]
  BY <1>1
<1>3. \A n \in 1..Len(all) : all[n] = r \/ \E m \in 1..Len(list) : all[n] = list[m]
  BY <1>1, <1>2
<1> HIDE DEF all
<1>4. CASE Len(all) > HistKeep
  <2> DEFINE new == SubSeq(all, 1, HistKeep)
  <2>1. /\ new \in Seq(Runs) /\ Len(new) = HistKeep
        /\ \A n \in 1..Len(new) : new[n] = all[n]
    <3>1. 1 \in 1..(Len(all) + 1) /\ HistKeep \in 0..Len(all)
      BY <1>1, <1>4
    <3> QED BY <1>1, <3>1, SubSeqProperties
  <2> HIDE DEF new
  <2>2. Newest(all) = new
    BY <1>4 DEF Newest, new
  <2>3. \A n \in 1..Len(new) : n \in 1..Len(all)
    BY <1>1, <1>4, <2>1
  <2>4. \A n \in 1..Len(new) :
          new[n] = r \/ \E m \in 1..Len(list) : new[n] = list[m]
    BY <1>3, <2>1, <2>3, Zenon
  <2> QED BY <1>1, <2>1, <2>2, <2>4 DEF all
<1>5. CASE ~(Len(all) > HistKeep)
  BY <1>1, <1>3, <1>5 DEF Newest, all
<1> QED BY <1>4, <1>5

LEMMA RecordDelete ==
  ASSUME RunsInv, DeleteInv, NEW r \in Runs, Record(r)
  PROVE  DeleteInv'
<1> DEFINE j == jobOf[r]
           new == Newest(<<r>> \o history[j])
<1>1. /\ UNCHANGED <<jobVars, req, ghostVars, lifeVars>>
      /\ r \in unwritten /\ unwritten' = unwritten \ {r}
  BY DEF Record, calm
<1>2. CASE UNCHANGED history
  BY <1>1, <1>2, EndsDelete
<1>3. CASE history' = [history EXCEPT ![j] = new]
  <2>1. \A k : Doomed(k)' => Doomed(k)
    BY <1>1 DEF Doomed, jobVars
  <2>2. \A p \in Runs : (Life!Live(p) \/ p \in unwritten) /\ Doomed(jobOf[p])
                          => p \in raced
    BY DEF DeleteInv
  <2>3. ASSUME NEW p \in Runs, Life!Live(p)' \/ p \in unwritten', Doomed(jobOf[p])'
        PROVE  p \in raced'
    BY <1>1, <2>1, <2>2, <2>3 DEF Life!Live, lifeVars, Doomed, ghostVars
  <2>4. CASE j \notin Jobs
    <3>1. UNCHANGED history
      BY <1>3, <2>4 DEF DeleteInv
    <3> QED BY <1>2, <3>1
  <2>5. CASE j \in Jobs
    <3>1. history[j] \in Seq(Runs)
      BY <2>5 DEF DeleteInv
    <3>2. /\ new \in Seq(Runs) /\ Len(new) <= HistKeep
          /\ \A n \in 1..Len(new) :
               new[n] = r \/ \E m \in 1..Len(history[j]) : new[n] = history[j][m]
      BY <3>1, NewestType
    <3> HIDE DEF new
    <3>3. /\ history' \in [Jobs -> Seq(Runs)] /\ history'[j] = new
          /\ \A k \in Jobs \ {j} : history'[k] = history[k]
      BY <1>3, <2>5, <3>2 DEF DeleteInv
    <3>4. j \in purged => r \in raced
      BY <1>1 DEF DeleteInv, Doomed
    <3>5. ASSUME NEW k \in purged, NEW n \in 1..Len(history'[k])
          PROVE  history'[k][n] \in raced
      BY <3>2, <3>3, <3>4, <3>5 DEF DeleteInv
    <3>6. \A k \in Jobs : Len(history'[k]) <= HistKeep
      BY <3>2, <3>3 DEF DeleteInv
    <3> QED BY <1>1, <2>3, <3>3, <3>5, <3>6 DEF DeleteInv, jobVars, ghostVars
  <2> QED BY <2>4, <2>5
<1> QED BY <1>2, <1>3 DEF Record

LEMMA NextDelete == JobsInv /\ RunsInv /\ DeleteInv /\ [Next]_vars => DeleteInv'
<1> SUFFICES ASSUME JobsInv, RunsInv, DeleteInv, [Next]_vars
             PROVE  DeleteInv'
  OBVIOUS
<1>1. ASSUME NEW q \in Requests, Handler(q)
      PROVE  DeleteInv'
  BY <1>1, OtherHandlerDelete, DeleteCheckDelete, DeleteDelete, PurgeDelete,
     ReserveDelete
<1>2. ASSUME NEW r \in Runs, RunStep(r)
      PROVE  DeleteInv'
  <2>1. CASE RunStarts(r) \/ LogLine(r) \/ RunEnds(r)
    BY <2>1, EndsDelete DEF RunStarts, LogLine, RunEnds, Ends, calm, historyVars
  <2>2. CASE Record(r)
    BY <2>2, RecordDelete
  <2>3. CASE Stop(r)
    BY <2>3, StopDelete DEF Stop, calm
  <2> QED BY <1>2, <2>1, <2>2, <2>3 DEF RunStep
<1>3. ASSUME NEW j \in Jobs, LegacyKill(j)
      PROVE  DeleteInv'
  <2>1. PICK r \in Runs : StopRun(r)
    BY <1>3 DEF LegacyKill, RunsInv, Life!TypeOK
  <2> QED BY <1>3, <2>1, StopDelete DEF LegacyKill, calm
<1>4. ASSUME UNCHANGED <<jobVars, req, lifeVars, historyVars, ghostVars>>
      PROVE  DeleteInv'
  BY <1>4 DEF DeleteInv, Doomed, Life!Live, jobVars, lifeVars, historyVars, ghostVars
<1>5. ASSUME NEW s \in Subscribers, Stream(s)
      PROVE  DeleteInv'
  BY <1>4, <1>5 DEF Stream, StreamOpen, FollowOpen, StreamRead, StreamClose, still
<1>6. ASSUME NEW r \in Runs, CloseRun(r)
      PROVE  DeleteInv'
  <2>1. UNCHANGED <<jobVars, req, history, ghostVars>>
    BY <1>6 DEF CloseRun
  <2>2. StopRun(r) \/ UNCHANGED <<lifeVars, unwritten>>
    BY <1>6 DEF CloseRun
  <2> QED BY <2>1, <2>2, StopDelete, EndsDelete
<1>7. CASE Terminate \/ Deadline \/ TriggersClosed \/ Exit
  BY <1>4, <1>7 DEF Terminate, Deadline, TriggersClosed, Exit, inert
<1>8. CASE Restart
  <2>1. \A r \in Runs : ~Life!Live(r)'
    BY <1>8, RestartRuns
  <2> QED BY <1>8, <2>1 DEF Restart, DeleteInv, jobVars, ghostVars
<1>9. CASE UNCHANGED vars
  BY <1>4, <1>9 DEF vars
<1> QED BY <1>1, <1>2, <1>3, <1>5, <1>6, <1>7, <1>8, <1>9 DEF Next, Shutdown

LEMMA InitDelete == Init => DeleteInv
  BY AppAssumption, EmptySeq DEF Init, DeleteInv, Life!Init, Life!Live

\* What a DELETE leaves behind overlapped it, however requests, runs and the
\* writing of records interleave.  (jobHasActiveRun, Delete, removeHistory)
THEOREM DeletesAreClean == Spec => []DeleteIsClean
<1>1. DeleteInv => DeleteIsClean
  BY DEF DeleteInv, DeleteIsClean, Doomed
<1> QED BY <1>1, InitJobs, InitRuns, InitDelete, NextJobs, NextRuns, NextDelete,
           PTL DEF Spec
-----------------------------------------------------------------------------
(***************************************************************************)
(* Shutdown.                                                               *)
(***************************************************************************)
\* A request that has not begun is not let in once the server is closed.
LEMMA HandlerBusy ==
  ASSUME NEW q \in Requests, Handler(q)
  PROVE  /\ phase \in {"up", "draining"} \/ req[q].step \notin {"new", "done"}
         /\ UNCHANGED <<asked, exitVars>>
<1>1. CASE Put(q) \/ Update(q) \/ Create(q) \/ List(q) \/ Apply(q) \/ Delete(q)
  BY <1>1 DEF Put, Arrives, Update, Create, List, Apply, Delete, quiet
<1>2. CASE LegacyPutRead(q) \/ LegacyToggleRead(q) \/ LegacyCloneRead(q)
  BY <1>2 DEF LegacyPutRead, LegacyToggleRead, LegacyCloneRead, quiet
<1>3. CASE V1DeleteCheck(q) \/ LegacyDeleteCheck(q)
  BY <1>3 DEF V1DeleteCheck, LegacyDeleteCheck, DeleteCheck
<1>4. CASE V1RunRead(q) \/ LegacyRunRead(q) \/ TriggerRead(q)
  BY <1>4 DEF V1RunRead, LegacyRunRead, TriggerRead, quiet
<1>5. CASE Purge(q) \/ Reserve(q)
  BY <1>5 DEF Purge, Reserve
<1> QED BY <1>1, <1>2, <1>3, <1>4, <1>5 DEF Handler

LEMMA HandlerExit ==
  ASSUME ExitInv, NEW q \in Requests, Handler(q)
  PROVE  ExitInv'
  BY HandlerBusy DEF ExitInv, exitVars

\* No run comes to life and none that lives is forgotten.
LEMMA RunsExit ==
  ASSUME ExitInv, UNCHANGED <<req, exitVars>>, asked' \subseteq Runs,
         \A p \in Runs : Life!Live(p)' =>
           Life!Live(p) /\ (p \in asked => p \in asked')
  PROVE  ExitInv'
  BY DEF ExitInv, exitVars

LEMMA RunLive ==
  ASSUME RunsInv, NEW r \in Runs, Life!Run(r)
  PROVE  \A p \in Runs : Life!Live(p)' => Life!Live(p)
  BY DEF RunsInv, Life!Run, Life!Live, Life!TypeOK

LEMMA EndsLive ==
  ASSUME RunsInv, NEW r \in Runs, NEW status, Ends(r, status)
  PROVE  /\ asked' = asked \ {r} /\ ~Life!Live(r)'
         /\ \A p \in Runs \ {r} : Life!Live(p)' => Life!Live(p)
<1>1. Life!End(r) /\ asked' = asked \ {r}
  BY DEF Ends
<1>2. ~Life!Live(r)' /\ \A p \in Runs \ {r} : state'[p] = state[p]
  BY <1>1, EndRuns
<1> QED BY <1>1, <1>2 DEF Life!Live

LEMMA StopLive ==
  ASSUME RunsInv, NEW r \in Runs, StopRun(r)
  PROVE  /\ asked' \subseteq asked \cup {r}
         /\ ~Life!Live(r)' \/ r \in asked'
         /\ \A p \in Runs : Life!Live(p)' =>
              Life!Live(p) /\ (p \in asked => p \in asked')
<1>1. CASE Ends(r, "killed")
  BY <1>1, EndsLive
<1>2. CASE asked' = asked \cup {r} /\ UNCHANGED lifeVars
  BY <1>2 DEF lifeVars, Life!Live
<1> QED BY <1>1, <1>2 DEF StopRun

LEMMA CloseExit ==
  ASSUME RunsInv, ExitInv, NEW r \in Runs, CloseRun(r)
  PROVE  ExitInv'
<1>1. /\ UNCHANGED <<req, phase, late, restarts>> /\ phase = "stopping"
      /\ toStop' \in {toStop, toStop \ {r}}
  BY DEF CloseRun
<1>2. CASE StopRun(r)
  BY <1>1, <1>2, StopLive DEF ExitInv
<1>3. CASE /\ ~Life!Live(r) \/ (r \in asked /\ state[r] = "queued") \/ late
           /\ UNCHANGED <<lifeVars, asked>>
  BY <1>1, <1>3 DEF ExitInv, lifeVars, Life!Live
<1> QED BY <1>2, <1>3 DEF CloseRun

\* The runs are listed when every handler and every callback has returned.
LEMMA ClosedExit ==
  ASSUME JobsInv, ExitInv, TriggersClosed
  PROVE  ExitInv'
<1>1. /\ UNCHANGED <<inert, lifeVars, asked, late, restarts>>
      /\ phase' = "stopping" /\ toStop' = LiveRuns
      /\ late \/ Idle
      /\ ~InFlight({"fire"})
  BY DEF TriggersClosed
<1>2. ~late => \A q \in Requests : req[q].step \in {"new", "done"}
  <2> SUFFICES ASSUME ~late, NEW q \in Requests
               PROVE  req[q].step \in {"new", "done"}
    OBVIOUS
  <2>1. req[q].op \in Ops => req[q].step = "done"
    BY <1>1 DEF Idle, InFlight
  <2>2. req[q].step \notin {"new", "done"} => req[q].op \in Ops
    BY DEF JobsInv, AskedOK
  <2> QED BY <2>1, <2>2
<1> QED BY <1>1, <1>2 DEF ExitInv, LiveRuns, inert, lifeVars, Life!Live

LEMMA NextExit == JobsInv /\ RunsInv /\ ExitInv /\ [Next]_vars => ExitInv'
<1> SUFFICES ASSUME JobsInv, RunsInv, ExitInv, [Next]_vars
             PROVE  ExitInv'
  OBVIOUS
<1>1. ASSUME NEW q \in Requests, Handler(q)
      PROVE  ExitInv'
  BY <1>1, HandlerExit
<1>2. ASSUME NEW r \in Runs, StopRun(r), UNCHANGED <<calm, exitVars>>
      PROVE  ExitInv'
  <2>1. /\ asked' \subseteq asked \cup {r}
        /\ \A p \in Runs : Life!Live(p)' =>
             Life!Live(p) /\ (p \in asked => p \in asked')
    BY <1>2, StopLive
  <2>2. asked' \subseteq Runs
    BY <2>1 DEF ExitInv
  <2> QED BY <1>2, <2>1, <2>2, RunsExit DEF calm
<1>3. ASSUME NEW r \in Runs, RunStep(r)
      PROVE  ExitInv'
  <2>1. UNCHANGED <<calm, exitVars>>
    BY <1>3 DEF RunStep, RunStarts, LogLine, RunEnds, Record, Stop
  <2>2. CASE RunStarts(r)
    BY <2>1, <2>2, RunLive, RunsExit DEF RunStarts, calm, ExitInv
  <2>3. CASE LogLine(r) \/ Record(r)
    BY <2>1, <2>3, RunsExit DEF LogLine, Record, calm, ExitInv, lifeVars, Life!Live
  <2>4. CASE RunEnds(r)
    <3>1. /\ asked' = asked \ {r} /\ ~Life!Live(r)'
          /\ \A p \in Runs \ {r} : Life!Live(p)' => Life!Live(p)
      BY <2>4, EndsLive DEF RunEnds
    <3> QED BY <2>1, <3>1, RunsExit DEF calm, ExitInv
  <2>5. CASE Stop(r)
    BY <1>2, <2>1, <2>5 DEF Stop
  <2> QED BY <1>3, <2>2, <2>3, <2>4, <2>5 DEF RunStep
<1>4. ASSUME NEW j \in Jobs, LegacyKill(j)
      PROVE  ExitInv'
  <2>1. PICK r \in Runs : StopRun(r)
    BY <1>4 DEF LegacyKill, RunsInv, Life!TypeOK
  <2> QED BY <1>2, <1>4, <2>1 DEF LegacyKill
<1>5. ASSUME UNCHANGED <<req, lifeVars, asked, exitVars>>
      PROVE  ExitInv'
  BY <1>5 DEF ExitInv, lifeVars, exitVars, Life!Live
<1>6. ASSUME NEW s \in Subscribers, Stream(s)
      PROVE  ExitInv'
  BY <1>5, <1>6 DEF Stream, StreamOpen, FollowOpen, StreamRead, StreamClose, still
<1>7. CASE Terminate
  BY <1>7 DEF Terminate, ExitInv
<1>8. CASE Deadline
  BY <1>8 DEF Deadline, ExitInv
<1>9. CASE TriggersClosed
  BY <1>9, ClosedExit
<1>10. ASSUME NEW r \in Runs, CloseRun(r)
       PROVE  ExitInv'
  BY <1>10, CloseExit
<1>11. CASE Exit
  BY <1>11 DEF Exit, ExitInv, inert, lifeVars, Life!Live
<1>12. CASE Restart
  <2>1. /\ phase' = "up" /\ late' = FALSE /\ toStop' = {} /\ asked' = {}
        /\ restarts' = restarts + 1 /\ restarts < MaxRestarts
    BY <1>12 DEF Restart
  <2>2. restarts' \in 0..MaxRestarts
    BY <2>1, AppAssumption DEF ExitInv
  <2> QED BY <2>1, <2>2 DEF ExitInv
<1>13. CASE UNCHANGED vars
  BY <1>5, <1>13 DEF vars
<1> QED BY <1>1, <1>3, <1>4, <1>6, <1>7, <1>8, <1>9, <1>10, <1>11, <1>12, <1>13
        DEF Next, Shutdown

LEMMA InitExit == Init => ExitInv
<1>1. 0 \in 0..MaxRestarts
  BY AppAssumption
<1> QED BY <1>1 DEF Init, ExitInv

\* When main returns in time every run that is left has been told to stop.
\* (server.Shutdown, Scheduler.Close, Watches.Close, App.Close, in this order)
THEOREM ExitsLeaveNothing == Spec => []ExitLeavesNothing
<1>1. ExitInv => ExitLeavesNothing
  BY DEF ExitInv, ExitLeavesNothing
<1> QED BY <1>1, InitJobs, InitRuns, InitExit, NextJobs, NextRuns, NextExit,
           PTL DEF Spec
-----------------------------------------------------------------------------
(***************************************************************************)
(* Event streams: what the operations of the hub keep.                     *)
(***************************************************************************)
\* Filtering a suffix of the positions gives the suffix.
LEMMA FilteredSuffix ==
  ASSUME NEW S, NEW s \in Seq(S), NEW a \in 1..(Len(s) + 1)
  PROVE  LET f == Filtered(s, a..Len(s)) IN
         /\ f \in Seq(S) /\ Len(f) = Len(s) - a + 1
         /\ \A k \in 1..Len(f) : f[k] = s[a + k - 1]
<1> DEFINE I == a..Len(s)
           N == Len(s) - a + 1
           f == Filtered(s, I)
<1>1. N \in Nat /\ a \in Nat /\ Len(s) \in Nat
  OBVIOUS
<1>2. Cardinality(I) = N
  <2>1. a \in Int /\ Len(s) \in Int
    BY <1>1
  <2>2. Cardinality(a..Len(s)) = IF a > Len(s) THEN 0 ELSE Len(s) - a + 1
    BY <2>1, FS_Interval, Zenon
  <2> QED BY <1>1, <2>2
<1>3. ASSUME NEW n \in I
      PROVE  Rank(I, n) = n - a + 1
  <2>1. {m \in I : m <= n} = a..n
    BY <1>1
  <2>2. Cardinality(a..n) = n - a + 1
    BY <1>1, FS_Interval
  <2> QED BY <2>1, <2>2 DEF Rank
<1>4. ASSUME NEW k \in 1..N
      PROVE  (CHOOSE n \in I : Rank(I, n) = k) = a + k - 1
  <2>1. a + k - 1 \in I /\ Rank(I, a + k - 1) = k
    BY <1>1, <1>3
  <2>2. \A n \in I : Rank(I, n) = k => n = a + k - 1
    BY <1>1, <1>3
  <2> HIDE DEF I
  <2> QED BY <2>1, <2>2
<1>5. f = [k \in 1..N |-> s[a + k - 1]]
  <2> DEFINE pos(k) == CHOOSE n \in I : Rank(I, n) = k
  <2>1. f = [k \in 1..Cardinality(I) |-> s[pos(k)]]
    BY DEF Filtered
  <2>2. \A k \in 1..N : pos(k) = a + k - 1
    BY <1>4
  <2> HIDE DEF N, I, f, pos
  <2> QED BY <1>2, <2>1, <2>2
<1>6. \A k \in 1..N : a + k - 1 \in 1..Len(s)
  BY <1>1
<1>7. \A k \in 1..N : s[a + k - 1] \in S
  BY <1>6, ElementOfSeq
<1> HIDE DEF N, I, f
<1>8. f \in [1..N -> S]
  BY <1>5, <1>7
<1>9. f \in Seq(S) /\ Len(f) = N
  BY <1>1, <1>8, IsASeq, LenProperties
<1>10. \A k \in 1..Len(f) : f[k] = s[a + k - 1]
  BY <1>5, <1>9
<1> QED BY <1>9, <1>10 DEF N, I, f

LEMMA EventIds ==
  ASSUME NEW evs \in Seq(Event)
  PROVE  \A n \in 1..Len(evs) : evs[n].id \in Nat
<1> SUFFICES ASSUME NEW n \in 1..Len(evs)
             PROVE  evs[n].id \in Nat
  OBVIOUS
<1>1. evs[n] \in Event
  BY ElementOfSeq
<1> QED BY <1>1 DEF Event

\* A replay is a suffix of the window; how long it is, for a client that has
\* read an identifier that was given.
LEMMA ReplaySuffix ==
  ASSUME NEW h \in Hub, WindowOK(h.eventID, h.events), NEW after \in Nat
  PROVE  LET rep == Replay(h, after) IN
         \E a \in 1..(Len(h.events) + 1) :
           /\ rep \in Seq(Event) /\ Len(rep) = Len(h.events) - a + 1
           /\ \A k \in 1..Len(rep) : rep[k] = h.events[a + k - 1]
           /\ after <= h.eventID /\ h.eventID <= after + Len(h.events) =>
                a = after + Len(h.events) - h.eventID + 1
<1> DEFINE evs == h.events
           L   == Len(evs)
           c   == after + L - h.eventID
           a   == IF c < 0 THEN 1 ELSE IF c > L THEN L + 1 ELSE c + 1
<1>1. evs \in Seq(Event) /\ h.eventID \in Nat /\ L \in Nat
  BY DEF Hub
<1>2. a \in 1..(L + 1)
  BY <1>1
<1>3. \A n \in 1..L : evs[n].id = h.eventID + n - L
  <2>1. \A n \in 1..L : evs[n].id \in Nat
    BY <1>1, EventIds
  <2>2. \A n \in 1..L : evs[n].id + L = h.eventID + n
    BY DEF WindowOK
  <2>3. ASSUME NEW n \in 1..L
        PROVE  evs[n].id = h.eventID + n - L
    <3> DEFINE x == evs[n].id
               y == h.eventID
    <3>1. x \in Nat /\ y \in Nat /\ L \in Nat /\ x + L = y + n
      BY <1>1, <2>1, <2>2
    <3> HIDE DEF x, y, L
    <3>2. x = y + n - L
      BY <3>1
    <3> QED BY <3>2 DEF x, y
  <2> QED BY <2>3
<1>4. {n \in 1..L : evs[n].id > after} = a..L
  <2>1. ASSUME NEW n \in 1..L
        PROVE  evs[n].id > after <=> n >= a
    <3> DEFINE x == evs[n].id
               y == h.eventID
    <3>1. x = y + n - L /\ y \in Nat /\ L \in Nat /\ n \in 1..L /\ c = after + L - y
      BY <1>1, <1>3
    <3> HIDE DEF x, y, L, c
    <3>2. c \in Int /\ (x > after <=> n > c)
      BY <3>1
    <3>3. n > c <=> n >= a
      BY <3>1, <3>2
    <3> QED BY <3>2, <3>3 DEF x
  <2> HIDE DEF a
  <2>2. a \in 1..(L + 1)
    BY <1>2
  <2> HIDE DEF L, evs
  <2>3. \A n : n \in a..L <=> n \in 1..L /\ n >= a
    BY <1>1, <2>2
  <2> QED BY <2>1, <2>3
<1>5. Replay(h, after) = Filtered(evs, a..L)
  BY <1>4 DEF Replay
<1>6. after <= h.eventID /\ h.eventID <= after + L => a = after + L - h.eventID + 1
  BY <1>1
<1> HIDE DEF a
<1>7. LET f == Filtered(evs, a..L) IN
      /\ f \in Seq(Event) /\ Len(f) = L - a + 1
      /\ \A k \in 1..Len(f) : f[k] = evs[a + k - 1]
  BY <1>1, <1>2, FilteredSuffix
<1> QED BY <1>2, <1>5, <1>6, <1>7

\* The window after an event is published.
LEMMA WindowStep ==
  ASSUME NEW evs \in Seq(Event), NEW id \in Nat, WindowOK(id, evs),
         NEW e \in Event, e.id = id + 1
  PROVE  LET w == Window(Append(evs, e)) IN
         /\ w \in Seq(Event) /\ WindowOK(id + 1, w)
         /\ Len(w) = id + 1 => Len(evs) = id /\ w = Append(evs, e)
<1> DEFINE all == Append(evs, e)
           L   == Len(evs)
<1>1. L \in Nat /\ all \in Seq(Event) /\ Len(all) = L + 1 /\ MaxEvents \in Nat
  BY HubAssumption DEF MaxEvents
<1>2. \A n \in 1..Len(all) : all[n] = IF n <= L THEN evs[n] ELSE e
  BY <1>1, AppendProperties
<1>3. \A n \in 1..Len(all) : all[n].id \in Nat /\ all[n].id + Len(all) = id + 1 + n
  <2>1. /\ \A n \in 1..L : evs[n].id \in Nat
        /\ \A n \in 1..L : evs[n].id + L = id + n
    BY EventIds DEF WindowOK
  <2>2. ASSUME NEW n \in 1..Len(all)
        PROVE  all[n].id \in Nat /\ all[n].id + Len(all) = id + 1 + n
    <3>1. CASE n <= L
      <4>1. all[n] = evs[n] /\ n \in 1..L
        BY <1>1, <1>2, <3>1
      <4>2. evs[n].id \in Nat /\ evs[n].id + L = id + n
        BY <2>1, <4>1
      <4> DEFINE x == evs[n].id
      <4>3. all[n].id = x /\ x \in Nat /\ x + L = id + n
        BY <4>1, <4>2
      <4> DEFINE M == Len(all)
      <4>4. M = L + 1 /\ L \in Nat
        BY <1>1
      <4> HIDE DEF all, L, x, M
      <4>5. x + M = id + 1 + n
        BY <4>1, <4>3, <4>4
      <4> QED BY <4>3, <4>5 DEF M
    <3>2. CASE ~(n <= L)
      <4>1. all[n] = e /\ n = L + 1
        BY <1>1, <1>2, <3>2
      <4> HIDE DEF all, L
      <4> QED BY <1>1, <4>1
    <3> QED BY <3>1, <3>2
  <2> QED BY <2>2
<1>4. L <= id
  BY DEF WindowOK
<1> HIDE DEF all
<1>5. CASE Len(all) > MaxEvents
  <2> DEFINE w == SubSeq(all, Len(all) - MaxEvents + 1, Len(all))
  <2>1. Len(all) - MaxEvents + 1 \in 1..(Len(all) + 1) /\ Len(all) \in 0..Len(all)
    BY <1>1, <1>5
  <2>2. /\ w \in Seq(Event) /\ Len(w) = MaxEvents
        /\ \A n \in 1..MaxEvents : w[n] = all[Len(all) - MaxEvents + n]
    <3>1. /\ w \in Seq(Event)
          /\ Len(w) = IF Len(all) - MaxEvents + 1 <= Len(all)
                      THEN Len(all) - (Len(all) - MaxEvents + 1) + 1 ELSE 0
          /\ \A n \in 1..Len(w) : w[n] = all[Len(all) - MaxEvents + 1 + n - 1]
      BY <1>1, <2>1, SubSeqProperties
    <3>2. Len(w) = MaxEvents
      BY <1>1, <1>5, <3>1
    <3>3. \A n \in 1..MaxEvents :
            Len(all) - MaxEvents + 1 + n - 1 = Len(all) - MaxEvents + n
      BY <1>1
    <3> QED BY <3>1, <3>2, <3>3
  <2> HIDE DEF w
  <2>3. \A n \in 1..Len(w) : w[n].id + Len(w) = id + 1 + n
    <3> SUFFICES ASSUME NEW n \in 1..MaxEvents
                 PROVE  w[n].id + MaxEvents = id + 1 + n
      BY <2>2
    <3>1. Len(all) - MaxEvents + n \in 1..Len(all)
      BY <1>1, <1>5
    <3> DEFINE x == all[Len(all) - MaxEvents + n].id
    <3>2. /\ w[n].id = x /\ x \in Nat
          /\ x + Len(all) = id + 1 + (Len(all) - MaxEvents + n)
      BY <1>3, <2>2, <3>1
    <3> HIDE DEF x
    <3> QED BY <1>1, <3>2
  <2>4. Window(all) = w
    BY <1>5 DEF Window, w
  <2> QED BY <1>1, <1>4, <1>5, <2>2, <2>3, <2>4 DEF WindowOK, all
<1>6. CASE ~(Len(all) > MaxEvents)
  <2>1. Window(all) = all
    BY <1>6 DEF Window
  <2>2. WindowOK(id + 1, all) /\ (Len(all) = id + 1 => L = id)
    <3>1. \A n \in 1..Len(all) : all[n].id + Len(all) = id + 1 + n
      BY <1>3
    <3> QED BY <1>1, <1>4, <3>1 DEF WindowOK
  <2> QED BY <1>1, <2>1, <2>2 DEF all
<1> QED BY <1>5, <1>6
\* A channel is open, and its client has missed nothing.
Sound(sub) == sub.open /\ sub.sawAll

LEMMA OfferOK ==
  ASSUME NEW sub \in Subscription, NEW top \in Nat, ClientOK(top, sub),
         NEW e \in Event, e.id = top + 1
  PROVE  /\ Offer(sub, e) \in Subscription
         /\ ClientOK(top + 1, Offer(sub, e))
         /\ Sound(Offer(sub, e)) =>
              Sound(sub) /\ Offer(sub, e).chan = Append(sub.chan, e)
<1>1. /\ sub.chan \in Seq(Event) /\ sub.last \in Nat /\ sub.room \in Nat
      /\ sub.open \in BOOLEAN /\ sub.lost \in BOOLEAN /\ sub.sawAll \in BOOLEAN
  BY DEF Subscription
<1>2. CASE ~sub.open
  <2>1. Offer(sub, e) = sub
    BY <1>2 DEF Offer
  <2>2. sub.chan = << >> /\ Len(sub.chan) = 0
    BY <1>2 DEF ClientOK
  <2>3. sub.sawAll => sub.last <= top + 1
    BY <1>1 DEF ClientOK
  <2> QED BY <1>2, <2>1, <2>2, <2>3 DEF ClientOK, Sound
<1>3. CASE sub.open /\ Len(sub.chan) < sub.room
  <2> DEFINE new == Append(sub.chan, e)
             o   == [sub EXCEPT !.chan = new]
             L   == Len(sub.chan)
  <2>1. Offer(sub, e) = o
    BY <1>3 DEF Offer
  <2>2. /\ new \in Seq(Event) /\ Len(new) = L + 1 /\ L \in Nat
        /\ \A n \in 1..L : new[n] = sub.chan[n]
        /\ new[L + 1] = e
    BY <1>1, AppendProperties
  <2> HIDE DEF new
  <2>3. /\ o \in Subscription /\ o.chan = new /\ o.last = sub.last
        /\ (o.open <=> sub.open) /\ (o.lost <=> sub.lost) /\ (o.sawAll <=> sub.sawAll)
    BY <2>2 DEF Subscription
  <2> HIDE DEF o
  <2>4. \A n \in 1..L : sub.chan[n].id \in Nat
    BY <1>1, EventIds
  <2>5. \A n \in 1..L : new[n].id = sub.chan[n].id
    BY <2>2
  <2>6. new[L + 1].id = top + 1
    BY <2>2
  <2>7. \A n \in 1..L : sub.chan[n].id <= top
    BY DEF ClientOK
  <2>8. \A m, n \in 1..L : m < n => sub.chan[m].id < sub.chan[n].id
    BY DEF ClientOK
  <2>9. ~sub.lost => \A n \in 1..L : sub.chan[n].id + L = top + n
    BY <1>3 DEF ClientOK
  <2>10. sub.sawAll => ~sub.lost /\ sub.last + L = top
    BY <1>3 DEF ClientOK
  <2> DEFINE x(n) == new[n].id
  <2>11. /\ \A n \in 1..L : x(n) \in Nat /\ x(n) <= top
         /\ x(L + 1) = top + 1
         /\ \A m, n \in 1..L : m < n => x(m) < x(n)
         /\ ~sub.lost => \A n \in 1..L : x(n) + L = top + n
    BY <2>4, <2>5, <2>6, <2>7, <2>8, <2>9
  <2> HIDE DEF x, L
  <2>12. \A n \in 1..(L + 1) : x(n) <= top + 1
    BY <2>2, <2>11
  <2>13. \A m, n \in 1..(L + 1) : m < n => x(m) < x(n)
    BY <2>2, <2>11
  <2>14. ~sub.lost => \A n \in 1..(L + 1) : x(n) + (L + 1) = top + 1 + n
    BY <2>2, <2>11
  <2>15. sub.sawAll => ~sub.lost /\ sub.last + (L + 1) = top + 1
                       /\ sub.last <= top + 1
    <3> DEFINE y == sub.last
    <3>1. y \in Nat /\ L \in Nat /\ (sub.sawAll => ~sub.lost /\ y + L = top)
      BY <1>1, <2>2, <2>10 DEF L
    <3> HIDE DEF y
    <3>2. y + L = top => y + (L + 1) = top + 1 /\ y <= top + 1
      BY <3>1
    <3> QED BY <3>1, <3>2 DEF y
  <2>16. ClientOK(top + 1, o)
    BY <1>3, <2>2, <2>3, <2>12, <2>13, <2>14, <2>15 DEF ClientOK, x
  <2> QED BY <1>3, <2>1, <2>3, <2>16 DEF Sound, new
<1>4. CASE sub.open /\ ~(Len(sub.chan) < sub.room)
  <2> DEFINE o == [sub EXCEPT !.lost = TRUE, !.sawAll = FALSE]
  <2>1. Offer(sub, e) = o
    BY <1>4 DEF Offer
  <2>2. /\ o \in Subscription /\ o.chan = sub.chan /\ o.open /\ o.lost /\ ~o.sawAll
    BY <1>4 DEF Subscription
  <2> HIDE DEF o
  <2>3. \A n \in 1..Len(sub.chan) : sub.chan[n].id <= top + 1
    <3>1. \A n \in 1..Len(sub.chan) : sub.chan[n].id \in Nat /\ sub.chan[n].id <= top
      BY <1>1, EventIds DEF ClientOK
    <3> QED BY <3>1
  <2>4. ClientOK(top + 1, o)
    BY <2>2, <2>3 DEF ClientOK
  <2> QED BY <2>1, <2>2, <2>4 DEF Sound
<1> QED BY <1>1, <1>2, <1>3, <1>4
\* Nothing that g tells is lost in h, as far as its window and its clients
\* have missed nothing.
Carries(g, h) ==
  /\ Len(h.events) = h.eventID =>
       /\ Len(g.events) = g.eventID
       /\ \A r \in Runs : Tells(g.events, r) => Tells(h.events, r)
  /\ \A s \in Subscribers : Sound(h.subs[s]) =>
       /\ Sound(g.subs[s])
       /\ \A r \in Runs : Tells(g.subs[s].chan, r) => Tells(h.subs[s].chan, r)

\* Everybody who has missed nothing is told that run r has ended.
Announces(h, r) ==
  /\ Len(h.events) = h.eventID => Tells(h.events, r)
  /\ \A s \in Subscribers : Sound(h.subs[s]) => Tells(h.subs[s].chan, r)

LEMMA CarriesOn ==
  ASSUME NEW f, NEW g, NEW h, Carries(f, g), Carries(g, h)
  PROVE  /\ Carries(f, h)
         /\ \A r \in Runs : Announces(g, r) => Announces(h, r)
  BY DEF Carries, Announces

LEMMA AppendTells ==
  ASSUME NEW evs \in Seq(Event), NEW e \in Event, NEW r \in Runs
  PROVE  /\ Tells(evs, r) => Tells(Append(evs, e), r)
         /\ e.run = r /\ e.final => Tells(Append(evs, e), r)
<1> DEFINE all == Append(evs, e)
<1>1. /\ Len(all) = Len(evs) + 1 /\ Len(evs) \in Nat
      /\ \A n \in 1..Len(evs) : all[n] = evs[n]
      /\ all[Len(evs) + 1] = e
  BY AppendProperties
<1> HIDE DEF all
<1>2. /\ \A n \in 1..Len(evs) : n \in 1..Len(all)
      /\ Len(evs) + 1 \in 1..Len(all)
  BY <1>1
<1>3. Tells(evs, r) => Tells(all, r)
  BY <1>1, <1>2 DEF Tells
<1>4. e.run = r /\ e.final => Tells(all, r)
  BY <1>1, <1>2 DEF Tells
<1> QED BY <1>3, <1>4 DEF all

LEMMA PublishOK ==
  ASSUME NEW h, HubOK(h), NEW r \in Runs, NEW st
  PROVE  /\ HubOK(Publish(h, r, st))
         /\ Carries(h, Publish(h, r, st))
         /\ st \in Terminal => Announces(Publish(h, r, st), r)
<1> DEFINE e == [id |-> h.eventID + 1, run |-> r, final |-> st \in Terminal]
           g == Publish(h, r, st)
<1>1. /\ h \in Hub /\ h.eventID \in Nat /\ h.events \in Seq(Event)
      /\ \A s \in Subscribers : h.subs[s] \in Subscription
      /\ WindowOK(h.eventID, h.events)
      /\ \A s \in Subscribers : ClientOK(h.eventID, h.subs[s])
  BY DEF HubOK, Hub
<1>2. e \in Event /\ e.id = h.eventID + 1 /\ e.run = r /\ (e.final <=> st \in Terminal)
  <2> DEFINE fin == st \in Terminal
             top == h.eventID + 1
  <2>1. fin \in BOOLEAN /\ top \in Nat /\ e = [id |-> top, run |-> r, final |-> fin]
    BY <1>1
  <2> HIDE DEF fin, top, e
  <2>2. e \in Event /\ e.id = top /\ e.run = r /\ e.final = fin
    BY <2>1 DEF Event
  <2> QED BY <2>2 DEF fin, top
<1>3. g = [eventID |-> h.eventID + 1,
           events  |-> Window(Append(h.events, e)),
           subs    |-> [s \in Subscribers |-> Offer(h.subs[s], e)]]
  BY DEF Publish
<1> HIDE DEF e, g
<1>4. /\ g.eventID = h.eventID + 1 /\ g.events = Window(Append(h.events, e))
      /\ \A s \in Subscribers : g.subs[s] = Offer(h.subs[s], e)
      /\ g.subs = [s \in Subscribers |-> Offer(h.subs[s], e)]
  BY <1>3
<1>5. /\ g.events \in Seq(Event) /\ WindowOK(g.eventID, g.events)
      /\ Len(g.events) = g.eventID =>
           Len(h.events) = h.eventID /\ g.events = Append(h.events, e)
  BY <1>1, <1>2, <1>4, WindowStep
<1>6. \A s \in Subscribers :
        /\ g.subs[s] \in Subscription /\ ClientOK(g.eventID, g.subs[s])
        /\ Sound(g.subs[s]) =>
             Sound(h.subs[s]) /\ g.subs[s].chan = Append(h.subs[s].chan, e)
  BY <1>1, <1>2, <1>4, OfferOK
<1>7. g \in Hub
  <2>1. g.eventID \in Nat /\ g.subs \in [Subscribers -> Subscription]
    BY <1>1, <1>4, <1>6
  <2>2. g = [eventID |-> g.eventID, events |-> g.events, subs |-> g.subs]
    BY <1>3
  <2> QED BY <1>5, <2>1, <2>2 DEF Hub
<1>8. HubOK(g)
  BY <1>5, <1>6, <1>7 DEF HubOK
<1>9. \A s \in Subscribers : h.subs[s].chan \in Seq(Event)
  BY <1>1 DEF Subscription
<1>10. ASSUME NEW evs \in Seq(Event)
       PROVE  /\ \A p \in Runs : Tells(evs, p) => Tells(Append(evs, e), p)
              /\ st \in Terminal => Tells(Append(evs, e), r)
  BY <1>2, AppendTells
<1>11. Carries(h, g)
  <2>1. Len(g.events) = g.eventID =>
          /\ Len(h.events) = h.eventID
          /\ \A p \in Runs : Tells(h.events, p) => Tells(g.events, p)
    BY <1>1, <1>5, <1>10
  <2>2. ASSUME NEW s \in Subscribers, Sound(g.subs[s])
        PROVE  /\ Sound(h.subs[s])
               /\ \A p \in Runs : Tells(h.subs[s].chan, p) => Tells(g.subs[s].chan, p)
    BY <1>6, <1>9, <1>10, <2>2
  <2> QED BY <2>1, <2>2 DEF Carries
<1>12. st \in Terminal => Announces(g, r)
  <2>1. st \in Terminal /\ Len(g.events) = g.eventID => Tells(g.events, r)
    BY <1>1, <1>5, <1>10
  <2>2. ASSUME NEW s \in Subscribers, Sound(g.subs[s]), st \in Terminal
        PROVE  Tells(g.subs[s].chan, r)
    BY <1>6, <1>9, <1>10, <2>2
  <2> QED BY <2>1, <2>2 DEF Announces
<1> QED BY <1>8, <1>11, <1>12 DEF g

\* One client's slot changes.
WithSlot(h, s, sub) == [h EXCEPT !.subs[s] = sub]

LEMMA SlotOK ==
  ASSUME NEW h, HubOK(h), NEW s \in Subscribers, NEW sub \in Subscription,
         ClientOK(h.eventID, sub), NEW g, g = WithSlot(h, s, sub)
  PROVE  /\ HubOK(g)
         /\ g.eventID = h.eventID /\ g.events = h.events /\ g.subs[s] = sub
         /\ \A t \in Subscribers \ {s} : g.subs[t] = h.subs[t]
<1>1. h \in [eventID : Nat, events : Seq(Event), subs : [Subscribers -> Subscription]]
  BY DEF HubOK, Hub
<1>2. /\ g.eventID = h.eventID /\ g.events = h.events
      /\ g.subs = [h.subs EXCEPT ![s] = sub]
      /\ g \in Hub
  BY <1>1 DEF Hub, WithSlot
<1>3. /\ g.subs[s] = sub
      /\ \A t \in Subscribers \ {s} : g.subs[t] = h.subs[t]
  BY <1>1, <1>2
<1> QED BY <1>2, <1>3 DEF HubOK

LEMMA SubscribeOK ==
  ASSUME NEW h, HubOK(h), NEW s \in Subscribers, NEW after \in Nat,
         h.subs[s].sawAll => after <= h.eventID
  PROVE  LET g == Subscribe(h, s, after) IN
         /\ HubOK(g)
         /\ g.eventID = h.eventID /\ g.events = h.events
         /\ \A t \in Subscribers \ {s} : g.subs[t] = h.subs[t]
         /\ after = 0 /\ Sound(g.subs[s]) =>
              /\ Len(h.events) = h.eventID
              /\ \A r \in Runs : Tells(h.events, r) => Tells(g.subs[s].chan, r)
<1> DEFINE rep == Replay(h, after)
           L   == Len(h.events)
           all == (h.subs[s].sawAll \/ after = 0) /\ h.eventID <= after + L
           sub == [open |-> TRUE, room |-> Len(rep) + ChannelSlack, chan |-> rep,
                   last |-> after, lost |-> FALSE, sawAll |-> all]
           g   == Subscribe(h, s, after)
           top == h.eventID
<1>1. /\ h \in Hub /\ top \in Nat /\ h.events \in Seq(Event) /\ L \in Nat
      /\ WindowOK(top, h.events) /\ L <= top
  BY DEF HubOK, Hub, WindowOK
<1>2. PICK a \in 1..(L + 1) :
        /\ rep \in Seq(Event) /\ Len(rep) = L - a + 1
        /\ \A k \in 1..Len(rep) : rep[k] = h.events[a + k - 1]
        /\ after <= top /\ top <= after + L => a = after + L - top + 1
  BY <1>1, ReplaySuffix
<1>3. g = WithSlot(h, s, sub)
  BY DEF Subscribe, WithSlot
<1>4. all => after <= top /\ top <= after + L
  BY <1>1
<1> HIDE DEF rep, all, g
<1>5. Len(rep) \in Nat /\ ChannelSlack \in Nat /\ all \in BOOLEAN
  BY <1>2, HubAssumption DEF all
<1>6. /\ sub \in Subscription /\ sub.open /\ sub.chan = rep /\ sub.last = after
      /\ ~sub.lost /\ (sub.sawAll <=> all)
  BY <1>2, <1>5 DEF Subscription
<1> HIDE DEF sub
<1> DEFINE x(n) == rep[n].id
           y(n) == h.events[n].id
<1>7. \A n \in 1..L : y(n) \in Nat /\ y(n) + L = top + n
  BY <1>1, EventIds DEF WindowOK
<1>8. \A k \in 1..Len(rep) : x(k) = y(a + k - 1)
  BY <1>2
<1>9. \A k \in 1..Len(rep) : x(k) + Len(rep) = top + k /\ x(k) \in Nat
  <2> SUFFICES ASSUME NEW k \in 1..Len(rep)
               PROVE  x(k) + Len(rep) = top + k /\ x(k) \in Nat
    OBVIOUS
  <2> HIDE DEF x, y, L, top
  <2>1. a + k - 1 \in 1..L
    BY <1>1, <1>2
  <2>2. x(k) \in Nat /\ x(k) + L = top + (a + k - 1)
    BY <1>7, <1>8, <2>1
  <2> DEFINE M == Len(rep)
             z == x(k)
  <2>3. /\ M = L - a + 1 /\ L \in Nat /\ top \in Nat /\ z \in Nat
        /\ z + L = top + (a + k - 1) /\ k \in Nat /\ a \in Nat
    BY <1>1, <1>2, <1>5, <2>2
  <2> HIDE DEF M, z
  <2>4. z + M = top + k
    BY <2>3
  <2> QED BY <2>2, <2>4 DEF M, z
<1>10. all => after + Len(rep) = top /\ after <= top
  <2> HIDE DEF L, top
  <2> QED BY <1>1, <1>2, <1>4
<1>11. /\ \A n \in 1..Len(rep) : x(n) <= top
       /\ \A m, n \in 1..Len(rep) : m < n => x(m) < x(n)
  <2> HIDE DEF x, top
  <2> QED BY <1>1, <1>5, <1>9
<1>12. ClientOK(top, sub)
  BY <1>6, <1>9, <1>10, <1>11 DEF ClientOK
<1>13. /\ HubOK(g) /\ g.eventID = h.eventID /\ g.events = h.events /\ g.subs[s] = sub
       /\ \A t \in Subscribers \ {s} : g.subs[t] = h.subs[t]
  <2>1. sub \in Subscription /\ ClientOK(h.eventID, sub)
    BY <1>6, <1>12
  <2> HIDE DEF L, top, x, y
  <2> QED BY <1>3, <2>1, SlotOK
<1>14. ASSUME after = 0, Sound(g.subs[s])
       PROVE  /\ L = top
              /\ \A r \in Runs : Tells(h.events, r) => Tells(g.subs[s].chan, r)
  <2>1. all
    BY <1>6, <1>13, <1>14 DEF Sound
  <2>2. L = top /\ a = 1 /\ Len(rep) = L
    <3> HIDE DEF L, top
    <3> QED BY <1>1, <1>2, <1>4, <1>14, <2>1
  <2>3. \A n \in 1..L : rep[n] = h.events[n]
    <3>1. \A n \in 1..L : a + n - 1 = n
      BY <1>1, <2>2
    <3> QED BY <1>2, <2>2, <3>1
  <2> QED BY <1>6, <1>13, <2>2, <2>3 DEF Tells
<1> QED BY <1>13, <1>14 DEF g
LEMMA DeliverOK ==
  ASSUME NEW h, HubOK(h), NEW s \in Subscribers, h.subs[s].chan # << >>
  PROVE  LET g == Deliver(h, s)
             e == Head(h.subs[s].chan)
         IN
         /\ HubOK(g) /\ g.eventID = h.eventID /\ g.events = h.events
         /\ \A t \in Subscribers \ {s} : g.subs[t] = h.subs[t]
         /\ Sound(g.subs[s]) => Sound(h.subs[s])
         /\ \A r \in Runs : Tells(h.subs[s].chan, r) =>
              (e.run = r /\ e.final) \/ Tells(g.subs[s].chan, r)
<1> DEFINE sub == h.subs[s]
           new == Tail(sub.chan)
           L   == Len(sub.chan)
           e   == Head(sub.chan)
           o   == Delivered(sub)
           g   == Deliver(h, s)
           top == h.eventID
<1>1. sub \in Subscription /\ top \in Nat /\ ClientOK(top, sub)
  BY DEF HubOK, Hub
<1>2. sub.chan \in Seq(Event) /\ sub.chan # << >>
  BY <1>1 DEF Subscription
<1>3. /\ new \in Seq(Event) /\ L \in Nat /\ L > 0 /\ Len(new) = L - 1
      /\ e = sub.chan[1] /\ \A n \in 1..Len(new) : new[n] = sub.chan[n + 1]
  BY <1>2
<1>4. e.id \in Nat
  BY <1>2, <1>3, EventIds
<1>5. g = WithSlot(h, s, o)
  BY DEF Deliver, WithSlot
<1> HIDE DEF new, e, g
<1>6. /\ o \in Subscription /\ o.chan = new /\ o.last = e.id
      /\ (o.open <=> sub.open) /\ (o.lost <=> sub.lost) /\ (o.sawAll <=> sub.sawAll)
  <2>1. o = [sub EXCEPT !.chan = new, !.last = e.id]
    BY DEF Delivered, new, e
  <2> QED BY <1>1, <1>3, <1>4, <2>1 DEF Subscription
<1> HIDE DEF o
<1>7. sub.open
  BY <1>1, <1>2 DEF ClientOK
<1> DEFINE x(n) == sub.chan[n].id
           M    == Len(new)
<1>8. /\ \A n \in 1..L : x(n) \in Nat /\ x(n) <= top
      /\ \A m, n \in 1..L : m < n => x(m) < x(n)
      /\ ~sub.lost => \A n \in 1..L : x(n) + L = top + n
      /\ sub.sawAll => ~sub.lost
  BY <1>1, <1>2, <1>7, EventIds DEF ClientOK
<1>9. /\ \A n \in 1..M : new[n].id = x(n + 1)
      /\ e.id = x(1) /\ M \in Nat /\ L = M + 1
  <2>1. M \in Nat /\ L = M + 1
    BY <1>3
  <2> QED BY <1>3, <2>1
<1>10. ClientOK(top, o)
  <2> HIDE DEF x, M, L, sub
  <2>1. \A n \in 1..M : n + 1 \in 1..L
    BY <1>9
  <2>2. \A n \in 1..M : x(n + 1) <= top
    BY <1>8, <2>1
  <2>3. \A m, n \in 1..M : m < n => x(m + 1) < x(n + 1)
    BY <1>8, <1>9, <2>1
  <2>4. ~sub.lost => \A n \in 1..M : x(n + 1) + M = top + n
    <3> SUFFICES ASSUME ~sub.lost, NEW n \in 1..M
                 PROVE  x(n + 1) + M = top + n
      OBVIOUS
    <3>1. x(n + 1) \in Nat /\ x(n + 1) + L = top + (n + 1)
      BY <1>8, <2>1
    <3> DEFINE z == x(n + 1)
    <3>2. z \in Nat /\ z + (M + 1) = top + (n + 1) /\ M \in Nat /\ top \in Nat
      BY <1>1, <1>9, <3>1
    <3> HIDE DEF z, top
    <3>3. z + M = top + n
      BY <3>2
    <3> QED BY <3>3 DEF z
  <2>5. sub.sawAll => x(1) + M = top
    <3> SUFFICES ASSUME sub.sawAll
                 PROVE  x(1) + M = top
      OBVIOUS
    <3>1. x(1) \in Nat /\ x(1) + L = top + 1
      BY <1>8, <1>9
    <3> DEFINE z == x(1)
    <3>2. z \in Nat /\ z + (M + 1) = top + 1 /\ M \in Nat /\ top \in Nat
      BY <1>1, <1>9, <3>1
    <3> HIDE DEF z, top
    <3>3. z + M = top
      BY <3>2
    <3> QED BY <3>3 DEF z
  <2>6. x(1) <= top
    BY <1>8, <1>9
  <2> QED BY <1>6, <1>7, <1>8, <1>9, <2>2, <2>3, <2>4, <2>5, <2>6 DEF ClientOK, M
<1>11. /\ HubOK(g) /\ g.eventID = h.eventID /\ g.events = h.events /\ g.subs[s] = o
       /\ \A t \in Subscribers \ {s} : g.subs[t] = h.subs[t]
  <2>1. o \in Subscription /\ ClientOK(h.eventID, o)
    BY <1>6, <1>10
  <2> HIDE DEF sub, L, top, x, M
  <2> QED BY <1>5, <2>1, SlotOK
<1>12. Sound(g.subs[s]) => Sound(sub)
  BY <1>6, <1>11 DEF Sound
<1>13. ASSUME NEW r \in Runs, Tells(sub.chan, r)
       PROVE  (e.run = r /\ e.final) \/ Tells(new, r)
  <2>1. PICK n \in 1..L : sub.chan[n].run = r /\ sub.chan[n].final
    BY <1>13 DEF Tells
  <2>2. CASE n = 1
    BY <1>3, <2>1, <2>2
  <2>3. CASE n # 1
    <3>1. n - 1 \in 1..M /\ (n - 1) + 1 = n
      BY <1>9, <2>3
    <3>2. new[n - 1] = sub.chan[n]
      BY <1>3, <3>1
    <3> QED BY <2>1, <3>1, <3>2 DEF Tells
  <2> QED BY <2>2, <2>3
<1> QED BY <1>6, <1>11, <1>12, <1>13 DEF g, e

LEMMA UnsubscribeOK ==
  ASSUME NEW h, HubOK(h), NEW s \in Subscribers
  PROVE  LET g == Unsubscribe(h, s) IN
         /\ HubOK(g) /\ g.eventID = h.eventID /\ g.events = h.events
         /\ \A t \in Subscribers \ {s} : g.subs[t] = h.subs[t]
         /\ ~Sound(g.subs[s])
<1> DEFINE sub == h.subs[s]
           o   == Disconnected(sub)
           g   == Unsubscribe(h, s)
<1>1. sub \in Subscription /\ h.eventID \in Nat /\ ClientOK(h.eventID, sub)
  BY DEF HubOK, Hub
<1>2. /\ o \in Subscription /\ ~o.open /\ o.chan = << >> /\ o.last = sub.last
      /\ (o.sawAll <=> sub.sawAll)
  BY <1>1, EmptySeq DEF Disconnected, Subscription
<1>3. g = WithSlot(h, s, o)
  BY DEF Unsubscribe, WithSlot
<1> HIDE DEF o, g
<1>4. ClientOK(h.eventID, o)
  <2>1. Len(o.chan) = 0
    BY <1>2
  <2> QED BY <1>1, <1>2, <2>1 DEF ClientOK
<1>5. /\ HubOK(g) /\ g.eventID = h.eventID /\ g.events = h.events /\ g.subs[s] = o
      /\ \A t \in Subscribers \ {s} : g.subs[t] = h.subs[t]
  BY <1>2, <1>3, <1>4, SlotOK
<1> QED BY <1>2, <1>5 DEF Sound, g

LEMMA RestartedOK ==
  ASSUME NEW h, HubOK(h)
  PROVE  LET g == RestartedHub(h) IN
         /\ HubOK(g) /\ g.eventID = 0
         /\ \A s \in Subscribers : ~Sound(g.subs[s])
<1> DEFINE new(s) == [Disconnected(h.subs[s]) EXCEPT !.sawAll = FALSE]
           g == RestartedHub(h)
<1>1. ASSUME NEW s \in Subscribers
      PROVE  /\ new(s) \in Subscription /\ ~new(s).open /\ new(s).chan = << >>
             /\ ~new(s).sawAll
  <2>1. h.subs[s] \in Subscription
    BY DEF HubOK, Hub
  <2> QED BY <2>1, EmptySeq DEF Disconnected, Subscription
<1>2. g = [eventID |-> 0, events |-> << >>, subs |-> [s \in Subscribers |-> new(s)]]
  BY DEF RestartedHub
<1> HIDE DEF new, g
<1>3. /\ g.eventID = 0 /\ g.events = << >>
      /\ \A s \in Subscribers : g.subs[s] = new(s)
      /\ g.subs \in [Subscribers -> Subscription]
  BY <1>1, <1>2
<1>4. g \in Hub
  BY <1>1, <1>2, EmptySeq DEF Hub
<1>5. WindowOK(g.eventID, g.events)
  BY <1>3 DEF WindowOK
<1>6. ASSUME NEW s \in Subscribers
      PROVE  ClientOK(0, new(s)) /\ ~Sound(new(s))
  <2>1. Len(new(s).chan) = 0
    BY <1>1
  <2> QED BY <1>1, <2>1 DEF ClientOK, Sound
<1> QED BY <1>3, <1>4, <1>5, <1>6 DEF HubOK, g
-----------------------------------------------------------------------------
(***************************************************************************)
(* Event streams: every end is told to those who have missed nothing.      *)
(***************************************************************************)
\* Runs move on, and what ends is announced.
LEMMA EndStep ==
  ASSUME StreamsInv, RunsInv, HubOK(hub'), Carries(hub, hub'), UNCHANGED follows,
         \A r \in Runs : state'[r] = "ended" =>
           state[r] = "ended" \/ Announces(hub', r),
         \A r \in Runs : state[r] = "ended" => jobOf'[r] = jobOf[r]
  PROVE  StreamsInv'
<1>1. ASSUME Len(hub'.events) = hub'.eventID, NEW r \in Runs,
             state'[r] = "ended", jobOf'[r] # NoJob
      PROVE  Tells(hub'.events, r)
  <2>1. CASE Announces(hub', r)
    BY <1>1, <2>1 DEF Announces
  <2>2. CASE state[r] = "ended"
    <3>1. Len(hub.events) = hub.eventID /\ (Tells(hub.events, r) => Tells(hub'.events, r))
      BY <1>1 DEF Carries
    <3>2. jobOf[r] # NoJob
      BY <1>1, <2>2
    <3> QED BY <2>2, <3>1, <3>2 DEF StreamsInv, EndsTold
  <2> QED BY <1>1, <2>1, <2>2
<1>2. ASSUME NEW s \in Subscribers, Sound(hub'.subs[s]), follows[s] # NoRun,
             state'[follows[s]] = "ended"
      PROVE  Tells(hub'.subs[s].chan, follows[s])
  <2>1. follows[s] \in Runs
    BY <1>2 DEF StreamsInv
  <2>2. CASE Announces(hub', follows[s])
    BY <1>2, <2>2 DEF Announces
  <2>3. CASE state[follows[s]] = "ended"
    <3>1. /\ Sound(hub.subs[s])
          /\ Tells(hub.subs[s].chan, follows[s]) => Tells(hub'.subs[s].chan, follows[s])
      BY <1>2, <2>1 DEF Carries
    <3> QED BY <1>2, <2>3, <3>1 DEF StreamsInv, EndsTold, Sound
  <2> QED BY <1>2, <2>1, <2>2, <2>3
<1>3. EndsTold'
  BY <1>1, <1>2 DEF EndsTold, Tells, Sound
<1> QED BY <1>3 DEF StreamsInv, HubOK

LEMMA CarriesSelf ==
  ASSUME NEW h
  PROVE  Carries(h, h)
  BY DEF Carries

\* What the runs do without an event ends none of them.
LEMMA StreamsSame ==
  ASSUME StreamsInv, UNCHANGED <<streamVars, state, jobOf>>
  PROVE  StreamsInv'
  BY DEF StreamsInv, streamVars, HubOK, EndsTold, Tells

LEMMA ReserveStreams ==
  ASSUME JobsInv, RunsInv, StreamsInv, NEW q \in Requests, Reserve(q)
  PROVE  StreamsInv'
<1> DEFINE j == req[q].job
<1>1. j \in Jobs
  BY DEF Reserve, JobsInv, AskedOK
<1>2. PICK r \in Runs :
        /\ Life!Start(r, j)
        /\ hub' = IF r \in Ended THEN Publish(hub, r, "skipped_overlap")
                  ELSE Publish(Displaced(Ended), r, "queued")
  BY DEF Reserve, Ended
<1>3. /\ r \in Ended => Ended = {r}
      /\ Ended = {} \/ \E p \in Runs : Ended = {p}
  BY <1>1, <1>2, StartEnds
<1>4. state[r] = "none" /\ \A p \in Runs \ {r} : jobOf'[p] = jobOf[p]
  BY <1>1, <1>2, StartRuns
<1>5. HubOK(hub) /\ "skipped_overlap" \in Terminal
  BY DEF StreamsInv, Terminal
<1>6. HubOK(hub') /\ Carries(hub, hub') /\ \A p \in Ended : Announces(hub', p)
  <2>1. CASE r \in Ended
    <3>1. hub' = Publish(hub, r, "skipped_overlap") /\ Ended = {r}
      BY <1>2, <1>3, <2>1
    <3> QED BY <1>5, <3>1, PublishOK
  <2>2. CASE r \notin Ended /\ Ended = {}
    <3>1. hub' = Publish(hub, r, "queued")
      BY <1>2, <2>2 DEF Displaced
    <3> QED BY <1>5, <2>2, <3>1, PublishOK
  <2>3. ASSUME r \notin Ended, NEW p \in Runs, Ended = {p}
        PROVE  HubOK(hub') /\ Carries(hub, hub') /\ Announces(hub', p)
    <3> DEFINE g == Publish(hub, p, "skipped_overlap")
    <3>1. (CHOOSE x \in Ended : TRUE) = p /\ Ended # {}
      BY <2>3
    <3>2. Displaced(Ended) = g
      BY <3>1 DEF Displaced
    <3>3. HubOK(g) /\ Carries(hub, g) /\ Announces(g, p)
      BY <1>5, PublishOK
    <3>4. hub' = Publish(g, r, "queued")
      BY <1>2, <2>3, <3>2
    <3> HIDE DEF g
    <3>5. HubOK(hub') /\ Carries(g, hub')
      BY <3>3, <3>4, PublishOK
    <3> QED BY <3>3, <3>5, CarriesOn
  <2> QED BY <1>3, <2>1, <2>2, <2>3
<1>7. UNCHANGED follows
  BY DEF Reserve
<1>8. \A p \in Runs : state'[p] = "ended" => state[p] = "ended" \/ p \in Ended
  BY DEF Ended
<1>9. \A p \in Runs : state[p] = "ended" => jobOf'[p] = jobOf[p]
  BY <1>4
<1> QED BY <1>6, <1>7, <1>8, <1>9, EndStep

LEMMA EndsStreams ==
  ASSUME RunsInv, StreamsInv, NEW r \in Runs, NEW status \in Terminal,
         Ends(r, status), UNCHANGED follows
  PROVE  StreamsInv'
<1>1. Life!End(r) /\ hub' = Publish(hub, r, status)
  BY DEF Ends, Say
<1>2. UNCHANGED jobOf /\ \A p \in Runs \ {r} : state'[p] = state[p]
  BY <1>1, EndRuns
<1>3. HubOK(hub') /\ Carries(hub, hub') /\ Announces(hub', r)
  BY <1>1, PublishOK DEF StreamsInv
<1> QED BY <1>2, <1>3, EndStep

LEMMA StopStreams ==
  ASSUME RunsInv, StreamsInv, NEW r \in Runs, StopRun(r), UNCHANGED follows
  PROVE  StreamsInv'
  BY EndsStreams, StreamsSame DEF StopRun, Terminal, streamVars, lifeVars

\* An event of a run that does not end with it.
LEMMA SayStreams ==
  ASSUME RunsInv, StreamsInv, NEW r \in Runs, NEW status,
         hub' = Publish(hub, r, status), UNCHANGED <<follows, jobOf>>,
         \A p \in Runs : state'[p] = "ended" => state[p] = "ended"
  PROVE  StreamsInv'
<1>1. HubOK(hub') /\ Carries(hub, hub')
  BY PublishOK DEF StreamsInv
<1> QED BY <1>1, EndStep

LEMMA RunStepStreams ==
  ASSUME RunsInv, StreamsInv, NEW r \in Runs, RunStep(r)
  PROVE  StreamsInv'
<1>1. UNCHANGED follows
  BY DEF RunStep, RunStarts, LogLine, RunEnds, Record, Stop, calm
<1>2. CASE RunStarts(r)
  <2>1. hub' = Publish(hub, r, "running") /\ UNCHANGED jobOf
    BY <1>2 DEF RunStarts, Say, Life!Run
  <2>2. \A p \in Runs : state'[p] = "ended" => state[p] = "ended"
    BY <1>2 DEF RunStarts, Life!Run, RunsInv, Life!TypeOK
  <2> QED BY <1>1, <2>1, <2>2, SayStreams
<1>3. CASE LogLine(r)
  <2>1. hub' = Publish(hub, r, "running") /\ UNCHANGED lifeVars
    BY <1>3 DEF LogLine
  <2> QED BY <1>1, <2>1, SayStreams DEF lifeVars
<1>4. CASE RunEnds(r)
  BY <1>1, <1>4, EndsStreams DEF RunEnds, Terminal
<1>5. CASE Record(r)
  <2>1. UNCHANGED lifeVars /\ (UNCHANGED hub \/ hub' = Publish(hub, r, "succeeded"))
    BY <1>5 DEF Record, Say
  <2> QED BY <1>1, <2>1, SayStreams, StreamsSame DEF lifeVars, streamVars
<1>6. CASE Stop(r)
  BY <1>1, <1>6, StopStreams DEF Stop
<1> QED BY <1>2, <1>3, <1>4, <1>5, <1>6 DEF RunStep

\* One client connects, reads or goes away; the others and the runs stand.
LEMMA SlotStreams ==
  ASSUME StreamsInv, NEW s \in Subscribers, UNCHANGED lifeVars,
         HubOK(hub'), hub'.eventID = hub.eventID, hub'.events = hub.events,
         \A t \in Subscribers \ {s} : hub'.subs[t] = hub.subs[t],
         follows' \in [Subscribers -> Runs \cup {NoRun}],
         \A t \in Subscribers \ {s} : follows'[t] = follows[t],
         Sound(hub'.subs[s]) /\ follows'[s] # NoRun /\ state[follows'[s]] = "ended"
           => Tells(hub'.subs[s].chan, follows'[s])
  PROVE  StreamsInv'
<1>1. UNCHANGED state /\ UNCHANGED jobOf
  BY DEF lifeVars
<1>2. Len(hub'.events) = hub'.eventID =>
        \A r \in Runs : state'[r] = "ended" /\ jobOf'[r] # NoJob =>
                          Tells(hub'.events, r)
  BY <1>1 DEF StreamsInv, EndsTold
<1>3. ASSUME NEW t \in Subscribers, Sound(hub'.subs[t]), follows'[t] # NoRun,
             state'[follows'[t]] = "ended"
      PROVE  Tells(hub'.subs[t].chan, follows'[t])
  <2>1. CASE t = s
    BY <1>1, <1>3, <2>1
  <2>2. CASE t # s
    <3>1. hub'.subs[t] = hub.subs[t] /\ follows'[t] = follows[t]
      BY <2>2
    <3> QED BY <1>1, <1>3, <3>1 DEF StreamsInv, EndsTold, Sound
  <2> QED BY <2>1, <2>2
<1>4. EndsTold'
  BY <1>2, <1>3 DEF EndsTold, Tells, Sound
<1> QED BY <1>4 DEF StreamsInv, HubOK

LEMMA OpenStreams ==
  ASSUME RunsInv, StreamsInv, NEW s \in Subscribers, StreamOpen(s) \/ FollowOpen(s)
  PROVE  StreamsInv'
<1>0. HubOK(hub) /\ follows \in [Subscribers -> Runs \cup {NoRun}] /\ UNCHANGED lifeVars
  BY DEF StreamsInv, StreamOpen, FollowOpen, still
<1>1. hub.subs[s].last \in Nat /\ (hub.subs[s].sawAll => hub.subs[s].last <= hub.eventID)
      /\ hub.eventID \in Nat
  BY <1>0 DEF HubOK, ClientOK, Hub, Subscription
<1>2. CASE StreamOpen(s)
  <2> DEFINE after == IF follows[s] = NoRun THEN hub.subs[s].last ELSE 0
             g == Subscribe(hub, s, after)
  <2>1. hub' = g /\ follows' = [follows EXCEPT ![s] = NoRun]
    BY <1>2 DEF StreamOpen
  <2>2. after \in Nat /\ (hub.subs[s].sawAll => after <= hub.eventID)
    BY <1>1
  <2> HIDE DEF after
  <2>3. /\ HubOK(g) /\ g.eventID = hub.eventID /\ g.events = hub.events
        /\ \A t \in Subscribers \ {s} : g.subs[t] = hub.subs[t]
    BY <1>0, <2>2, SubscribeOK
  <2>4. /\ follows' \in [Subscribers -> Runs \cup {NoRun}] /\ follows'[s] = NoRun
        /\ \A t \in Subscribers \ {s} : follows'[t] = follows[t]
    BY <1>0, <2>1
  <2> HIDE DEF g
  <2> QED BY <1>0, <2>1, <2>3, <2>4, SlotStreams
<1>3. CASE FollowOpen(s)
  <2> DEFINE g == Subscribe(hub, s, 0)
  <2>1. PICK r \in Runs : jobOf[r] # NoJob /\ follows' = [follows EXCEPT ![s] = r]
    BY <1>3 DEF FollowOpen
  <2>2. hub' = g
    BY <1>3 DEF FollowOpen
  <2>3. 0 \in Nat /\ 0 <= hub.eventID
    BY <1>1
  <2>4. /\ HubOK(g) /\ g.eventID = hub.eventID /\ g.events = hub.events
        /\ \A t \in Subscribers \ {s} : g.subs[t] = hub.subs[t]
        /\ Sound(g.subs[s]) =>
             /\ Len(hub.events) = hub.eventID
             /\ Tells(hub.events, r) => Tells(g.subs[s].chan, r)
    BY <1>0, <2>3, SubscribeOK
  <2>5. /\ follows' \in [Subscribers -> Runs \cup {NoRun}] /\ follows'[s] = r
        /\ \A t \in Subscribers \ {s} : follows'[t] = follows[t]
    BY <1>0, <2>1
  <2> HIDE DEF g
  <2>6. Sound(g.subs[s]) /\ state[r] = "ended" => Tells(g.subs[s].chan, r)
    BY <2>1, <2>4 DEF StreamsInv, EndsTold
  <2> QED BY <1>0, <2>2, <2>4, <2>5, <2>6, SlotStreams
<1> QED BY <1>2, <1>3

LEMMA ReadStreams ==
  ASSUME StreamsInv, NEW s \in Subscribers, StreamRead(s) \/ StreamClose(s)
  PROVE  StreamsInv'
<1>0. /\ HubOK(hub) /\ follows \in [Subscribers -> Runs \cup {NoRun}]
      /\ UNCHANGED lifeVars /\ UNCHANGED follows
  BY DEF StreamsInv, StreamRead, StreamClose, still
<1>1. ASSUME NEW h, HubOK(h), h.eventID = hub.eventID, h.events = hub.events,
             \A t \in Subscribers \ {s} : h.subs[t] = hub.subs[t],
             hub' = Unsubscribe(h, s)
      PROVE  StreamsInv'
  <2>1. /\ HubOK(hub') /\ hub'.eventID = hub.eventID /\ hub'.events = hub.events
        /\ \A t \in Subscribers \ {s} : hub'.subs[t] = hub.subs[t]
        /\ ~Sound(hub'.subs[s])
    BY <1>1, UnsubscribeOK
  <2> QED BY <1>0, <2>1, SlotStreams
<1>2. CASE StreamClose(s)
  BY <1>0, <1>1, <1>2 DEF StreamClose
<1>3. CASE StreamRead(s)
  <2> DEFINE g == Deliver(hub, s)
             e == Head(hub.subs[s].chan)
  <2>1. /\ HubOK(g) /\ g.eventID = hub.eventID /\ g.events = hub.events
        /\ \A t \in Subscribers \ {s} : g.subs[t] = hub.subs[t]
        /\ Sound(g.subs[s]) => Sound(hub.subs[s])
        /\ \A r \in Runs : Tells(hub.subs[s].chan, r) =>
             (e.run = r /\ e.final) \/ Tells(g.subs[s].chan, r)
    BY <1>0, <1>3, DeliverOK DEF StreamRead
  <2>2. hub' = IF e.run = follows[s] /\ e.final THEN Unsubscribe(g, s) ELSE g
    BY <1>3 DEF StreamRead, Final
  <2> HIDE DEF g, e
  <2>3. CASE e.run = follows[s] /\ e.final
    BY <1>1, <2>1, <2>2, <2>3
  <2>4. CASE ~(e.run = follows[s] /\ e.final)
    <3>1. hub' = g
      BY <2>2, <2>4
    <3>2. ASSUME Sound(g.subs[s]), follows[s] # NoRun, state[follows[s]] = "ended"
          PROVE  Tells(g.subs[s].chan, follows[s])
      <4>1. follows[s] \in Runs
        BY <1>0, <3>2
      <4>2. Tells(hub.subs[s].chan, follows[s])
        BY <2>1, <3>2 DEF StreamsInv, EndsTold, Sound
      <4> QED BY <2>1, <2>4, <4>1, <4>2
    <3> QED BY <1>0, <2>1, <3>1, <3>2, SlotStreams
  <2> QED BY <2>3, <2>4
<1> QED BY <1>2, <1>3

LEMMA RestartStreams ==
  ASSUME StreamsInv, RunsInv, Restart
  PROVE  StreamsInv'
<1>1. hub' = RestartedHub(hub) /\ UNCHANGED follows
  BY DEF Restart
<1>2. HubOK(hub') /\ \A s \in Subscribers : ~Sound(hub'.subs[s])
  BY <1>1, RestartedOK DEF StreamsInv
<1>3. \A r \in Runs : jobOf'[r] = NoJob
  BY RestartRuns
<1> QED BY <1>1, <1>2, <1>3 DEF StreamsInv, HubOK, EndsTold, Sound, Tells

LEMMA NextStreams == JobsInv /\ RunsInv /\ StreamsInv /\ [Next]_vars => StreamsInv'
<1> SUFFICES ASSUME JobsInv, RunsInv, StreamsInv, [Next]_vars
             PROVE  StreamsInv'
  OBVIOUS
<1>1. ASSUME UNCHANGED <<streamVars, lifeVars>>
      PROVE  StreamsInv'
  BY <1>1, StreamsSame DEF lifeVars
<1>2. ASSUME NEW q \in Requests, Handler(q)
      PROVE  StreamsInv'
  <2>1. CASE Reserve(q)
    BY <2>1, ReserveStreams
  <2>2. CASE ~Reserve(q)
    <3>1. UNCHANGED <<streamVars, lifeVars>>
      BY <1>2, <2>2 DEF Handler, Put, LegacyPutRead, LegacyToggleRead,
         LegacyCloneRead, Update, Create, List, Apply, V1DeleteCheck,
         LegacyDeleteCheck, DeleteCheck, Delete, Purge, V1RunRead, LegacyRunRead,
         TriggerRead, quiet
    <3> QED BY <1>1, <3>1
  <2> QED BY <2>1, <2>2
<1>3. ASSUME NEW r \in Runs, RunStep(r)
      PROVE  StreamsInv'
  BY <1>3, RunStepStreams
<1>4. ASSUME NEW j \in Jobs, LegacyKill(j)
      PROVE  StreamsInv'
  <2>1. PICK r \in Runs : StopRun(r)
    BY <1>4 DEF LegacyKill, RunsInv, Life!TypeOK
  <2> QED BY <1>4, <2>1, StopStreams DEF LegacyKill, calm
<1>5. ASSUME NEW s \in Subscribers, Stream(s)
      PROVE  StreamsInv'
  BY <1>5, OpenStreams, ReadStreams DEF Stream
<1>6. ASSUME NEW r \in Runs, CloseRun(r)
      PROVE  StreamsInv'
  <2>1. UNCHANGED follows /\ (StopRun(r) \/ UNCHANGED <<lifeVars, hub>>)
    BY <1>6 DEF CloseRun
  <2> QED BY <1>1, <2>1, StopStreams DEF streamVars
<1>7. CASE Terminate \/ Deadline \/ TriggersClosed \/ Exit
  BY <1>1, <1>7 DEF Terminate, Deadline, TriggersClosed, Exit, inert
<1>8. CASE Restart
  BY <1>8, RestartStreams
<1>9. CASE UNCHANGED vars
  BY <1>1, <1>9 DEF vars
<1> QED BY <1>2, <1>3, <1>4, <1>5, <1>6, <1>7, <1>8, <1>9 DEF Next, Shutdown

LEMMA InitStreams == Init => StreamsInv
<1> SUFFICES ASSUME Init
             PROVE  StreamsInv
  OBVIOUS
<1> DEFINE sub == [open |-> FALSE, room |-> 0, chan |-> << >>, last |-> 0,
                   lost |-> FALSE, sawAll |-> TRUE]
<1>1. /\ sub \in Subscription /\ ~sub.open /\ sub.chan = << >> /\ sub.last = 0
  BY EmptySeq DEF Subscription
<1>2. hub = [eventID |-> 0, events |-> << >>, subs |-> [s \in Subscribers |-> sub]]
  BY DEF Init, EmptyHub
<1> HIDE DEF sub
<1>3. /\ hub \in Hub /\ hub.eventID = 0 /\ hub.events = << >>
      /\ \A s \in Subscribers : hub.subs[s] = sub
  BY <1>1, <1>2, EmptySeq DEF Hub
<1>4. Len(sub.chan) = 0 /\ Len(hub.events) = 0
  BY <1>1, <1>3
<1>5. ClientOK(0, sub) /\ WindowOK(0, hub.events)
  BY <1>1, <1>4 DEF ClientOK, WindowOK
<1>6. HubOK(hub)
  BY <1>3, <1>5 DEF HubOK
<1>7. \A r \in Runs : state[r] # "ended"
  BY DEF Init, Life!Init
<1>8. EndsTold
  BY <1>1, <1>3, <1>7 DEF EndsTold
<1> QED BY <1>6, <1>8 DEF StreamsInv, Init

\* A client that reconnects where it stopped sees every event once and in
\* order, and a compatibility stream that missed nothing still has the end of
\* its run before it.  (Subscribe, publishLocked, legacyStream)
THEOREM ResumesAreSeamless == Spec => []ResumeIsSeamless
<1>1. StreamsInv => ResumeIsSeamless
  <2> SUFFICES ASSUME StreamsInv, NEW s \in Subscribers
               PROVE  LET sub == hub.subs[s] IN
                      /\ \A m, n \in 1..Len(sub.chan) :
                           m < n => sub.chan[m].id < sub.chan[n].id
                      /\ sub.open /\ ~sub.lost =>
                           \A n \in 1..Len(sub.chan) :
                             sub.chan[n].id + Len(sub.chan) = hub.eventID + n
                      /\ sub.open /\ sub.sawAll =>
                           /\ sub.last + Len(sub.chan) = hub.eventID
                           /\ follows[s] # NoRun /\ state[follows[s]] = "ended" =>
                                \E n \in 1..Len(sub.chan) : Final(sub.chan[n], s)
    BY DEF ResumeIsSeamless
  <2>1. ClientOK(hub.eventID, hub.subs[s])
    BY DEF StreamsInv, HubOK
  <2>2. hub.subs[s].open /\ hub.subs[s].sawAll
        /\ follows[s] # NoRun /\ state[follows[s]] = "ended" =>
          \E n \in 1..Len(hub.subs[s].chan) : Final(hub.subs[s].chan[n], s)
    BY DEF StreamsInv, EndsTold, Tells, Final
  <2> QED BY <2>1, <2>2 DEF ClientOK
<1> QED BY <1>1, InitJobs, InitRuns, InitStreams, NextJobs, NextRuns, NextStreams,
           PTL DEF Spec

LEMMA ReachableApp == Spec => []AppInv
<1>1. Init => AppInv
  BY InitJobs, InitRuns, InitDelete, InitExit, InitStreams DEF AppInv
<1>2. AppInv /\ [Next]_vars => AppInv'
  BY NextJobs, NextRuns, NextDelete, NextExit, NextStreams DEF AppInv
<1> QED BY <1>1, <1>2, PTL DEF Spec

\* Every variable keeps its type; the history of a job never holds more than
\* HistKeep records.  (list[:histKeep])
THEOREM AppTypeCorrect == Spec => []TypeOK
<1>1. AppInv => TypeOK
  BY DEF AppInv, JobsInv, RunsInv, DeleteInv, ExitInv, StreamsInv, HubOK, TypeOK
<1> QED BY <1>1, ReachableApp, PTL
-----------------------------------------------------------------------------
(***************************************************************************)
(* App.System, the SystemService of the app.  It shares no state with the  *)
(* jobs and the runs; its requests are requests of the same API.  What a   *)
(* handler holds (HandlersOK) and what was recorded (TrashOK) decide which *)
(* entry a request may take out of the trash, hence what is kept (KeptOK). *)
(***************************************************************************)
CronLine == [def : Defs, off : BOOLEAN]

\* An entry that can be restored is a line of a cron file or a whole unit.
EntryOK(e) ==
  /\ e \in Entry
  /\ e.restorable => \/ e.file \in CronFiles /\ e.line.def \in Defs
                     \/ e.file \in Units /\ e.line.def = Whole

Call ==
  [op : {"none", "toggle", "delete", "restore"}, step : CallSteps,
   file : Places \cup {"none"}, def : Defs \cup {Whole}, lines : Seq(CronLine),
   on : BOOLEAN, entry : Entry \cup {<< >>}]

\* The entry that request q made of the item it is about.
Mine(q, r) == EntryOK(r.entry) /\ r.entry.ts = q /\ r.entry.file = r.file

\* What the local variables r of the handler of request q hold at each step.
HandlerOK(q, r) ==
  /\ r.step \in {"new", "done"} <=> r.op = "none"
  /\ r.op = "restore" => /\ r.step \in {"read", "replace", "command", "reload", "purge"}
                         /\ EntryOK(r.entry) /\ r.entry.restorable
                         /\ r.entry.file = r.file
  /\ r.step = "replace" => r.file \in CronFiles
  /\ r.step = "replace" /\ r.op # "restore" =>
       /\ Matches(r.lines, r.def) # {}
       /\ Mine(q, r) /\ r.entry.restorable /\ r.entry.line.def = r.def
  /\ r.step = "command" => r.file \in Units
  /\ r.step \in {"disable", "remove"} =>
       /\ r.op = "delete" /\ r.file \in Units
       /\ Mine(q, r) /\ r.entry.restorable /\ r.entry.line.def = Whole
  /\ r.step = "signal" => Mine(q, r) /\ ~r.entry.restorable
  /\ r.step = "trash" => r.op = "delete" /\ Mine(q, r)
  /\ r.step \in {"reload", "purge"} => r.op = "restore"

HandlersOK ==
  /\ cron \in [CronFiles -> Seq(CronLine)] /\ present \subseteq Units
  /\ call \in [Calls -> Call]
  /\ \A q \in Calls : HandlerOK(q, call[q])

\* The entries in the trash and the ones that requests are about to restore.
Restoring == {q \in Calls : call[q].op = "restore"}
Recorded  == {trash[n] : n \in 1..Len(trash)} \cup {call[q].entry : q \in Restoring}

\* They were made by requests that have ended, one by each.
TrashOK ==
  /\ trash \in Seq(Entry)
  /\ \A e \in Recorded : EntryOK(e) /\ call[e.ts].step = "done"
  /\ \A e1, e2 \in Recorded : e1.ts = e2.ts => e1.line.def = e2.line.def

Items == (CronFiles \X Defs) \cup (Units \X {Whole})

OnHost(f, d) ==
  \/ f \in CronFiles /\ \E n \in 1..Len(cron[f]) : cron[f][n].def = d
  \/ f \in present /\ d = Whole

\* An entry that a request has restored and is about to take out of the trash.
Purging(e) == \E q \in Calls : /\ call[q].step \in {"reload", "purge"}
                               /\ Restored(e, call[q].entry)

\* Stronger than DefinitionsSurvive: an entry about to be taken out of the
\* trash is not what a definition survives by.
Kept(f, d) ==
  \/ OnHost(f, d)
  \/ \E q \in Calls : /\ call[q].step = "trash" /\ call[q].entry.restorable
                      /\ ItemOf(call[q].entry) = <<f, d>>
  \/ \E n \in 1..Len(trash) : /\ trash[n].restorable
                              /\ ItemOf(trash[n]) = <<f, d>>
                              /\ ~Purging(trash[n])

KeptOK == \A i \in Items \ atRisk : Kept(i[1], i[2])

SystemInv == HandlersOK /\ TrashOK /\ KeptOK

(***************************************************************************)
(* Steps of one request.                                                   *)
(***************************************************************************)
LEMMA EntryFields ==
  ASSUME NEW e \in Entry
  PROVE  /\ e.ts \in Calls /\ e.file \in Places /\ e.line.def \in Defs \cup {Whole}
         /\ e.line.off \in BOOLEAN /\ e.restorable \in BOOLEAN /\ e # << >>
         /\ e.line = [def |-> e.line.def, off |-> e.line.off]
BY DEF Entry, Line

\* Every field but the step is the same.
SameBut(r, s) ==
  /\ s.op = r.op /\ s.file = r.file /\ s.def = r.def /\ s.lines = r.lines
  /\ (s.on <=> r.on) /\ s.entry = r.entry

\* Only request q moves.
Moves(q) ==
  /\ call' \in [Calls -> Call]
  /\ \A p \in Calls \ {q} : call'[p] = call[p]

LEMMA GotoMoves ==
  ASSUME call \in [Calls -> Call], NEW q \in Calls,
         NEW step \in CallSteps, Goto(q, step)
  PROVE  /\ Moves(q) /\ call'[q].step = step
         /\ SameBut(call[q], call'[q])
<1>1. call' = [call EXCEPT ![q] = [call[q] EXCEPT !.step = step]]
  BY DEF Goto
<1>2. [call[q] EXCEPT !.step = step] \in Call
  BY DEF Call
<1> QED BY <1>1, <1>2 DEF Moves, SameBut, Call

LEMMA NoCallFacts ==
  /\ NoCall \in Call /\ Answered \in Call
  /\ NoCall.step = "new" /\ Answered.step = "done"
  /\ NoCall.op = "none" /\ Answered.op = "none"
  /\ NoCall.def = Whole /\ NoCall.lines = << >> /\ NoCall.on = FALSE
  /\ NoCall.entry = << >>
BY EmptySeq DEF NoCall, Answered, Call, CallSteps

LEMMA AnswerMoves ==
  ASSUME call \in [Calls -> Call], NEW q \in Calls, Answer(q)
  PROVE  /\ Moves(q) /\ call'[q].step = "done" /\ call'[q].op = "none"
         /\ HandlerOK(q, call'[q])
<1>1. call' = [call EXCEPT ![q] = Answered]
  BY DEF Answer
<1>2. Moves(q) /\ call'[q] = Answered
  BY <1>1, NoCallFacts DEF Moves
<1> QED BY <1>2, NoCallFacts DEF HandlerOK

LEMMA HandlersMove ==
  ASSUME HandlersOK, NEW q \in Calls, Moves(q), HandlerOK(q, call'[q]),
         cron' \in [CronFiles -> Seq(CronLine)], present' \subseteq Units
  PROVE  HandlersOK'
<1>1. \A p \in Calls : HandlerOK(p, call'[p])
  <2> SUFFICES ASSUME NEW p \in Calls PROVE HandlerOK(p, call'[p])
    OBVIOUS
  <2> QED BY DEF HandlersOK, Moves
<1>2. (\A p \in Calls : HandlerOK(p, call[p]))'
  BY <1>1 DEF HandlerOK, Mine, EntryOK, Matches, Entry, Line, Places
<1> QED BY <1>2 DEF HandlersOK, Moves, Call, CallSteps, Places, Entry, Line, CronLine

\* Request q, which has not ended, takes a step of its handler; what it
\* restores was recorded before.
HandlerStep(q) ==
  /\ Moves(q) /\ HandlerOK(q, call'[q]) /\ call[q].step # "done"
  /\ call'[q].op = "restore" => call'[q].entry \in Recorded

\* A step that moves no definition.
Quiet(q) ==
  /\ UNCHANGED <<cron, present, trash, atRisk>>
  /\ call[q].step # "trash"
  /\ call'[q].step \in {"reload", "purge"} =>
       call[q].step = "reload" /\ call'[q].entry = call[q].entry

LEMMA CurrentItemStep ==
  ASSUME HandlersOK, TrashOK, NEW q \in Calls, CurrentItem(q)
  PROVE  HandlerStep(q) /\ Quiet(q)
<1>1. PICK op \in {"toggle", "delete"}, f \in Places, d \in Defs \cup {Whole} :
        call' = [call EXCEPT ![q] = [NoCall EXCEPT !.op = op, !.step = "read",
                                                 !.file = f, !.def = d]]
  BY DEF CurrentItem
<1> DEFINE s == [NoCall EXCEPT !.op = op, !.step = "read", !.file = f, !.def = d]
<1>2. s \in Call /\ s.op = op /\ s.step = "read"
  BY NoCallFacts DEF NoCall, Call, CallSteps
<1> HIDE DEF s
<1>3. Moves(q) /\ call'[q] = s
  BY <1>1, <1>2 DEF s, Moves, HandlersOK
<1>4. HandlerOK(q, s)
  BY <1>2 DEF HandlerOK
<1> QED BY <1>2, <1>3, <1>4 DEF HandlerStep, Quiet, CurrentItem, At, hostVars

LEMMA RestoreRequestStep ==
  ASSUME HandlersOK, TrashOK, NEW q \in Calls, RestoreRequest(q)
  PROVE  HandlerStep(q) /\ Quiet(q)
<1>1. PICK n \in 1..Len(trash) :
        /\ trash[n].restorable
        /\ call' = [call EXCEPT ![q] =
             [NoCall EXCEPT !.op = "restore", !.step = "read", !.file = trash[n].file,
                         !.def = trash[n].line.def, !.entry = trash[n]]]
  BY DEF RestoreRequest
<1> DEFINE e == trash[n]
<1> DEFINE s == [NoCall EXCEPT !.op = "restore", !.step = "read", !.file = e.file,
                         !.def = e.line.def, !.entry = e]
<1>a. e \in Recorded
  BY DEF Recorded
<1>b. EntryOK(e)
  BY <1>a DEF TrashOK
<1>c. e \in Entry /\ e.file \in Places /\ e.line.def \in Defs \cup {Whole} /\ e.restorable
  BY <1>1, <1>b, EntryFields DEF EntryOK
<1>d. call' = [call EXCEPT ![q] = s]
  BY <1>1
<1> HIDE DEF e
<1>2. s \in Call /\ s.op = "restore" /\ s.step = "read" /\ s.entry = e /\ s.file = e.file
  BY NoCallFacts, <1>c DEF NoCall, Call, CallSteps
<1> HIDE DEF s
<1>3. Moves(q) /\ call'[q] = s
  BY <1>d, <1>2 DEF Moves, HandlersOK
<1>4. HandlerOK(q, s)
  BY <1>2, <1>b, <1>c DEF HandlerOK
<1> QED BY <1>2, <1>3, <1>4, <1>a DEF HandlerStep, Quiet, RestoreRequest, At, hostVars

LEMMA FirstMatches ==
  ASSUME NEW lines \in Seq(CronLine), NEW d, Matches(lines, d) # {}
  PROVE  LET n == First(lines, d) IN
         n \in 1..Len(lines) /\ lines[n] \in CronLine /\ lines[n].def = d
<1> DEFINE M == Matches(lines, d)
<1>1. M \subseteq Nat /\ M # {}
  BY DEF Matches
<1> HIDE DEF M
<1>2. \E n \in M : \A m \in M : n <= m
  <2> DEFINE R == OpToRel(<, Nat)
  <2>1. \A m, n \in Nat : <<m, n>> \in R <=> m < n
    BY DEF OpToRel
  <2>2. IsWellFoundedOn(R, Nat)
    BY NatLessThanWellFounded
  <2> HIDE DEF R
  <2>3. PICK n \in M : \A m \in M : <<m, n>> \notin R
    BY <1>1, <2>2, WFMin
  <2>4. \A m \in M : m \in Nat /\ n \in Nat /\ ~(m < n)
    BY <1>1, <2>1, <2>3
  <2>5. \A m \in M : n <= m
    BY <2>4
  <2> QED BY <2>3, <2>5
<1>3. First(lines, d) \in M
  BY <1>2 DEF First, M
<1> QED BY <1>3 DEF Matches, M

LEMMA ReadCronStep ==
  ASSUME HandlersOK, TrashOK, NEW q \in Calls, ReadCron(q)
  PROVE  HandlerStep(q) /\ Quiet(q)
<1> DEFINE r == call[q]
           f == call[q].file
           d == call[q].def
           lines == cron[f]
<1>1. /\ r \in Call /\ r.step = "read" /\ f \in CronFiles /\ lines \in Seq(CronLine)
      /\ HandlerOK(q, r) /\ UNCHANGED <<cron, present, trash, atRisk>>
  BY DEF ReadCron, At, HandlersOK, hostVars
<1>2. CASE r.op = "restore" /\ \E seen \in {lines, << >>} :
             call' = [call EXCEPT ![q].step = "replace", ![q].lines = seen]
  <2>1. PICK seen \in {lines, << >>} :
          call' = [call EXCEPT ![q].step = "replace", ![q].lines = seen]
    BY <1>2
  <2> DEFINE s == [r EXCEPT !.step = "replace", !.lines = seen]
  <2>2. seen \in Seq(CronLine)
    BY <1>1, EmptySeq
  <2>3. s \in Call /\ s.op = r.op /\ s.step = "replace" /\ s.entry = r.entry /\ s.file = r.file
    BY <1>1, <2>2 DEF Call, CallSteps
  <2>4. Moves(q) /\ call'[q] = s
    BY <2>1, <2>3 DEF Moves, HandlersOK
  <2> HIDE DEF s
  <2>5. HandlerOK(q, s)
    BY <1>1, <1>2, <2>3 DEF HandlerOK
  <2>6. r.entry \in Recorded
    BY <1>2 DEF Recorded, Restoring
  <2> QED BY <1>1, <2>3, <2>4, <2>5, <2>6 DEF HandlerStep, Quiet
<1>3. CASE /\ r.op # "restore" /\ Matches(lines, d) # {}
           /\ call' = [call EXCEPT ![q].step = "replace", ![q].lines = lines,
                ![q].entry = EntryOf(q, lines[First(lines, d)], TRUE)]
  <2> DEFINE l == lines[First(lines, d)]
             e == EntryOf(q, l, TRUE)
             s == [r EXCEPT !.step = "replace", !.lines = lines, !.entry = e]
  <2>1. l \in CronLine /\ l.def = d
    BY <1>1, <1>3, FirstMatches
  <2> HIDE DEF l
  <2>2. /\ e \in Entry /\ e.ts = q /\ e.file = f /\ e.line = l /\ e.restorable = TRUE
        /\ l.def \in Defs
    BY <1>1, <2>1 DEF EntryOf, Entry, Line, Places, CronLine
  <2>a. call' = [call EXCEPT ![q].step = "replace", ![q].lines = lines, ![q].entry = e]
    BY <1>3 DEF l
  <2> HIDE DEF e
  <2>3. s \in Call /\ s.op = r.op /\ s.step = "replace" /\ s.entry = e /\ s.file = f
        /\ s.lines = lines /\ s.def = d
    BY <1>1, <2>2 DEF Call, CallSteps
  <2>4. Moves(q) /\ call'[q] = s
    BY <2>a, <2>3 DEF Moves, HandlersOK
  <2> HIDE DEF s
  <2>5. Mine(q, s)
    BY <1>1, <2>1, <2>2, <2>3 DEF Mine, EntryOK
  <2>6. HandlerOK(q, s)
    BY <1>1, <1>3, <2>1, <2>2, <2>3, <2>5 DEF HandlerOK
  <2> QED BY <1>1, <1>3, <2>3, <2>4, <2>6 DEF HandlerStep, Quiet
<1>4. CASE r.op # "restore" /\ Answer(q)
  BY <1>1, <1>4, AnswerMoves DEF HandlerStep, Quiet, HandlersOK
<1> QED BY <1>2, <1>3, <1>4 DEF ReadCron

LEMMA ReadUnitStep ==
  ASSUME HandlersOK, TrashOK, NEW q \in Calls, ReadUnit(q)
  PROVE  HandlerStep(q) /\ Quiet(q)
<1> DEFINE r == call[q]
           u == call[q].file
<1>1. /\ r \in Call /\ r.step = "read" /\ u \in Units
      /\ HandlerOK(q, r) /\ UNCHANGED <<cron, present, trash, atRisk>>
  BY DEF ReadUnit, At, HandlersOK, hostVars
<1>2. CASE /\ r.op = "toggle"
           /\ call' = [call EXCEPT ![q].step = "command", ![q].on = u \in unitsOn]
  <2> DEFINE b == u \in unitsOn
             s == [r EXCEPT !.step = "command", !.on = b]
  <2>0. b \in BOOLEAN
    OBVIOUS
  <2>a. call' = [call EXCEPT ![q].step = "command", ![q].on = b]
    BY <1>2
  <2> HIDE DEF b
  <2>1. s \in Call /\ s.op = "toggle" /\ s.step = "command" /\ s.file = u
    BY <1>1, <1>2, <2>0 DEF Call, CallSteps
  <2>2. Moves(q) /\ call'[q] = s
    BY <2>a, <2>1 DEF Moves, HandlersOK
  <2> HIDE DEF s
  <2>3. HandlerOK(q, s)
    BY <1>1, <2>1 DEF HandlerOK
  <2> QED BY <1>1, <2>1, <2>2, <2>3 DEF HandlerStep, Quiet
<1>3. CASE /\ r.op = "delete" /\ u \in present
           /\ call' = [call EXCEPT ![q].step = "disable",
                           ![q].entry = EntryOf(q, UnitLine, TRUE)]
  <2> DEFINE e == EntryOf(q, UnitLine, TRUE)
             s == [r EXCEPT !.step = "disable", !.entry = e]
  <2>1. /\ e \in Entry /\ e.ts = q /\ e.file = u /\ e.restorable = TRUE
        /\ e.line.def = Whole
    BY <1>1 DEF EntryOf, Entry, Line, Places, UnitLine
  <2>a. call' = [call EXCEPT ![q].step = "disable", ![q].entry = e]
    BY <1>3
  <2> HIDE DEF e
  <2>2. s \in Call /\ s.op = "delete" /\ s.step = "disable" /\ s.entry = e /\ s.file = u
    BY <1>1, <1>3, <2>1 DEF Call, CallSteps
  <2>3. Moves(q) /\ call'[q] = s
    BY <2>a, <2>2 DEF Moves, HandlersOK
  <2> HIDE DEF s
  <2>4. Mine(q, s)
    BY <1>1, <2>1, <2>2 DEF Mine, EntryOK
  <2>5. HandlerOK(q, s)
    BY <1>1, <2>1, <2>2, <2>4 DEF HandlerOK
  <2> QED BY <1>1, <2>2, <2>3, <2>5 DEF HandlerStep, Quiet
<1>4. CASE r.op = "delete" /\ Answer(q)
  BY <1>1, <1>4, AnswerMoves DEF HandlerStep, Quiet, HandlersOK
<1>5. CASE r.op = "restore" /\ Goto(q, "command")
  <2>1. /\ Moves(q) /\ call'[q].step = "command"
        /\ SameBut(r, call'[q])
    BY <1>5, GotoMoves DEF HandlersOK, CallSteps
  <2>2. HandlerOK(q, call'[q])
    BY <1>1, <1>5, <2>1 DEF HandlerOK, SameBut
  <2>3. r.entry \in Recorded
    BY <1>5 DEF Recorded, Restoring
  <2> QED BY <1>1, <2>1, <2>2, <2>3 DEF HandlerStep, Quiet, SameBut
<1> QED BY <1>2, <1>3, <1>4, <1>5 DEF ReadUnit

LEMMA UnitCommandStep ==
  ASSUME HandlersOK, TrashOK, NEW q \in Calls,
         ToggleUnit(q) \/ DisableUnit(q) \/ ReloadUnits(q)
  PROVE  HandlerStep(q) /\ Quiet(q)
<1> DEFINE r == call[q]
<1>0. r \in Call /\ HandlerOK(q, r) /\ call \in [Calls -> Call]
  BY DEF HandlersOK
<1>1. CASE ToggleUnit(q)
  BY <1>0, <1>1, AnswerMoves DEF HandlerStep, Quiet, ToggleUnit, At
<1>2. CASE DisableUnit(q)
  <2>1. /\ Moves(q) /\ call'[q].step = "remove" /\ SameBut(r, call'[q])
        /\ r.step = "disable" /\ UNCHANGED <<cron, present, trash, atRisk>>
    BY <1>0, <1>2, GotoMoves DEF CallSteps, DisableUnit, At
  <2>2. HandlerOK(q, call'[q])
    BY <1>0, <2>1 DEF HandlerOK, SameBut, Mine
  <2> QED BY <1>0, <2>1, <2>2 DEF HandlerStep, Quiet, SameBut, HandlerOK
<1>3. CASE ReloadUnits(q) /\ Goto(q, "purge")
  <2>1. /\ Moves(q) /\ call'[q].step = "purge" /\ SameBut(r, call'[q])
        /\ r.step = "reload" /\ UNCHANGED <<cron, present, trash, atRisk>>
    BY <1>0, <1>3, GotoMoves DEF CallSteps, ReloadUnits, At, hostVars
  <2>2. HandlerOK(q, call'[q])
    BY <1>0, <2>1 DEF HandlerOK, SameBut
  <2>3. r.entry \in Recorded
    BY <1>0, <2>1 DEF Recorded, Restoring, HandlerOK
  <2> QED BY <1>0, <2>1, <2>2, <2>3 DEF HandlerStep, Quiet, SameBut
<1>4. CASE ReloadUnits(q) /\ Answer(q)
  BY <1>0, <1>4, AnswerMoves DEF HandlerStep, Quiet, ReloadUnits, At, hostVars
<1> QED BY <1>1, <1>2, <1>3, <1>4 DEF ReloadUnits

LEMMA ReadProcessStep ==
  ASSUME HandlersOK, TrashOK, NEW q \in Calls, ReadProcess(q)
  PROVE  HandlerStep(q) /\ Quiet(q)
<1> DEFINE r == call[q]
           p == call[q].file
<1>1. /\ r \in Call /\ r.step = "read" /\ p \in Pids
      /\ HandlerOK(q, r) /\ UNCHANGED <<cron, present, trash, atRisk>>
  BY DEF ReadProcess, At, HandlersOK, hostVars
<1>2. r.op # "restore" /\ r.op # "none"
  BY <1>1, SystemAssumption DEF HandlerOK, EntryOK
<1>3. CASE Answer(q)
  BY <1>1, <1>3, AnswerMoves DEF HandlerStep, Quiet, HandlersOK
<1>4. CASE call' = [call EXCEPT ![q].step = "signal",
                           ![q].entry = EntryOf(q, UnitLine, FALSE)]
  <2> DEFINE e == EntryOf(q, UnitLine, FALSE)
             s == [r EXCEPT !.step = "signal", !.entry = e]
  <2>1. /\ e \in Entry /\ e.ts = q /\ e.file = p /\ e.restorable = FALSE
    BY <1>1 DEF EntryOf, Entry, Line, Places, UnitLine
  <2>a. call' = [call EXCEPT ![q].step = "signal", ![q].entry = e]
    BY <1>4
  <2> HIDE DEF e
  <2>2. s \in Call /\ s.op = r.op /\ s.step = "signal" /\ s.entry = e /\ s.file = p
    BY <1>1, <2>1 DEF Call, CallSteps
  <2>3. Moves(q) /\ call'[q] = s
    BY <2>a, <2>2 DEF Moves, HandlersOK
  <2> HIDE DEF s
  <2>4. Mine(q, s)
    BY <1>1, <2>1, <2>2 DEF Mine, EntryOK
  <2>5. HandlerOK(q, s)
    BY <1>1, <1>2, <2>1, <2>2, <2>4 DEF HandlerOK
  <2> QED BY <1>1, <1>2, <2>2, <2>3, <2>5 DEF HandlerStep, Quiet
<1> QED BY <1>3, <1>4 DEF ReadProcess

LEMMA SignalStep ==
  ASSUME HandlersOK, TrashOK, NEW q \in Calls, SignalProcess(q)
  PROVE  HandlerStep(q) /\ Quiet(q)
<1> DEFINE r == call[q]
<1>1. /\ r \in Call /\ r.step = "signal"
      /\ HandlerOK(q, r) /\ UNCHANGED <<cron, present, trash, atRisk>>
  BY DEF SignalProcess, At, HandlersOK
<1>2. r.op \in {"toggle", "delete"} /\ Mine(q, r)
  BY <1>1 DEF HandlerOK, Call
<1>3. CASE Answer(q)
  BY <1>1, <1>3, AnswerMoves DEF HandlerStep, Quiet, HandlersOK
<1>4. CASE r.op = "delete" /\ Goto(q, "trash")
  <2>1. /\ Moves(q) /\ call'[q].step = "trash" /\ SameBut(r, call'[q])
    BY <1>4, GotoMoves DEF CallSteps, HandlersOK
  <2>2. HandlerOK(q, call'[q])
    BY <1>1, <1>2, <1>4, <2>1 DEF HandlerOK, SameBut, Mine
  <2> QED BY <1>1, <1>4, <2>1, <2>2 DEF HandlerStep, Quiet, SameBut
<1> QED BY <1>2, <1>3, <1>4 DEF SignalProcess, After

(***************************************************************************)
(* What filtering, the trash and the host keep.                            *)
(***************************************************************************)
\* Filtering keeps exactly the elements at the chosen positions.
LEMMA FilteredKeeps ==
  ASSUME NEW S, NEW s \in Seq(S), NEW I \in SUBSET (1..Len(s))
  PROVE  LET f == Filtered(s, I) IN
         /\ f \in Seq(S)
         /\ \A k \in 1..Len(f) : \E n \in I : f[k] = s[n]
         /\ \A n \in I : \E k \in 1..Len(f) : f[k] = s[n]
<1> DEFINE C == Cardinality(I)
           Upto(n) == {m \in I : m <= n}
           R == [n \in I |-> Rank(I, n)]
           f == Filtered(s, I)
<1>1. Len(s) \in Nat /\ I \subseteq Nat
  OBVIOUS
<1>2. IsFiniteSet(I) /\ C \in Nat
  <2>1. 1 \in Int /\ Len(s) \in Int
    BY <1>1
  <2>2. IsFiniteSet(1..Len(s))
    BY <2>1, FS_Interval, Zenon
  <2> QED BY <2>2, FS_Subset, FS_CardinalityType
<1>3. \A n \in I : IsFiniteSet(Upto(n)) /\ Cardinality(Upto(n)) \in 1..C
  <2> SUFFICES ASSUME NEW n \in I
               PROVE  IsFiniteSet(Upto(n)) /\ Cardinality(Upto(n)) \in 1..C
    OBVIOUS
  <2>1. Upto(n) \in SUBSET I
    OBVIOUS
  <2>2. n \in Upto(n)
    BY <1>1
  <2> HIDE DEF Upto
  <2>3. IsFiniteSet(Upto(n)) /\ Cardinality(Upto(n)) <= C
    BY <1>2, <2>1, FS_Subset
  <2>4. Cardinality(Upto(n)) \in Nat /\ Cardinality(Upto(n)) # 0
    BY <2>2, <2>3, FS_CardinalityType, FS_EmptySet
  <2> HIDE DEF C
  <2> QED BY <1>2, <2>3, <2>4
<1>4. ASSUME NEW m \in I, NEW n \in I, m < n
      PROVE  Cardinality(Upto(m)) # Cardinality(Upto(n))
  <2>a. m \in Nat /\ n \in Nat /\ m < n /\ \A i \in I : i \in Nat
    BY <1>1, <1>4
  <2>1. Upto(m) \in SUBSET Upto(n) /\ n \in Upto(n) /\ n \notin Upto(m)
    <3>1. \A i \in I : i <= m => i <= n
      BY <2>a
    <3>2. n <= n /\ ~(n <= m)
      BY <2>a
    <3> QED BY <3>1, <3>2
  <2> HIDE DEF Upto
  <2> QED BY <1>3, <2>1, FS_Subset
<1>5. \A n \in I : R[n] = Cardinality(Upto(n))
  BY DEF Rank
<1> HIDE DEF Upto, R
<1>6. R \in [I -> 1..C]
  BY <1>3, <1>5 DEF R
<1>7. \A m, n \in I : R[m] = R[n] => m = n
  <2> SUFFICES ASSUME NEW m \in I, NEW n \in I, m # n PROVE R[m] # R[n]
    OBVIOUS
  <2>1. m < n \/ n < m
    BY <1>1
  <2> QED BY <1>4, <1>5, <2>1
<1>8. R \in Injection(I, 1..C)
  BY <1>6, <1>7 DEF Injection, IsInjective
<1>9. IsFiniteSet(1..C) /\ Cardinality(1..C) = C
  <2>1. 1 \in Int /\ C \in Int
    BY <1>2
  <2> HIDE DEF C
  <2>2. IsFiniteSet(1..C) /\ Cardinality(1..C) = IF 1 > C THEN 0 ELSE C - 1 + 1
    BY <2>1, FS_Interval, Zenon
  <2> QED BY <1>2, <2>2 DEF C
<1>10. R \in Surjection(I, 1..C)
  BY <1>8, <1>9, FS_Injection
<1>11. \A k \in 1..C : \E n \in I : R[n] = k
  BY <1>10 DEF Surjection
<1> DEFINE pos(k) == CHOOSE n \in I : Rank(I, n) = k
<1>12. \A n \in I : R[n] = Rank(I, n)
  BY DEF R
<1>13. \A k \in 1..C : pos(k) \in I /\ R[pos(k)] = k
  BY <1>11, <1>12
<1>14. f = [k \in 1..C |-> s[pos(k)]]
  BY DEF Filtered
<1> HIDE DEF pos, C, f
<1>15. f \in [1..C -> S]
  BY <1>13, <1>14, ElementOfSeq
<1>16. f \in Seq(S) /\ Len(f) = C
  BY <1>2, <1>15, IsASeq, LenProperties
<1>17. \A k \in 1..Len(f) : \E n \in I : f[k] = s[n]
  BY <1>13, <1>14, <1>16
<1>18. \A n \in I : R[n] \in 1..C /\ pos(R[n]) = n
  BY <1>6, <1>7, <1>13
<1>19. \A n \in I : \E k \in 1..Len(f) : f[k] = s[n]
  BY <1>14, <1>16, <1>18
<1> QED BY <1>16, <1>17, <1>19 DEF f

\* Nothing is added to the record.
LEMMA TrashMoves ==
  ASSUME TrashOK, NEW q \in Calls, HandlerStep(q), trash' \in Seq(Entry),
         \A n \in 1..Len(trash') : \E m \in 1..Len(trash) : trash'[n] = trash[m]
  PROVE  TrashOK'
<1>1. ASSUME NEW e \in Recorded' PROVE e \in Recorded
  <2>1. CASE \E n \in 1..Len(trash') : e = trash'[n]
    BY <2>1 DEF Recorded
  <2>2. CASE \E p \in Calls : call'[p].op = "restore" /\ e = call'[p].entry
    BY <2>2 DEF Recorded, Restoring, HandlerStep, Moves
  <2> QED BY <2>1, <2>2 DEF Recorded, Restoring
<1>2. \A p \in Calls : call[p].step = "done" => call'[p].step = "done"
  BY DEF HandlerStep, Moves
<1>3. \A e \in Recorded' : EntryOK(e) /\ e.ts \in Calls /\ call'[e.ts].step = "done"
  BY <1>1, <1>2, EntryFields DEF TrashOK, EntryOK
<1>4. \A e1, e2 \in Recorded' : e1.ts = e2.ts => e1.line.def = e2.line.def
  BY <1>1 DEF TrashOK
<1>5. (\A e \in Recorded : EntryOK(e) /\ call[e.ts].step = "done")'
  BY <1>3 DEF EntryOK, Entry, Line, Places
<1>6. (trash \in Seq(Entry))'
  BY DEF Entry, Line, Places
<1> QED BY <1>4, <1>5, <1>6 DEF TrashOK

\* Definition d of place f is kept after a step.
KeptNext(f, d) ==
  \/ OnHost(f, d)'
  \/ \E q \in Calls : /\ call'[q].step = "trash" /\ call'[q].entry.restorable
                      /\ ItemOf(call'[q].entry) = <<f, d>>
  \/ \E n \in 1..Len(trash') :
       /\ trash'[n].restorable /\ ItemOf(trash'[n]) = <<f, d>>
       /\ \A q \in Calls : ~(/\ call'[q].step \in {"reload", "purge"}
                             /\ Restored(trash'[n], call'[q].entry))

LEMMA KeptNow ==
  ASSUME NEW f, NEW d, KeptNext(f, d)
  PROVE  Kept(f, d)'
BY DEF KeptNext, Kept, Purging, ItemOf, Restored

LEMMA KeptMoves ==
  ASSUME KeptOK, \A i \in Items \ atRisk' : Kept(i[1], i[2]) => KeptNext(i[1], i[2]),
         atRisk \subseteq atRisk'
  PROVE  KeptOK'
<1>1. \A i \in Items \ atRisk' : KeptNext(i[1], i[2])
  BY DEF KeptOK
<1>2. \A i \in Items \ atRisk' : Kept(i[1], i[2])'
  BY <1>1, KeptNow
<1> QED BY <1>2 DEF KeptOK, Items

LEMMA QuietKeeps ==
  ASSUME HandlersOK, TrashOK, KeptOK, NEW q \in Calls, HandlerStep(q), Quiet(q)
  PROVE  HandlersOK' /\ TrashOK' /\ KeptOK'
<1>1. HandlersOK'
  BY HandlersMove DEF HandlerStep, Quiet, HandlersOK
<1>2. TrashOK'
  BY TrashMoves DEF Quiet, TrashOK
<1>3. ASSUME NEW f, NEW d, Kept(f, d)
      PROVE  KeptNext(f, d)
  <2>1. CASE OnHost(f, d)
    BY <2>1 DEF KeptNext, OnHost, Quiet
  <2>2. CASE \E p \in Calls : /\ call[p].step = "trash" /\ call[p].entry.restorable
                              /\ ItemOf(call[p].entry) = <<f, d>>
    BY <2>2 DEF KeptNext, Quiet, HandlerStep, Moves
  <2>3. CASE \E n \in 1..Len(trash) : /\ trash[n].restorable
                                      /\ ItemOf(trash[n]) = <<f, d>>
                                      /\ ~Purging(trash[n])
    <3>1. PICK n \in 1..Len(trash) : /\ trash[n].restorable
                                      /\ ItemOf(trash[n]) = <<f, d>>
                                      /\ ~Purging(trash[n])
      BY <2>3
    <3>2. trash' = trash
      BY DEF Quiet
    <3>3. ASSUME NEW p \in Calls, call'[p].step \in {"reload", "purge"}
          PROVE  /\ call[p].step \in {"reload", "purge"}
                 /\ call'[p].entry = call[p].entry
      BY <3>3 DEF Quiet, HandlerStep, Moves
    <3> QED BY <3>1, <3>2, <3>3 DEF KeptNext, Purging
  <2> QED BY <1>3, <2>1, <2>2, <2>3 DEF Kept
<1>4. KeptOK'
  BY <1>3, KeptMoves DEF Quiet
<1> QED BY <1>1, <1>2, <1>4

\* A definition that is not on the host stays kept when nothing leaves the
\* trash and request q does not start to purge the entry that keeps it.
LEMMA OffHost ==
  ASSUME NEW q \in Calls, Moves(q), trash' = trash, call[q].step # "trash",
         NEW f, NEW d, Kept(f, d), ~OnHost(f, d),
         call'[q].step \in {"reload", "purge"} =>
           \A n \in 1..Len(trash) : ItemOf(trash[n]) = <<f, d>> =>
             ~Restored(trash[n], call'[q].entry)
  PROVE  KeptNext(f, d)
<1>1. CASE \E p \in Calls : /\ call[p].step = "trash" /\ call[p].entry.restorable
                            /\ ItemOf(call[p].entry) = <<f, d>>
  BY <1>1 DEF KeptNext, Moves
<1>2. CASE \E n \in 1..Len(trash) : /\ trash[n].restorable
                                    /\ ItemOf(trash[n]) = <<f, d>>
                                    /\ ~Purging(trash[n])
  <2>1. PICK n \in 1..Len(trash) : /\ trash[n].restorable
                                   /\ ItemOf(trash[n]) = <<f, d>>
                                   /\ ~Purging(trash[n])
    BY <1>2
  <2>2. ASSUME NEW p \in Calls, call'[p].step \in {"reload", "purge"}
        PROVE  ~Restored(trash[n], call'[p].entry)
    BY <2>1, <2>2 DEF Purging, Moves
  <2> QED BY <2>1, <2>2 DEF KeptNext
<1> QED BY <1>1, <1>2 DEF Kept

\* Only entries of the definition that request q restores are taken for the
\* entry it restores.
LEMMA SameItem ==
  ASSUME TrashOK, NEW q \in Calls, call[q].op = "restore", NEW n \in 1..Len(trash),
         Restored(trash[n], call[q].entry)
  PROVE  ItemOf(trash[n]) = ItemOf(call[q].entry)
<1>1. trash[n] \in Recorded /\ call[q].entry \in Recorded
  BY DEF Recorded, Restoring
<1>2. trash[n].line.def = call[q].entry.line.def
  BY <1>1 DEF TrashOK, Restored
<1> QED BY <1>2 DEF Restored, ItemOf

LEMMA RemoveUnitKeeps ==
  ASSUME HandlersOK, TrashOK, KeptOK, NEW q \in Calls, RemoveUnit(q)
  PROVE  HandlersOK' /\ TrashOK' /\ KeptOK'
<1> DEFINE r == call[q]
           u == call[q].file
<1>1. /\ r \in Call /\ r.step = "remove" /\ HandlerOK(q, r)
      /\ UNCHANGED <<cron, trash, atRisk>>
  BY DEF RemoveUnit, At, HandlersOK
<1>2. CASE Answer(q) /\ UNCHANGED present
  <2>1. HandlerStep(q) /\ Quiet(q)
    BY <1>1, <1>2, AnswerMoves DEF HandlerStep, Quiet, HandlersOK
  <2> QED BY <2>1, QuietKeeps
<1>3. CASE u \in present /\ present' = present \ {u} /\ Goto(q, "trash")
  <2>1. /\ Moves(q) /\ call'[q].step = "trash" /\ SameBut(r, call'[q])
    BY <1>3, GotoMoves DEF CallSteps, HandlersOK
  <2>2. /\ r.op = "delete" /\ Mine(q, r) /\ r.entry.restorable /\ r.entry.line.def = Whole
    BY <1>1 DEF HandlerOK
  <2>3. HandlerStep(q)
    BY <1>1, <2>1, <2>2 DEF HandlerStep, HandlerOK, SameBut, Mine
  <2>4. HandlersOK'
    BY <1>1, <1>3, <2>3, HandlersMove DEF HandlerStep, HandlersOK
  <2>5. TrashOK'
    BY <1>1, <2>3, TrashMoves DEF TrashOK
  <2>6. ASSUME NEW f, NEW d, Kept(f, d)
        PROVE  KeptNext(f, d)
    <3>1. CASE f = u /\ d = Whole
      <4>1. ItemOf(call'[q].entry) = <<f, d>> /\ call'[q].entry.restorable
        BY <2>1, <2>2, <3>1 DEF SameBut, ItemOf, Mine
      <4> QED BY <2>1, <4>1 DEF KeptNext
    <3>2. CASE OnHost(f, d) /\ ~(f = u /\ d = Whole)
      BY <1>1, <1>3, <3>2 DEF OnHost, KeptNext
    <3>3. CASE ~OnHost(f, d)
      BY <1>1, <2>1, <2>6, <3>3, OffHost
    <3> QED BY <3>1, <3>2, <3>3
  <2>7. KeptOK'
    BY <1>1, <2>6, KeptMoves
  <2> QED BY <2>4, <2>5, <2>7
<1> QED BY <1>2, <1>3 DEF RemoveUnit

LEMMA RestoreUnitKeeps ==
  ASSUME HandlersOK, TrashOK, KeptOK, NEW q \in Calls,
         RestoreUnit(q)
  PROVE  HandlersOK' /\ TrashOK' /\ KeptOK'
<1> DEFINE r == call[q]
           u == call[q].file
<1>1. /\ r \in Call /\ r.step = "command" /\ r.op = "restore" /\ HandlerOK(q, r)
      /\ UNCHANGED <<cron, trash, atRisk>>
  BY DEF RestoreUnit, At, HandlersOK
<1>2. CASE Answer(q) /\ UNCHANGED present
  <2>1. HandlerStep(q) /\ Quiet(q)
    BY <1>1, <1>2, AnswerMoves DEF HandlerStep, Quiet, HandlersOK
  <2> QED BY <2>1, QuietKeeps
<1>3. CASE present' = present \cup {u} /\ Goto(q, "reload")
  <2>1. /\ Moves(q) /\ call'[q].step = "reload" /\ SameBut(r, call'[q])
    BY <1>3, GotoMoves DEF CallSteps, HandlersOK
  <2>2. /\ u \in Units /\ EntryOK(r.entry) /\ r.entry.restorable /\ r.entry.file = u
    BY <1>1 DEF HandlerOK
  <2>a. r.entry.line.def = Whole
    BY <2>2, SystemAssumption DEF EntryOK
  <2>b. r.entry \in Recorded
    BY <1>1 DEF Recorded, Restoring
  <2>3. HandlerStep(q)
    BY <1>1, <2>1, <2>2, <2>b DEF HandlerStep, HandlerOK, SameBut
  <2>4. HandlersOK'
    BY <1>1, <1>3, <2>2, <2>3, HandlersMove DEF HandlerStep, HandlersOK
  <2>5. TrashOK'
    BY <1>1, <2>3, TrashMoves DEF TrashOK
  <2>6. ASSUME NEW f, NEW d, Kept(f, d)
        PROVE  KeptNext(f, d)
    <3>1. CASE f = u /\ d = Whole
      BY <1>3, <3>1 DEF OnHost, KeptNext
    <3>2. CASE OnHost(f, d)
      BY <1>1, <1>3, <3>2 DEF OnHost, KeptNext
    <3>3. CASE ~OnHost(f, d) /\ ~(f = u /\ d = Whole)
      <4>1. ASSUME NEW n \in 1..Len(trash), ItemOf(trash[n]) = <<f, d>>
            PROVE  ~Restored(trash[n], call'[q].entry)
        <5>1. ItemOf(r.entry) # <<f, d>>
          BY <2>2, <2>a, <3>3 DEF ItemOf
        <5>2. ~Restored(trash[n], r.entry)
          BY <1>1, <4>1, <5>1, SameItem
        <5> QED BY <2>1, <5>2 DEF SameBut
      <4> QED BY <1>1, <2>1, <2>6, <3>3, <4>1, OffHost
    <3> QED BY <3>1, <3>2, <3>3
  <2>7. KeptOK'
    BY <1>1, <2>6, KeptMoves
  <2> QED BY <2>4, <2>5, <2>7
<1> QED BY <1>2, <1>3 DEF RestoreUnit

\* Some line of a cron file holds definition d.
Holds(lines, d) == \E n \in 1..Len(lines) : lines[n].def = d

\* An edited file holds the definitions that the file that was read held, but
\* for one that is deleted, and the one that is restored.
LEMMA EditedHolds ==
  ASSUME HandlersOK, NEW q \in Calls, call[q].step = "replace"
  PROVE  /\ Edited(q) \in Seq(CronLine)
         /\ \A d : Holds(call[q].lines, d) /\ ~(call[q].op = "delete" /\ d = call[q].def)
                     => Holds(Edited(q), d)
         /\ call[q].op = "restore" => Holds(Edited(q), call[q].entry.line.def)
<1> DEFINE r == call[q]
           lines == call[q].lines
           n == First(lines, r.def)
           new == Edited(q)
<1>1. /\ r \in Call /\ HandlerOK(q, r) /\ lines \in Seq(CronLine)
      /\ r.op \in {"toggle", "delete", "restore"} /\ r.file \in CronFiles
  BY DEF HandlersOK, HandlerOK, Call
<1>2. CASE r.op = "toggle"
  <2>1. new = [lines EXCEPT ![n].off = ~@]
    BY <1>2 DEF Edited
  <2>2. n \in 1..Len(lines) /\ lines[n] \in CronLine
    BY <1>1, <1>2, FirstMatches DEF HandlerOK
  <2> DEFINE l == [lines[n] EXCEPT !.off = ~@]
  <2>3. l \in CronLine /\ l.def = lines[n].def
    BY <2>2 DEF CronLine
  <2>4. new = [lines EXCEPT ![n] = l]
    BY <2>1
  <2> HIDE DEF l, n, new
  <2>5. new \in Seq(CronLine) /\ Len(new) = Len(lines)
    BY <1>1, <2>2, <2>3, <2>4, ExceptSeq
  <2>6. \A m \in 1..Len(lines) : new[m].def = lines[m].def
    BY <1>1, <2>2, <2>3, <2>4
  <2> QED BY <1>2, <2>5, <2>6 DEF Holds, new
<1>3. CASE r.op = "delete"
  <2> DEFINE I == (1..Len(lines)) \ {n}
  <2>1. new = Filtered(lines, I)
    BY <1>3 DEF Edited
  <2>2. n \in 1..Len(lines) /\ lines[n].def = r.def
    BY <1>1, <1>3, FirstMatches DEF HandlerOK
  <2>3. I \in SUBSET (1..Len(lines))
    OBVIOUS
  <2>a. \A m \in 1..Len(lines) : m # n => m \in I
    OBVIOUS
  <2> HIDE DEF I, n, new
  <2>4. new \in Seq(CronLine) /\ \A m \in I : \E k \in 1..Len(new) : new[k] = lines[m]
    BY <1>1, <2>1, <2>3, FilteredKeeps
  <2>5. ASSUME NEW d, Holds(lines, d), d # r.def
        PROVE  Holds(new, d)
    <3>1. PICK m \in 1..Len(lines) : lines[m].def = d
      BY <2>5 DEF Holds
    <3>2. m \in I
      BY <2>2, <2>5, <2>a, <3>1
    <3> QED BY <2>4, <3>1, <3>2 DEF Holds
  <2> QED BY <1>3, <2>4, <2>5 DEF new
<1>4. CASE r.op = "restore"
  <2> DEFINE l == r.entry.line
  <2>1. new = Append(lines, l)
    BY <1>4 DEF Edited
  <2>2. l \in CronLine
    <3>1. r.entry \in Entry /\ l.def \in Defs
      BY <1>1, <1>4, SystemAssumption DEF HandlerOK, EntryOK
    <3>2. l.off \in BOOLEAN /\ l = [def |-> l.def, off |-> l.off]
      BY <3>1, EntryFields
    <3> QED BY <3>1, <3>2 DEF CronLine
  <2> HIDE DEF l, new
  <2>3. /\ new \in Seq(CronLine) /\ Len(new) = Len(lines) + 1 /\ Len(lines) \in Nat
        /\ new[Len(lines) + 1] = l
        /\ \A m \in 1..Len(lines) : new[m] = lines[m]
    BY <1>1, <2>1, <2>2, AppendProperties, LenProperties
  <2>4. Len(new) \in 1..Len(new) /\ 1..Len(lines) \subseteq 1..Len(new)
    BY <2>3
  <2> QED BY <1>4, <2>3, <2>4 DEF Holds, new, l
<1> QED BY <1>1, <1>2, <1>3, <1>4

LEMMA ReplaceCronKeeps ==
  ASSUME HandlersOK, TrashOK, KeptOK, NEW q \in Calls,
         ReplaceCron(q)
  PROVE  HandlersOK' /\ TrashOK' /\ KeptOK'
<1> DEFINE r == call[q]
           g == call[q].file
           new == Edited(q)
<1>1. /\ r \in Call /\ r.step = "replace" /\ HandlerOK(q, r)
      /\ UNCHANGED <<present, trash>>
  BY DEF ReplaceCron, At, HandlersOK
<1>2. CASE Answer(q) /\ UNCHANGED <<cron, atRisk>>
  <2>1. HandlerStep(q) /\ Quiet(q)
    BY <1>1, <1>2, AnswerMoves DEF HandlerStep, Quiet, HandlersOK
  <2> QED BY <2>1, QuietKeeps
<1>3. CASE /\ cron' = [cron EXCEPT ![g] = new]
           /\ atRisk' = IF cron[g] = r.lines THEN atRisk ELSE atRisk \cup ({g} \X Defs)
           /\ After(q)
  <2>1. /\ g \in CronFiles /\ new \in Seq(CronLine)
        /\ r.op \in {"toggle", "delete", "restore"}
    BY <1>1, EditedHolds DEF HandlerOK, Call
  <2> HIDE DEF new
  <2>2. /\ cron' \in [CronFiles -> Seq(CronLine)] /\ cron'[g] = new
        /\ \A f \in CronFiles \ {g} : cron'[f] = cron[f]
    BY <1>3, <2>1 DEF HandlersOK
  <2>3. \/ r.op = "toggle" /\ Answer(q)
        \/ r.op = "delete" /\ Goto(q, "trash")
        \/ r.op = "restore" /\ Goto(q, "purge")
    BY <1>3, <2>1 DEF After
  <2>4. /\ Moves(q)
        /\ r.op = "toggle" => call'[q].step = "done" /\ HandlerOK(q, call'[q])
                              /\ call'[q].op = "none"
        /\ r.op # "toggle" => SameBut(r, call'[q])
        /\ r.op = "delete" => call'[q].step = "trash"
        /\ r.op = "restore" => call'[q].step = "purge"
    BY <2>3, GotoMoves, AnswerMoves DEF CallSteps, HandlersOK
  <2>5. /\ r.op = "delete" => /\ Mine(q, r) /\ r.entry.restorable
                              /\ r.entry.line.def = r.def
        /\ r.op = "restore" => /\ EntryOK(r.entry) /\ r.entry.restorable
                               /\ r.entry.file = g /\ r.entry \in Recorded
    BY <1>1 DEF HandlerOK, Recorded, Restoring
  <2>6. HandlerOK(q, call'[q])
    <3>1. CASE r.op = "toggle"
      BY <2>4, <3>1
    <3>2. CASE r.op = "delete"
      BY <2>4, <2>5, <3>2 DEF HandlerOK, SameBut, Mine
    <3>3. CASE r.op = "restore"
      BY <2>4, <2>5, <3>3 DEF HandlerOK, SameBut
    <3> QED BY <2>1, <3>1, <3>2, <3>3
  <2>7. HandlerStep(q)
    BY <1>1, <2>1, <2>4, <2>5, <2>6 DEF HandlerStep, SameBut
  <2>8. HandlersOK'
    BY <1>1, <2>2, <2>7, HandlersMove DEF HandlerStep, HandlersOK
  <2>9. TrashOK'
    BY <1>1, <2>7, TrashMoves DEF TrashOK
  <2>10. ASSUME NEW f, NEW d, Kept(f, d), <<f, d>> \in Items, <<f, d>> \notin atRisk'
         PROVE  KeptNext(f, d)
    <3>1. (f \in CronFiles /\ d \in Defs) \/ (f \in Units /\ d = Whole)
      BY <2>10 DEF Items
    <3>2. CASE f = g
      <4>1. d \in Defs /\ f \notin present
        BY <2>1, <3>1, <3>2, SystemAssumption DEF HandlersOK
      <4>2. cron[g] = r.lines
        BY <1>3, <2>10, <3>2, <4>1
      <4>3. CASE Holds(new, d)
        BY <2>1, <2>2, <3>2, <4>3 DEF KeptNext, OnHost, Holds
      <4>4. CASE r.op = "delete" /\ d = r.def
        <5>1. ItemOf(call'[q].entry) = <<f, d>> /\ call'[q].entry.restorable
          BY <2>4, <2>5, <3>2, <4>4 DEF SameBut, ItemOf, Mine
        <5> QED BY <2>4, <4>4, <5>1 DEF KeptNext
      <4>5. CASE ~Holds(new, d) /\ ~(r.op = "delete" /\ d = r.def)
        <5>1. ~Holds(r.lines, d) /\ (r.op = "restore" => d # r.entry.line.def)
          BY <1>1, <4>5, EditedHolds DEF new
        <5>2. ~OnHost(f, d)
          BY <3>2, <4>1, <4>2, <5>1 DEF OnHost, Holds
        <5>3. ASSUME call'[q].step \in {"reload", "purge"}, NEW n \in 1..Len(trash),
                     ItemOf(trash[n]) = <<f, d>>
              PROVE  ~Restored(trash[n], call'[q].entry)
          <6>1. r.op = "restore" /\ call'[q].entry = r.entry
            BY <2>1, <2>4, <5>3 DEF SameBut
          <6>2. ItemOf(r.entry) # <<f, d>>
            BY <5>1, <6>1 DEF ItemOf
          <6> QED BY <5>3, <6>1, <6>2, SameItem
        <5> QED BY <1>1, <2>4, <2>10, <5>2, <5>3, OffHost
      <4> QED BY <4>3, <4>4, <4>5
    <3>3. CASE f # g /\ OnHost(f, d)
      BY <1>1, <2>2, <3>3 DEF OnHost, KeptNext
    <3>4. CASE f # g /\ ~OnHost(f, d)
      <4>1. ASSUME call'[q].step \in {"reload", "purge"}, NEW n \in 1..Len(trash),
                   ItemOf(trash[n]) = <<f, d>>
            PROVE  ~Restored(trash[n], call'[q].entry)
        <5>1. r.op = "restore" /\ call'[q].entry = r.entry
          BY <2>1, <2>4, <4>1 DEF SameBut
        <5>2. trash[n].file # r.entry.file
          BY <2>5, <3>4, <4>1, <5>1 DEF ItemOf
        <5> QED BY <5>1, <5>2 DEF Restored
      <4> QED BY <1>1, <2>4, <2>10, <3>4, <4>1, OffHost
    <3> QED BY <3>2, <3>3, <3>4
  <2>11. \A i \in Items \ atRisk' : Kept(i[1], i[2]) => KeptNext(i[1], i[2])
    <3>1. \A i \in Items : i = <<i[1], i[2]>>
      BY DEF Items
    <3> QED BY <2>10, <3>1
  <2>12. KeptOK'
    BY <1>3, <2>11, KeptMoves
  <2> QED BY <2>8, <2>9, <2>12
<1> QED BY <1>2, <1>3 DEF ReplaceCron

\* The item of an entry is at risk when the trash that holds it is lost.
LEMMA AtRiskItems ==
  ASSUME NEW entries, NEW n \in 1..Len(entries), entries[n].restorable
  PROVE  ItemOf(entries[n]) \in Restorable(entries)
BY DEF Restorable

LEMMA OneEntry ==
  ASSUME NEW e, e.restorable
  PROVE  ItemOf(e) \in Restorable(<<e>>)
<1>1. Len(<<e>>) = 1 /\ <<e>>[1] = e /\ 1 \in 1..1
  OBVIOUS
<1> QED BY <1>1, AtRiskItems

LEMMA AppendTrashKeeps ==
  ASSUME HandlersOK, TrashOK, KeptOK, NEW q \in Calls, AppendTrash(q)
  PROVE  HandlersOK' /\ TrashOK' /\ KeptOK'
<1> DEFINE r == call[q]
           e == call[q].entry
<1>1. /\ r.step = "trash" /\ HandlerOK(q, r) /\ Answer(q)
      /\ UNCHANGED <<cron, present>>
  BY DEF AppendTrash, At, HandlersOK, hostVars
<1>2. EntryOK(e) /\ e.ts = q /\ e \in Entry
  BY <1>1 DEF HandlerOK, Mine, EntryOK
<1>3. /\ Moves(q) /\ call'[q].step = "done" /\ call'[q].op = "none" /\ HandlerStep(q)
  BY <1>1, AnswerMoves DEF HandlerStep, HandlersOK
<1>4. HandlersOK'
  BY <1>1, <1>3, HandlersMove DEF HandlerStep, HandlersOK
<1>5. \/ trash' = <<e>> \o trash /\ atRisk' = atRisk
      \/ trash' = <<e>> /\ atRisk' = atRisk \cup Restorable(trash)
      \/ trash' = trash /\ atRisk' = atRisk \cup Restorable(<<e>>)
  BY DEF AppendTrash, WriteTrash
<1> HIDE DEF e
<1>6. /\ trash \in Seq(Entry) /\ Len(trash) \in Nat
      /\ \A n \in 1..Len(trash) : trash[n] \in Entry
  BY LenProperties, ElementOfSeq DEF TrashOK
<1>7. /\ <<e>> \in Seq(Entry) /\ Len(<<e>>) = 1 /\ <<e>>[1] = e
  BY <1>2
<1>8. /\ <<e>> \o trash \in Seq(Entry) /\ Len(<<e>> \o trash) = Len(trash) + 1
      /\ (<<e>> \o trash)[1] = e
      /\ \A n \in 1..Len(trash) : (<<e>> \o trash)[n + 1] = trash[n]
      /\ \A n \in 1..(Len(trash) + 1) : n # 1 => (<<e>> \o trash)[n] = trash[n - 1]
  BY <1>6, <1>7, ConcatProperties
<1>9. /\ trash' \in Seq(Entry)
      /\ \A n \in 1..Len(trash') :
           \/ trash'[n] = e
           \/ \E m \in 1..Len(trash) : trash'[n] = trash[m]
  <2>1. CASE trash' = <<e>> \o trash
    <3>1. \A n \in 1..Len(trash') : n = 1 \/ n - 1 \in 1..Len(trash)
      BY <1>6, <1>8, <2>1
    <3> QED BY <1>8, <2>1, <3>1
  <2>2. CASE trash' = <<e>>
    BY <1>7, <2>2
  <2>3. CASE trash' = trash
    BY <1>6, <2>3
  <2> QED BY <1>5, <2>1, <2>2, <2>3
<1>10. ASSUME NEW x \in Recorded' PROVE x \in Recorded \cup {e}
  <2>1. CASE \E n \in 1..Len(trash') : x = trash'[n]
    BY <1>9, <2>1 DEF Recorded
  <2>2. CASE \E p \in Calls : call'[p].op = "restore" /\ x = call'[p].entry
    BY <1>3, <2>2 DEF Recorded, Restoring, Moves
  <2> QED BY <2>1, <2>2 DEF Recorded, Restoring
<1>11. \A x \in Recorded : /\ EntryOK(x) /\ x.ts \in Calls /\ call[x.ts].step = "done"
                           /\ x.ts # q
  BY <1>1, EntryFields DEF TrashOK, EntryOK
<1>12. TrashOK'
  <2>1. \A x \in Recorded' : EntryOK(x) /\ call'[x.ts].step = "done"
    BY <1>2, <1>3, <1>10, <1>11 DEF Moves
  <2>2. \A x, y \in Recorded' : x.ts = y.ts => x.line.def = y.line.def
    BY <1>2, <1>10, <1>11 DEF TrashOK
  <2>3. (\A x \in Recorded : EntryOK(x) /\ call[x.ts].step = "done")'
    BY <2>1 DEF EntryOK, Entry, Line, Places
  <2>4. (trash \in Seq(Entry))'
    BY <1>9 DEF Entry, Line, Places
  <2> QED BY <2>2, <2>3, <2>4 DEF TrashOK
<1>13. ASSUME NEW p \in Calls, call'[p].step \in {"reload", "purge"}
       PROVE  /\ call[p].step \in {"reload", "purge"}
              /\ call'[p].entry = call[p].entry /\ call[p].entry.ts # q
  <2>1. p # q /\ call'[p] = call[p]
    BY <1>3, <1>13 DEF Moves
  <2>2. call[p].op = "restore"
    BY <1>13, <2>1 DEF HandlersOK, HandlerOK
  <2>3. call[p].entry \in Recorded
    BY <2>2 DEF Recorded, Restoring
  <2> QED BY <1>11, <1>13, <2>1, <2>3
<1>14. ASSUME NEW f, NEW d, Kept(f, d), <<f, d>> \notin atRisk'
       PROVE  KeptNext(f, d)
  <2>1. CASE OnHost(f, d)
    BY <1>1, <2>1 DEF OnHost, KeptNext
  <2>2. CASE e.restorable /\ ItemOf(e) = <<f, d>>
    <3>1. trash' = <<e>> \o trash \/ trash' = <<e>>
      BY <1>5, <1>14, <2>2, OneEntry
    <3>2. 1 \in 1..Len(trash') /\ trash'[1] = e
      BY <1>6, <1>7, <1>8, <3>1
    <3>3. \A p \in Calls : call'[p].step \in {"reload", "purge"} =>
             ~Restored(e, call'[p].entry)
      BY <1>2, <1>13 DEF Restored
    <3> QED BY <2>2, <3>2, <3>3 DEF KeptNext
  <2>3. CASE \E p \in Calls \ {q} :
               /\ call[p].step = "trash" /\ call[p].entry.restorable
               /\ ItemOf(call[p].entry) = <<f, d>>
    BY <1>3, <2>3 DEF KeptNext, Moves
  <2>4. CASE \E n \in 1..Len(trash) : /\ trash[n].restorable
                                      /\ ItemOf(trash[n]) = <<f, d>>
                                      /\ ~Purging(trash[n])
    <3>1. PICK n \in 1..Len(trash) : /\ trash[n].restorable
                                     /\ ItemOf(trash[n]) = <<f, d>>
                                     /\ ~Purging(trash[n])
      BY <2>4
    <3>2. ItemOf(trash[n]) \in Restorable(trash)
      BY <3>1, AtRiskItems
    <3>3. trash' = <<e>> \o trash \/ trash' = trash
      BY <1>5, <1>14, <3>1, <3>2
    <3>4. \E k \in 1..Len(trash') : trash'[k] = trash[n]
      <4>1. n + 1 \in 1..(Len(trash) + 1)
        BY <1>6
      <4> QED BY <1>8, <3>3, <4>1
    <3>5. \A p \in Calls : call'[p].step \in {"reload", "purge"} =>
             ~Restored(trash[n], call'[p].entry)
      BY <1>13, <3>1 DEF Purging
    <3> QED BY <3>1, <3>4, <3>5 DEF KeptNext
  <2> QED BY <1>14, <2>1, <2>2, <2>3, <2>4 DEF Kept, e
<1>15. KeptOK'
  <2>1. \A i \in Items : i = <<i[1], i[2]>>
    BY DEF Items
  <2> QED BY <1>5, <1>14, <2>1, KeptMoves
<1> QED BY <1>4, <1>12, <1>15

LEMMA PurgeTrashKeeps ==
  ASSUME HandlersOK, TrashOK, KeptOK, NEW q \in Calls, PurgeTrash(q)
  PROVE  HandlersOK' /\ TrashOK' /\ KeptOK'
<1> DEFINE r == call[q]
           e == call[q].entry
           I == Remaining(e)
<1>1. /\ r.step = "purge" /\ Answer(q) /\ UNCHANGED <<cron, present>>
  BY DEF PurgeTrash, At, hostVars
<1>2. /\ Moves(q) /\ call'[q].step = "done" /\ call'[q].op = "none" /\ HandlerStep(q)
  BY <1>1, AnswerMoves DEF HandlerStep, HandlersOK
<1>3. HandlersOK'
  BY <1>1, <1>2, HandlersMove DEF HandlerStep, HandlersOK
<1>4. \/ trash' = Filtered(trash, I) /\ atRisk' = atRisk
      \/ trash' = << >> /\ atRisk' = atRisk \cup Restorable(trash)
      \/ trash' = trash /\ atRisk' = atRisk
  BY DEF PurgeTrash, WriteTrash
<1>5. /\ trash \in Seq(Entry) /\ I \in SUBSET (1..Len(trash))
      /\ \A n \in 1..Len(trash) : n \in I <=> ~Restored(trash[n], e)
  BY DEF TrashOK, Remaining
<1> HIDE DEF I
<1>6. LET f == Filtered(trash, I) IN
      /\ f \in Seq(Entry)
      /\ \A k \in 1..Len(f) : \E n \in I : f[k] = trash[n]
      /\ \A n \in I : \E k \in 1..Len(f) : f[k] = trash[n]
  BY <1>5, FilteredKeeps
<1>7. /\ trash' \in Seq(Entry)
      /\ \A k \in 1..Len(trash') : \E n \in 1..Len(trash) : trash'[k] = trash[n]
  <2>1. << >> \in Seq(Entry) /\ 1..Len(<< >>) = {}
    OBVIOUS
  <2> QED BY <1>4, <1>5, <1>6, <2>1
<1>8. TrashOK'
  BY <1>2, <1>7, TrashMoves
<1>9. ASSUME NEW f, NEW d, Kept(f, d), <<f, d>> \notin atRisk'
      PROVE  KeptNext(f, d)
  <2>1. CASE OnHost(f, d)
    BY <1>1, <2>1 DEF OnHost, KeptNext
  <2>2. CASE \E p \in Calls : /\ call[p].step = "trash" /\ call[p].entry.restorable
                              /\ ItemOf(call[p].entry) = <<f, d>>
    BY <1>1, <1>2, <2>2 DEF KeptNext, Moves
  <2>3. CASE \E n \in 1..Len(trash) : /\ trash[n].restorable
                                      /\ ItemOf(trash[n]) = <<f, d>>
                                      /\ ~Purging(trash[n])
    <3>1. PICK n \in 1..Len(trash) : /\ trash[n].restorable
                                     /\ ItemOf(trash[n]) = <<f, d>>
                                     /\ ~Purging(trash[n])
      BY <2>3
    <3>2. ItemOf(trash[n]) \in Restorable(trash)
      BY <3>1, AtRiskItems
    <3>3. trash' = Filtered(trash, I) \/ trash' = trash
      BY <1>4, <1>9, <3>1, <3>2
    <3>4. n \in I
      BY <1>1, <1>5, <3>1 DEF Purging
    <3>5. \E k \in 1..Len(trash') : trash'[k] = trash[n]
      BY <1>6, <3>3, <3>4
    <3>6. \A p \in Calls : call'[p].step \in {"reload", "purge"} =>
             ~Restored(trash[n], call'[p].entry)
      BY <1>2, <3>1 DEF Purging, Moves
    <3> QED BY <3>1, <3>5, <3>6 DEF KeptNext
  <2> QED BY <1>9, <2>1, <2>2, <2>3 DEF Kept
<1>10. KeptOK'
  <2>1. \A i \in Items : i = <<i[1], i[2]>>
    BY DEF Items
  <2> QED BY <1>4, <1>9, <2>1, KeptMoves
<1> QED BY <1>3, <1>8, <1>10

LEMMA SystemSame ==
  ASSUME HandlersOK, TrashOK, KeptOK, UNCHANGED <<cron, present, trash, call, atRisk>>
  PROVE  HandlersOK' /\ TrashOK' /\ KeptOK'
<1>1. HandlersOK'
  <2>1. \A q \in Calls : HandlerOK(q, call'[q])
    BY DEF HandlersOK
  <2>2. (\A q \in Calls : HandlerOK(q, call[q]))'
    BY <2>1 DEF HandlerOK, Mine, EntryOK, Matches, Entry, Line, Places
  <2> QED BY <2>2 DEF HandlersOK, Call, CronLine, CallSteps, Places,
            Entry, Line
<1>2. TrashOK'
  BY DEF TrashOK, Recorded, Restoring, EntryOK, Entry, Line, Places
<1>3. \A f, d : Kept(f, d) => KeptNext(f, d)
  BY DEF Kept, KeptNext, OnHost, Purging
<1>4. KeptOK'
  BY <1>3, KeptMoves
<1> QED BY <1>1, <1>2, <1>4

LEMMA CrashKeeps ==
  ASSUME HandlersOK, TrashOK, KeptOK, Crash
  PROVE  HandlersOK' /\ TrashOK' /\ KeptOK'
<1>1. /\ call' = [q \in Calls |-> IF call[q].step = "new" THEN NoCall
                                       ELSE Answered]
      /\ atRisk' = atRisk \cup UNION {Held(q) : q \in Calls}
      /\ UNCHANGED <<cron, present, trash>>
  BY DEF Crash, At, hostVars
<1>2. /\ call' \in [Calls -> Call]
      /\ \A q \in Calls : /\ call'[q] \in {NoCall, Answered}
                          /\ call[q].step = "done" => call'[q] = Answered
  BY <1>1, NoCallFacts
<1>3. \A q \in Calls : /\ HandlerOK(q, call'[q]) /\ call'[q].op = "none"
                       /\ call'[q].step \notin {"reload", "purge"}
                       /\ call[q].step = "done" => call'[q].step = "done"
  BY <1>2, NoCallFacts DEF HandlerOK
<1>4. HandlersOK'
  <2>1. (\A q \in Calls : HandlerOK(q, call[q]))'
    BY <1>3 DEF HandlerOK, Mine, EntryOK, Matches, Entry, Line, Places
  <2> QED BY <1>1, <1>2, <2>1 DEF HandlersOK, Call, CronLine, CallSteps,
            Places, Entry, Line
<1>5. TrashOK'
  <2>1. Recorded' \subseteq Recorded
    BY <1>1, <1>3 DEF Recorded, Restoring
  <2>2. \A e \in Recorded' : EntryOK(e) /\ e.ts \in Calls /\ call'[e.ts].step = "done"
    BY <1>3, <2>1, EntryFields DEF TrashOK, EntryOK
  <2>3. \A e1, e2 \in Recorded' : e1.ts = e2.ts => e1.line.def = e2.line.def
    BY <2>1 DEF TrashOK
  <2>4. (\A e \in Recorded : EntryOK(e) /\ call[e.ts].step = "done")'
    BY <2>2 DEF EntryOK, Entry, Line, Places
  <2>5. (trash \in Seq(Entry))'
    BY <1>1 DEF TrashOK, Entry, Line, Places
  <2> QED BY <2>3, <2>4, <2>5 DEF TrashOK
<1>6. ASSUME NEW f, NEW d, Kept(f, d), <<f, d>> \notin atRisk'
      PROVE  KeptNext(f, d)
  <2>1. CASE OnHost(f, d)
    BY <1>1, <2>1 DEF OnHost, KeptNext
  <2>2. ASSUME NEW q \in Calls, call[q].step = "trash", call[q].entry.restorable,
               ItemOf(call[q].entry) = <<f, d>>
        PROVE  FALSE
    <3>1. <<f, d>> \in Restorable(<<call[q].entry>>)
      BY <2>2, OneEntry
    <3>2. <<f, d>> \in Held(q)
      BY <2>2, <3>1 DEF Held, At
    <3> QED BY <1>1, <1>6, <3>2
  <2>3. CASE \E n \in 1..Len(trash) : /\ trash[n].restorable
                                      /\ ItemOf(trash[n]) = <<f, d>>
    BY <1>1, <1>3, <2>3 DEF KeptNext
  <2> QED BY <1>6, <2>1, <2>2, <2>3 DEF Kept
<1>7. KeptOK'
  <2>1. \A i \in Items : i = <<i[1], i[2]>>
    BY DEF Items
  <2> QED BY <1>1, <1>6, <2>1, KeptMoves
<1> QED BY <1>4, <1>5, <1>7

LEMMA NextSystem ==
  SystemInv /\ [SystemNext]_systemVars => SystemInv'
<1> SUFFICES ASSUME HandlersOK, TrashOK, KeptOK,
                    [SystemNext]_systemVars
             PROVE  HandlersOK' /\ TrashOK' /\ KeptOK'
  BY DEF SystemInv
<1>1. ASSUME NEW q \in Calls, SystemHandler(q)
      PROVE  HandlersOK' /\ TrashOK' /\ KeptOK'
  <2>1. CASE \/ CurrentItem(q) \/ RestoreRequest(q) \/ ReadCron(q)
             \/ ReadUnit(q) \/ ToggleUnit(q) \/ DisableUnit(q)
             \/ ReloadUnits(q) \/ ReadProcess(q) \/ SignalProcess(q)
    <3>1. HandlerStep(q) /\ Quiet(q)
      BY <2>1, CurrentItemStep, RestoreRequestStep, ReadCronStep, ReadUnitStep,
         UnitCommandStep, ReadProcessStep, SignalStep
    <3> QED BY <3>1, QuietKeeps
  <2> QED BY <1>1, <2>1, ReplaceCronKeeps, RemoveUnitKeeps, RestoreUnitKeeps,
             AppendTrashKeeps, PurgeTrashKeeps DEF SystemHandler
<1>2. ASSUME NEW p \in Pids, ProcessChanges(p)
      PROVE  HandlersOK' /\ TrashOK' /\ KeptOK'
  BY <1>2, SystemSame DEF ProcessChanges
<1>3. CASE Crash
  BY <1>3, CrashKeeps
<1>4. CASE UNCHANGED systemVars
  BY <1>4, SystemSame DEF systemVars
<1> QED BY <1>1, <1>2, <1>3, <1>4 DEF SystemNext

\* The listing of the definitions holds each of them.
LEMMA ListingHolds ==
  LET C == Cardinality(Defs) IN
         /\ C \in Nat /\ Listing \in [1..C -> Defs]
         /\ \A d \in Defs : \E n \in 1..C : Listing[n] = d
<1>1. IsFiniteSet(Defs)
  BY SystemAssumption
<1> DEFINE C == Cardinality(Defs)
<1>2. C \in Nat /\ ExistsBijection(1..C, Defs)
  BY <1>1, FS_CardinalityType
<1>3. \E order \in [1..C -> Defs] : \A d \in Defs : \E n \in 1..C : order[n] = d
  BY <1>2 DEF ExistsBijection, Bijection, Surjection
<1> HIDE DEF C
<1> QED BY <1>2, <1>3 DEF Listing, C

LEMMA InitSystem == SystemInit => SystemInv
<1> SUFFICES ASSUME SystemInit PROVE SystemInv
  OBVIOUS
<1> DEFINE C == Cardinality(Defs)
           file == [n \in 1..C |-> [def |-> Listing[n], off |-> FALSE]]
<1>1. /\ C \in Nat /\ Listing \in [1..C -> Defs]
      /\ \A d \in Defs : \E n \in 1..C : Listing[n] = d
  BY ListingHolds
<1>2. /\ cron = [f \in CronFiles |-> file] /\ present = Units /\ trash = << >>
      /\ call = [q \in Calls |-> NoCall]
  BY DEF SystemInit
<1> HIDE DEF C
<1>3. file \in [1..C -> CronLine] /\ \A n \in 1..C : file[n].def = Listing[n]
  BY <1>1 DEF CronLine
<1> HIDE DEF file
<1>4. file \in Seq(CronLine) /\ Len(file) = C
  BY <1>1, <1>3, IsASeq, LenProperties
<1>5. HandlersOK
  BY <1>2, <1>4, NoCallFacts DEF HandlersOK, HandlerOK
<1>6. TrashOK
  <2>1. Recorded = {}
    BY <1>2, NoCallFacts DEF Recorded, Restoring
  <2>2. trash \in Seq(Entry)
    BY <1>2
  <2> QED BY <2>1, <2>2 DEF TrashOK
<1>7. KeptOK
  <2>1. ASSUME NEW i \in Items PROVE OnHost(i[1], i[2])
    <3>1. CASE i[1] \in CronFiles /\ i[2] \in Defs
      <4>1. cron[i[1]] = file
        BY <1>2, <3>1
      <4>2. \E n \in 1..C : file[n].def = i[2]
        BY <1>1, <1>3, <3>1
      <4> QED BY <1>4, <3>1, <4>1, <4>2 DEF OnHost
    <3>2. CASE i[1] \in Units /\ i[2] = Whole
      BY <1>2, <3>2 DEF OnHost
    <3> QED BY <3>1, <3>2 DEF Items
  <2> QED BY <2>1 DEF KeptOK, Kept
<1> QED BY <1>5, <1>6, <1>7 DEF SystemInv

LEMMA SystemSurvives == SystemInv => DefinitionsSurvive
<1> SUFFICES ASSUME SystemInv, NEW i \in Items \ atRisk
             PROVE  \/ i \in CronFiles \X Defs /\ Matches(cron[i[1]], i[2]) # {}
                    \/ i \in present \X {Whole}
                    \/ i \in Restorable(trash)
                    \/ \E q \in Calls : i \in Held(q)
  BY DEF DefinitionsSurvive, Items
<1>1. /\ i = <<i[1], i[2]>> /\ Kept(i[1], i[2])
      /\ (i \in CronFiles \X Defs) \/ (i \in Units \X {Whole})
  BY DEF SystemInv, KeptOK, Items
<1>2. CASE OnHost(i[1], i[2])
  <2>1. CASE i[1] \in CronFiles /\ \E n \in 1..Len(cron[i[1]]) : cron[i[1]][n].def = i[2]
    <3>1. i \in CronFiles \X Defs
      BY <1>1, <2>1, SystemAssumption
    <3>2. Matches(cron[i[1]], i[2]) # {}
      BY <2>1 DEF Matches
    <3> QED BY <3>1, <3>2
  <2>2. CASE i[1] \in present /\ i[2] = Whole
    BY <1>1, <2>2
  <2> QED BY <1>2, <2>1, <2>2 DEF OnHost
<1>3. CASE \E q \in Calls : /\ call[q].step = "trash" /\ call[q].entry.restorable
                            /\ ItemOf(call[q].entry) = i
  <2>1. PICK q \in Calls : /\ call[q].step = "trash" /\ call[q].entry.restorable
                           /\ ItemOf(call[q].entry) = i
    BY <1>3
  <2>2. i \in Restorable(<<call[q].entry>>)
    BY <2>1, OneEntry
  <2> QED BY <2>1, <2>2 DEF Held, At
<1>4. CASE \E n \in 1..Len(trash) : trash[n].restorable /\ ItemOf(trash[n]) = i
  BY <1>4, AtRiskItems
<1> QED BY <1>1, <1>2, <1>3, <1>4 DEF Kept

\* No definition is lost by deleting and restoring it, however the requests
\* interleave, for any files, definitions and requests.  (Delete, Restore,
\* appendTrash)
THEOREM DeletedDefinitionsSurvive == SystemSpec => []DefinitionsSurvive
<1>1. SystemInit => SystemInv
  BY InitSystem
<1>2. SystemInv /\ [SystemNext]_systemVars => SystemInv'
  BY NextSystem
<1>3. SystemInv => DefinitionsSurvive
  BY SystemSurvives
<1> QED BY <1>1, <1>2, <1>3, PTL DEF SystemSpec
=============================================================================
