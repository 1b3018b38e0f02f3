------------------------------ MODULE Scheduler ------------------------------
(***************************************************************************)
(* Scheduler (cmd/syncbridge/scheduler.go): cron registrations of jobs,    *)
(* composed with what meets them: the HTTP handlers that change a job and  *)
(* then call reconcileTriggers (api_v1_jobs.go), the cron engine that runs *)
(* callbacks in goroutines of its own, and the revision check of           *)
(* RunService.Start that every callback ends in.                           *)
(*                                                                         *)
(* A section under Scheduler.mu is one step, and so is each call of the    *)
(* cron engine.  A job is seen through its revision and the kind of its    *)
(* cron field: Absent (not created yet, or deleted), "off" (not eligible), *)
(* "malformed" (normalizeCronSpec refuses it), "unparsable" (five or six   *)
(* fields the cron engine refuses) or a valid specification.               *)
(***************************************************************************)
EXTENDS Naturals, FiniteSets, Functions

CONSTANTS
  Jobs,
  Specs,          \* valid cron specifications, normalized
  Kinds,          \* cron fields that requests bring into the repository
  Callers,        \* concurrent requests that change jobs
  Callbacks,      \* bound: callbacks the engine has in flight
  MaxRevision,    \* bound: revisions of one job
  NoEntry         \* a job without registration

ASSUME SchedulerAssumption ==
  /\ IsFiniteSet(Jobs)
  /\ MaxRevision \in Nat
  /\ Specs \cap {"absent", "off", "malformed", "unparsable"} = {}

Absent == "absent"
Crons  == Specs \cup {Absent, "off", "malformed", "unparsable"}

ASSUME KindsAssumption == Kinds \subseteq Crons

Job == [rev : Nat, cron : Crons]

\* scheduledJob with its job; the generation stands for the engine's entry ID,
\* since every AddFunc registers a generation of its own.
Entry == [job : Jobs, rev : Nat, spec : Crons, gen : Nat]

ASSUME EntryAssumption == NoEntry \notin Entry

Failure    == [of : {"none", "definition", "start"}, gen : Nat]
NoFailure  == [of |-> "none", gen |-> 0]
Definition == [of |-> "definition", gen |-> 0]
StartOf(e) == [of |-> "start", gen |-> e.gen]

VARIABLES
  repo,         \* the job repository
  caller,       \* where a request is: "idle", "list", "reconcile", "inside"
  listed,       \* what a.Jobs.List() returned to it
  entries,      \* s.entries
  errs,         \* s.errors: what failed, and the generation if it was Start
  nextGen, closed,
  rec,          \* the Reconcile that holds reconcileMu
  closer,       \* Close: "open", "closing", "stopping", "done"
  cron,         \* entries installed in the cron engine
  cronStopped,
  calls,        \* callbacks in flight
  applied       \* history variable: the list of the last published Reconcile

vars == <<repo, caller, listed, entries, errs, nextGen, closed, rec, closer,
          cron, cronStopped, calls, applied>>

requestVars   == <<repo, caller, listed>>
registryVars  == <<entries, errs, nextGen, closed, applied>>

IdleRec  == [pc |-> "idle", next |-> [j \in Jobs |-> NoEntry], desired |-> {},
             invalid |-> {}, todo |-> {}, drop |-> {}, list |-> << >>,
             bad |-> NoEntry]
IdleCall == [pc |-> "free", entry |-> NoEntry]

Rec  == [pc : {"idle", "add", "rollback", "remove"},
         next : [Jobs -> Entry \cup {NoEntry}],
         desired : SUBSET Jobs, invalid : SUBSET Jobs, todo : SUBSET Jobs,
         drop : SUBSET Entry, list : [Jobs -> Job] \cup {<< >>},
         bad : Jobs \cup {NoEntry}]
Call == [pc : {"free", "fired", "claimed", "fine", "failed"},
         entry : Entry \cup {NoEntry}]

TypeOK ==
  /\ repo \in [Jobs -> Job]
  /\ caller \in [Callers -> {"idle", "list", "reconcile", "inside"}]
  /\ listed \in [Callers -> [Jobs -> Job] \cup {<< >>}]
  /\ \A c \in Callers :
       caller[c] \in {"reconcile", "inside"} => listed[c] \in [Jobs -> Job]
  /\ entries \in [Jobs -> Entry \cup {NoEntry}]
  /\ errs \in [Jobs -> Failure]
  /\ nextGen \in Nat /\ closed \in BOOLEAN /\ cronStopped \in BOOLEAN
  /\ closer \in {"open", "closing", "stopping", "done"}
  /\ rec \in Rec
  /\ cron \subseteq Entry
  /\ calls \in [Callbacks -> Call]
  /\ \A f \in Callbacks : calls[f].pc # "free" => calls[f].entry # NoEntry
  /\ applied \in [Jobs -> Job]

Init ==
  /\ repo = [j \in Jobs |-> [rev |-> 0, cron |-> Absent]]
  /\ caller = [c \in Callers |-> "idle"]
  /\ listed = [c \in Callers |-> << >>]
  /\ entries = [j \in Jobs |-> NoEntry]
  /\ errs = [j \in Jobs |-> NoFailure]
  /\ nextGen = 0 /\ closed = FALSE
  /\ rec = IdleRec
  /\ closer = "open"
  /\ cron = {} /\ cronStopped = FALSE
  /\ calls = [f \in Callbacks |-> IdleCall]
  /\ applied = repo
-----------------------------------------------------------------------------
(***************************************************************************)
(* A request changes a job (Create, Update or Delete of the repository, in *)
(* one step under its lock), lists all jobs, and reconciles.  The handlers *)
(* refuse a malformed field (validateV2Job); one can still come in from    *)
(* the jobs file, which every mutation reads anew.                         *)
(***************************************************************************)
Mutate(c, j, kind) ==
  /\ caller[c] = "idle"
  /\ repo[j].rev < MaxRevision
  /\ IF repo[j].rev = 0 THEN kind # Absent ELSE repo[j].cron # Absent
  /\ repo' = [repo EXCEPT ![j] = [rev |-> @.rev + 1, cron |-> kind]]
  /\ caller' = [caller EXCEPT ![c] = "list"]
  /\ UNCHANGED <<listed, registryVars, rec, closer, cron, cronStopped, calls>>

List(c) ==
  /\ caller[c] = "list"
  /\ listed' = [listed EXCEPT ![c] = repo]
  /\ caller' = [caller EXCEPT ![c] = "reconcile"]
  /\ UNCHANGED <<repo, registryVars, rec, closer, cron, cronStopped, calls>>
-----------------------------------------------------------------------------
(***************************************************************************)
(* Reconcile.                                                              *)
(***************************************************************************)
\* schedulerEligible and normalizeCronSpec, over a list of jobs
Desired(list) == {j \in Jobs : list[j].cron \notin {Absent, "off", "malformed"}}
Invalid(list) == {j \in Jobs : list[j].cron = "malformed"}

Registered == {j \in Jobs : entries[j] # NoEntry}

\* Mutant: an update that leaves the schedule alone keeps the old revision.
KeptBySpec(list) ==
  {j \in Registered :
     \/ j \in Invalid(list)
     \/ j \in Desired(list) /\ entries[j].spec = list[j].cron}

\* The registration of j stays: its new definition is invalid, or says the same.
Kept(list) ==
  {j \in Registered :
     \/ j \in Invalid(list)
     \/ j \in Desired(list) /\ entries[j].rev = list[j].rev
                            /\ entries[j].spec = list[j].cron}

\* Mutant: jobs without registration are removed too.
DroppedAll(list) == {entries[j] : j \in Jobs \ Kept(list)}

\* The registrations to remove once the new registry is published.
Dropped(list) == {entries[j] : j \in Registered \ Kept(list)}

MutexFree == rec.pc = "idle" /\ closer \notin {"closing", "stopping"}

Return(c) ==
  /\ caller' = [caller EXCEPT ![c] = "idle"]
  /\ listed' = [listed EXCEPT ![c] = << >>]
  /\ UNCHANGED repo

\* reconcileMu is taken; the new registry is computed under mu.
ReconcileBegin(c) ==
  /\ caller[c] = "reconcile" /\ MutexFree /\ ~closed
  /\ LET list  == listed[c]
         add   == Desired(list) \ Kept(list)
         fresh == nextGen + 1 .. nextGen + Cardinality(add)
     IN  /\ \E gen \in Bijection(add, fresh) :
              rec' = [pc      |-> "add",
                      next    |-> [j \in Jobs |->
                                     IF j \in add
                                     THEN [job |-> j, rev |-> list[j].rev,
                                           spec |-> list[j].cron, gen |-> gen[j]]
                                     ELSE IF j \in Kept(list) THEN entries[j]
                                     ELSE NoEntry],
                      desired |-> Desired(list),
                      invalid |-> Invalid(list),
                      todo    |-> add,
                      drop    |-> Dropped(list),
                      list    |-> list,
                      bad     |-> NoEntry]
         /\ nextGen' = nextGen + Cardinality(add)
  /\ caller' = [caller EXCEPT ![c] = "inside"]
  /\ UNCHANGED <<repo, listed, entries, errs, closed, applied, closer, cron,
                 cronStopped, calls>>

ReconcileClosed(c) ==
  /\ caller[c] = "reconcile" /\ MutexFree /\ closed
  /\ Return(c)
  /\ UNCHANGED <<registryVars, rec, closer, cron, cronStopped, calls>>

Installed == {rec.next[j] : j \in Jobs} \cap cron

\* cron.AddFunc accepts the specification of j
ReconcileAdd(j) ==
  /\ rec.pc = "add" /\ j \in rec.todo /\ rec.next[j].spec \in Specs
  /\ cron' = cron \cup {rec.next[j]}
  /\ rec' = [rec EXCEPT !.todo = @ \ {j}]
  /\ UNCHANGED <<requestVars, registryVars, closer, cronStopped, calls>>

\* Mutant: nothing is rolled back.
ReconcileRefusedKeeping(j) ==
  /\ rec.pc = "add" /\ j \in rec.todo /\ rec.next[j].spec \notin Specs
  /\ rec' = [rec EXCEPT !.pc = "rollback", !.bad = j, !.drop = {}]
  /\ UNCHANGED <<requestVars, registryVars, closer, cron, cronStopped, calls>>

\* cron.AddFunc refuses it: everything this call has added is removed again.
ReconcileRefused(j) ==
  /\ rec.pc = "add" /\ j \in rec.todo /\ rec.next[j].spec \notin Specs
  /\ rec' = [rec EXCEPT !.pc = "rollback", !.bad = j,
                        !.drop = {e \in Installed : entries[e.job] # e}]
  /\ UNCHANGED <<requestVars, registryVars, closer, cron, cronStopped, calls>>

\* cron.Remove, of one added entry after a refusal or of one replaced entry
ReconcileRemove(e) ==
  /\ rec.pc \in {"rollback", "remove"} /\ e \in rec.drop
  /\ cron' = cron \ {e}
  /\ rec' = [rec EXCEPT !.drop = @ \ {e}]
  /\ UNCHANGED <<requestVars, registryVars, closer, cronStopped, calls>>

\* The error is recorded and returned; nothing of the registry has changed.
ReconcileFail(c) ==
  /\ caller[c] = "inside" /\ rec.pc = "rollback" /\ rec.drop = {}
  /\ errs' = [errs EXCEPT ![rec.bad] = Definition]
  /\ rec' = IdleRec
  /\ Return(c)
  /\ UNCHANGED <<entries, nextGen, closed, applied, closer, cron, cronStopped,
                 calls>>

\* The new registry is published under mu.  Close waits for reconcileMu, so
\* closed cannot have been set since ReconcileBegin.
ReconcilePublish ==
  /\ rec.pc = "add" /\ rec.todo = {}
  /\ entries' = rec.next
  /\ errs' = [j \in Jobs |-> IF j \in rec.invalid THEN Definition
                             ELSE IF j \in rec.desired THEN NoFailure
                             ELSE errs[j]]
  /\ applied' = rec.list
  /\ rec' = [rec EXCEPT !.pc = "remove"]
  /\ UNCHANGED <<requestVars, nextGen, closed, closer, cron, cronStopped, calls>>

ReconcileEnd(c) ==
  /\ caller[c] = "inside" /\ rec.pc = "remove" /\ rec.drop = {}
  /\ rec' = IdleRec
  /\ Return(c)
  /\ UNCHANGED <<registryVars, closer, cron, cronStopped, calls>>
-----------------------------------------------------------------------------
(***************************************************************************)
(* The cron engine and fire().                                             *)
(***************************************************************************)
callFrame == <<requestVars, entries, nextGen, closed, applied, rec, closer,
               cron, cronStopped>>

\* An installed entry is due: the engine starts its callback.
Tick(f, e) ==
  /\ ~cronStopped /\ e \in cron /\ calls[f].pc = "free"
  /\ calls' = [calls EXCEPT ![f] = [pc |-> "fired", entry |-> e]]
  /\ UNCHANGED <<callFrame, errs>>

\* Is e the registration of its job, by revision and generation?
Current(e) ==
  LET now == entries[e.job] IN
  now # NoEntry /\ now.rev = e.rev /\ now.gen = e.gen

\* Mutant: a callback takes reconcileMu.
FireLocked(f) ==
  /\ calls[f].pc = "fired" /\ MutexFree
  /\ calls' = [calls EXCEPT ![f] = IF ~closed /\ Current(@.entry)
                                   THEN [@ EXCEPT !.pc = "claimed"]
                                   ELSE IdleCall]
  /\ UNCHANGED <<callFrame, errs>>

\* The first section of fire: claim the tick or drop it.
Fire(f) ==
  /\ calls[f].pc = "fired"
  /\ calls' = [calls EXCEPT ![f] = IF ~closed /\ Current(@.entry)
                                   THEN [@ EXCEPT !.pc = "claimed"]
                                   ELSE IdleCall]
  /\ UNCHANGED <<callFrame, errs>>

\* starter.Start(ctx, {JobID, Revision}): refused when the job has gone or has
\* another revision; otherwise started, rejected for overlap, or failed.
Admitted(e) == repo[e.job].cron # Absent /\ repo[e.job].rev = e.rev

Start(f) ==
  /\ calls[f].pc = "claimed"
  /\ \E result \in IF Admitted(calls[f].entry) THEN {"fine", "failed"}
                                               ELSE {"failed"} :
       calls' = [calls EXCEPT ![f].pc = result]
  /\ UNCHANGED <<callFrame, errs>>

\* Mutant: the failure is recorded whatever the registration is now.
FireDoneAnyGeneration(f) ==
  /\ calls[f].pc \in {"fine", "failed"}
  /\ errs' = IF calls[f].pc = "failed"
             THEN [errs EXCEPT ![calls[f].entry.job] = StartOf(calls[f].entry)]
             ELSE errs
  /\ calls' = [calls EXCEPT ![f] = IdleCall]
  /\ UNCHANGED callFrame

\* The second section of fire, and callbacks.Done.
FireDone(f) ==
  /\ calls[f].pc \in {"fine", "failed"}
  /\ LET e == calls[f].entry
         now == entries[e.job]
     IN  errs' = IF calls[f].pc = "failed" /\ now # NoEntry /\ now.gen = e.gen
                 THEN [errs EXCEPT ![e.job] = StartOf(e)] ELSE errs
  /\ calls' = [calls EXCEPT ![f] = IdleCall]
  /\ UNCHANGED callFrame
-----------------------------------------------------------------------------
(***************************************************************************)
(* Close.                                                                  *)
(***************************************************************************)
closeFrame == <<requestVars, errs, nextGen, applied, rec, cron, calls>>

CloseBegin ==
  /\ closer = "open" /\ MutexFree
  /\ closed' = TRUE
  /\ entries' = [j \in Jobs |-> NoEntry]
  /\ closer' = "closing"
  /\ UNCHANGED <<closeFrame, cronStopped>>

\* closer.Stop(): the engine starts no callback any more.
CloseStop ==
  /\ closer = "closing"
  /\ cronStopped' = TRUE
  /\ closer' = "stopping"
  /\ UNCHANGED <<closeFrame, closed, entries>>

\* The engine's callbacks are done, and so are the claimed ones.
CloseDone ==
  /\ closer = "stopping" /\ \A f \in Callbacks : calls[f].pc = "free"
  /\ closer' = "done"
  /\ UNCHANGED <<closeFrame, closed, entries, cronStopped>>
-----------------------------------------------------------------------------
Request(c) ==
  \/ \E j \in Jobs, kind \in Kinds : Mutate(c, j, kind)
  \/ List(c)

Reconcile ==
  \/ \E c \in Callers : \/ ReconcileBegin(c) \/ ReconcileClosed(c)
                        \/ ReconcileFail(c) \/ ReconcileEnd(c)
  \/ \E j \in Jobs : ReconcileAdd(j) \/ ReconcileRefused(j)
  \/ \E e \in rec.drop : ReconcileRemove(e)
  \/ ReconcilePublish

Callback(f) == Fire(f) \/ Start(f) \/ FireDone(f)

Close == CloseBegin \/ CloseStop \/ CloseDone

Next ==
  \/ \E c \in Callers : Request(c)
  \/ Reconcile
  \/ \E f \in Callbacks : Callback(f) \/ \E e \in cron : Tick(f, e)
  \/ Close

Spec == Init /\ [][Next]_vars
-----------------------------------------------------------------------------
(***************************************************************************)
(* Safety                                                                  *)
(***************************************************************************)
\* The cron engine and the registry agree, whatever additions were refused and
\* rolled back.  At every moment, also while an update is being installed, the
\* registration of a job has its entry in the engine, so that no tick of the job
\* is lost; between reconciliations the engine holds nothing else.  (AddFunc
\* before the registry is published, Remove after; the roll back of Reconcile)
EngineMatchesRegistry ==
  /\ \A j \in Registered : entries[j] \in cron
  /\ MutexFree /\ ~closed => cron = {entries[j] : j \in Registered}

\* Between reconciliations the registry is the list last published: valid jobs
\* at that revision, no others, except that a job whose definition was invalid
\* keeps a registration of another revision.
RegistryFollowsList ==
  MutexFree /\ ~closed =>
    \A j \in Jobs :
      IF j \in Invalid(applied)
      THEN j \in Registered => entries[j].rev # applied[j].rev
      ELSE /\ j \in Registered <=> j \in Desired(applied)
           /\ j \in Registered => /\ entries[j].rev = applied[j].rev
                                  /\ entries[j].spec = applied[j].cron

\* A failure recorded for a registered job is that of its definition or of its
\* present registration, never of one that was replaced while its callback was
\* still in Start.
ErrorsAreCurrent ==
  \A j \in Registered : errs[j].of = "start" => errs[j].gen = entries[j].gen

\* Whoever holds reconcileMu can go on, or a callback he waits for can: Close
\* keeps it while it waits for callbacks, which take mu and call Start.
HolderProgresses ==
  ~MutexFree => ENABLED (\/ Reconcile \/ CloseStop \/ CloseDone
                         \/ \E f \in Callbacks : Callback(f))
=============================================================================
