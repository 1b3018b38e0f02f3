---------------------------- MODULE RunLifecycle ----------------------------
(***************************************************************************)
(* What the run service promises about the runs of a job, without its      *)
(* goroutines, locks, processes, history and events: an identifier is      *)
(* reserved once, a job has one active run and behind it at most one       *)
(* queued run, only the active run may start running, and a run that ends  *)
(* hands its place to the queued one in the same step.                     *)
(*                                                                         *)
(* RunService implements this specification (Lifecycle!Spec there), and    *)
(* App composes it with the job repository, the triggers and the HTTP      *)
(* handlers.                                                               *)
(***************************************************************************)
CONSTANTS
  Runs,   \* run identifiers
  Jobs,   \* job identifiers
  NoRun,  \* the empty run ID
  NoJob   \* the job of an identifier that is not reserved yet

VARIABLES
  state,           \* none, queued, running or ended
  jobOf,           \* RunSnapshot.JobID
  active, pending  \* the run IDs the service keeps per job

vars == <<state, jobOf, active, pending>>

TypeOK ==
  /\ state \in [Runs -> {"none", "queued", "running", "ended"}]
  /\ jobOf \in [Runs -> Jobs \cup {NoJob}]
  /\ active \in [Jobs -> Runs \cup {NoRun}]
  /\ pending \in [Jobs -> Runs \cup {NoRun}]

Live(r) == state[r] \in {"queued", "running"}

Init ==
  /\ state = [r \in Runs |-> "none"]
  /\ jobOf = [r \in Runs |-> NoJob]
  /\ active = [j \in Jobs |-> NoRun]
  /\ pending = [j \in Jobs |-> NoRun]
-----------------------------------------------------------------------------
Reserve(r, j) ==
  /\ state[r] = "none"
  /\ jobOf' = [jobOf EXCEPT ![r] = j]

\* overlap=skip finds the job busy: the run is over before it began.
Skip(r, j) ==
  /\ Reserve(r, j) /\ active[j] # NoRun
  /\ state' = [state EXCEPT ![r] = "ended"]
  /\ UNCHANGED <<active, pending>>

\* overlap=queue-latest finds the job busy and nobody queued.
Queue(r, j) ==
  /\ Reserve(r, j) /\ active[j] # NoRun /\ pending[j] = NoRun
  /\ state' = [state EXCEPT ![r] = "queued"]
  /\ pending' = [pending EXCEPT ![j] = r]
  /\ UNCHANGED active

\* overlap=queue-latest: the run takes the place of the queued one.
Replace(r, j) ==
  /\ Reserve(r, j) /\ active[j] # NoRun /\ pending[j] # NoRun
  /\ state' = [state EXCEPT ![pending[j]] = "ended", ![r] = "queued"]
  /\ pending' = [pending EXCEPT ![j] = r]
  /\ UNCHANGED active

\* The job is free.
Activate(r, j) ==
  /\ Reserve(r, j) /\ active[j] = NoRun
  /\ state' = [state EXCEPT ![r] = "queued"]
  /\ active' = [active EXCEPT ![j] = r]
  /\ UNCHANGED pending

\* The active run's process has been started.
Run(r) ==
  /\ state[r] = "queued" /\ active[jobOf[r]] = r
  /\ state' = [state EXCEPT ![r] = "running"]
  /\ UNCHANGED <<jobOf, active, pending>>

\* A run becomes terminal: finished, failed to start or stopped.  A queued
\* run steps into the place of the active one.
End(r) ==
  /\ Live(r)
  /\ state' = [state EXCEPT ![r] = "ended"]
  /\ LET j == jobOf[r] IN
     IF active[j] = r
     THEN /\ active' = [active EXCEPT ![j] = pending[j]]
          /\ pending' = [pending EXCEPT ![j] = NoRun]
     ELSE /\ pending' = [pending EXCEPT ![j] = NoRun]
          /\ UNCHANGED active
  /\ UNCHANGED jobOf
-----------------------------------------------------------------------------
Start(r, j) == Skip(r, j) \/ Queue(r, j) \/ Replace(r, j) \/ Activate(r, j)

Next == \E r \in Runs : (\E j \in Jobs : Start(r, j)) \/ Run(r) \/ End(r)

Spec == Init /\ [][Next]_vars
=============================================================================
