-------------------------- MODULE RunServiceProofs --------------------------
(***************************************************************************)
(* Proofs about RunService for any number of runs and jobs.                *)
(***************************************************************************)
EXTENDS RunService, SequenceTheorems, TLAPS

\* What the control point of a run says about its status, and the flag that
\* keeps Stop from finishing a run whose process is being started.
PhaseInv ==
  \A r \in Runs :
    /\ status[r] = "none" => /\ r \notin runs /\ pc[r] = "idle"
                             /\ proc[r] = "none" /\ r \notin starting
    /\ status[r] # "none" => jobOf[r] \in Jobs
    /\ pc[r] \in {"exec", "publish"} => status[r] = "queued" /\ r \in starting
    /\ pc[r] \in {"stopcall", "wait"} <=> status[r] = "running"
    /\ r \in starting => pc[r] \in {"exec", "publish", "fail", "persist", "done"}
    /\ proc[r] = "live" => pc[r] \in {"publish", "stopcall", "wait"}

SafetyInv == ServiceOK /\ SlotsOwned /\ PhaseInv

\* trimLocked never drops a run that is not terminal, and invents none.
LEMMA TrimKeepsLive ==
  ASSUME NEW R, NEW st, NEW tk, NEW cutoff
  PROVE  /\ Trim(R, st, tk, cutoff) \subseteq R
         /\ \A r \in R : st[r] \notin Terminal => r \in Trim(R, st, tk, cutoff)
  BY DEF Trim

LEMMA InitSafety == Init => SafetyInv
  BY RunAssumption DEF Init, SafetyInv, ServiceOK, SlotsOwned, PhaseInv, LiveRun,
     Status, Terminal, PC, Proc

\* The variables SlotsOwned and PhaseInv speak of.
coreVars == <<runs, status, jobOf, active, pending, starting, pc, proc>>

LEMMA FrameSafety ==
  ASSUME SafetyInv, ServiceOK', UNCHANGED coreVars
  PROVE  SafetyInv'
  BY DEF SafetyInv, coreVars, SlotsOwned, PhaseInv, LiveRun

LEMMA ExecCompileSafety ==
  ASSUME SafetyInv, NEW r \in Runs, ExecCompile(r)
  PROVE  SafetyInv'
<1>1. PICK next \in {"install", "fail", "done"} :
        pc[r] = "compile" /\ pc' = [pc EXCEPT ![r] = next]
  BY DEF ExecCompile, Goto
<1>2. UNCHANGED noPcVars
  BY DEF ExecCompile
<1> USE <1>1, <1>2 DEF SafetyInv, noPcVars, slotVars, execVars, stopVars,
                       historyVars, ticketVars
<1>3. ServiceOK'
  BY DEF ServiceOK, PC
<1>4. SlotsOwned'
  BY RunAssumption DEF ServiceOK, SlotsOwned, LiveRun, PC
<1>5. PhaseInv'
  BY DEF ServiceOK, PhaseInv, PC
<1> QED BY <1>3, <1>4, <1>5

LEMMA ExecInstallSafety ==
  ASSUME SafetyInv, NEW r \in Runs, ExecInstall(r)
  PROVE  SafetyInv'
<1>1. PICK next \in {"arm", "fail", "done"} :
        pc[r] = "install" /\ pc' = [pc EXCEPT ![r] = next]
  BY DEF ExecInstall, Goto
<1>2. UNCHANGED noPcVars
  BY DEF ExecInstall
<1> USE <1>1, <1>2 DEF SafetyInv, noPcVars, slotVars, execVars, stopVars,
                       historyVars, ticketVars
<1>3. ServiceOK'
  BY DEF ServiceOK, PC
<1>4. SlotsOwned'
  BY RunAssumption DEF ServiceOK, SlotsOwned, LiveRun, PC
<1>5. PhaseInv'
  BY DEF ServiceOK, PhaseInv, PC
<1> QED BY <1>3, <1>4, <1>5

\* The check and the flag are one section: a run past this point is queued
\* and marked, so Stop leaves its status alone.
LEMMA ExecArmSafety ==
  ASSUME SafetyInv, NEW r \in Runs, ExecArm(r)
  PROVE  SafetyInv'
<1>1. UNCHANGED <<runs, status, jobOf, slotVars, execVars, stopRequested,
                  cancelled, stopped, ticketVars, historyVars, hooked>>
  BY DEF ExecArm
<1> USE <1>1 DEF SafetyInv, slotVars, execVars, historyVars, ticketVars
<1>2. CASE Queued(r)
  <2>1. /\ pc[r] = "arm" /\ pc' = [pc EXCEPT ![r] = "exec"]
        /\ starting' = starting \cup {r}
    BY <1>2 DEF ExecArm, Goto
  <2>2. ServiceOK'
    BY <2>1 DEF ServiceOK, PC
  <2>3. SlotsOwned'
    BY <2>1, RunAssumption DEF ServiceOK, SlotsOwned, LiveRun, PC
  <2>4. PhaseInv'
    BY <1>2, <2>1 DEF ServiceOK, PhaseInv, PC, Queued
  <2> QED BY <2>2, <2>3, <2>4
<1>3. CASE ~Queued(r)
  <2>1. /\ pc[r] = "arm" /\ pc' = [pc EXCEPT ![r] = "done"]
        /\ starting' = starting
    BY <1>3 DEF ExecArm, Goto
  <2>2. ServiceOK'
    BY <2>1 DEF ServiceOK, PC
  <2>3. SlotsOwned'
    BY <2>1, RunAssumption DEF ServiceOK, SlotsOwned, LiveRun, PC
  <2>4. PhaseInv'
    BY <2>1 DEF ServiceOK, PhaseInv, PC
  <2> QED BY <2>2, <2>3, <2>4
<1> QED BY <1>2, <1>3

LEMMA ExecStartSafety ==
  ASSUME SafetyInv, NEW r \in Runs, ExecStart(r)
  PROVE  SafetyInv'
<1>1. PICK next \in {"publish", "fail"} :
        /\ pc[r] = "exec" /\ pc' = [pc EXCEPT ![r] = next]
        /\ \/ next = "publish" /\ proc' = [proc EXCEPT ![r] = "live"]
           \/ next = "fail" /\ proc' = proc
  BY DEF ExecStart, Goto
<1>2. UNCHANGED <<runs, status, jobOf, slotVars, stopVars, sink, logged,
                  stopSent, ticketVars, historyVars, hooked>>
  BY DEF ExecStart
<1> USE <1>1, <1>2 DEF SafetyInv, slotVars, stopVars, historyVars, ticketVars
<1>3. ServiceOK'
  BY DEF ServiceOK, PC, Proc
<1>4. SlotsOwned'
  BY RunAssumption DEF ServiceOK, SlotsOwned, LiveRun, PC
<1>5. PhaseInv'
  BY DEF ServiceOK, PhaseInv, PC, Proc
<1> QED BY <1>3, <1>4, <1>5

\* A run at this point is queued, so the handle always gets an owner.
LEMMA ExecPublishSafety ==
  ASSUME SafetyInv, NEW r \in Runs, ExecPublish(r)
  PROVE  SafetyInv'
<1>1. Queued(r)
  BY DEF ExecPublish, Goto, SafetyInv, PhaseInv, SlotsOwned, LiveRun, Queued
<1>2. PICK next \in {"stopcall", "wait"} :
        /\ pc[r] = "publish" /\ pc' = [pc EXCEPT ![r] = next]
        /\ status' = [status EXCEPT ![r] = "running"]
        /\ starting' = starting \ {r}
  BY <1>1 DEF ExecPublish, Goto
<1>3. UNCHANGED <<runs, jobOf, slotVars, stopRequested, cancelled, stopped,
                  execVars, ticketVars, historyVars, hooked>>
  BY DEF ExecPublish
<1> USE <1>2, <1>3 DEF SafetyInv, slotVars, execVars, historyVars, ticketVars
<1>4. ServiceOK'
  BY DEF ServiceOK, PC, Status
<1>5. SlotsOwned'
  BY <1>1, RunAssumption DEF ServiceOK, SlotsOwned, LiveRun, PC, Queued
<1>6. PhaseInv'
  BY <1>1 DEF ServiceOK, PhaseInv, PC, Queued
<1> QED BY <1>4, <1>5, <1>6

LEMMA ProcLogSafety ==
  ASSUME SafetyInv, NEW r \in Runs, ProcLog(r)
  PROVE  SafetyInv'
<1> USE DEF ProcLog, SafetyInv, procUnchanged, slotVars, stopVars, historyVars, ticketVars
<1>1. ServiceOK'
  BY RunAssumption DEF ServiceOK
<1>2. UNCHANGED coreVars
  BY DEF coreVars
<1> QED BY <1>1, <1>2, FrameSafety

LEMMA ConsumeLogSafety ==
  ASSUME SafetyInv, NEW r \in Runs, ConsumeLog(r)
  PROVE  SafetyInv'
<1> USE DEF ConsumeLog, SafetyInv, procUnchanged, slotVars, stopVars, historyVars, ticketVars
<1>1. ServiceOK'
  BY RunAssumption DEF ServiceOK
<1>2. UNCHANGED coreVars
  BY DEF coreVars
<1> QED BY <1>1, <1>2, FrameSafety

LEMMA StopStartingSafety ==
  ASSUME SafetyInv, NEW r \in Runs, StopStarting(r)
  PROVE  SafetyInv'
<1> USE DEF StopStarting, SafetyInv, Queued, slotVars, execVars, historyVars, ticketVars
<1>1. ServiceOK'
  BY RunAssumption DEF ServiceOK
<1>2. UNCHANGED coreVars
  BY DEF coreVars
<1> QED BY <1>1, <1>2, FrameSafety

LEMMA StopRunningSafety ==
  ASSUME SafetyInv, NEW r \in Runs, StopRunning(r)
  PROVE  SafetyInv'
<1> USE DEF StopRunning, SafetyInv, slotVars, historyVars, ticketVars
<1>1. ServiceOK'
  BY RunAssumption DEF ServiceOK
<1>2. UNCHANGED coreVars
  BY DEF coreVars
<1> QED BY <1>1, <1>2, FrameSafety

LEMMA PersistAppendSafety ==
  ASSUME SafetyInv, NEW r \in Runs, PersistAppend(r)
  PROVE  SafetyInv'
<1> USE DEF PersistAppend, SafetyInv, slotVars, execVars, stopVars
<1>1. ServiceOK'
  BY RunAssumption DEF ServiceOK
<1>2. UNCHANGED coreVars
  BY DEF coreVars
<1> QED BY <1>1, <1>2, FrameSafety

LEMMA PersistFailSafety ==
  ASSUME SafetyInv, NEW r \in Runs, PersistFail(r)
  PROVE  SafetyInv'
<1> USE DEF SafetyInv, slotVars, execVars, stopVars
<1>0. historyFile' \in Seq(Runs)
  <2>1. historyFile \in Seq(Runs) /\ Append(historyFile, r) \in Seq(Runs)
    BY DEF ServiceOK
  <2>2. historyFile' = historyFile \/ historyFile' = Append(historyFile, r)
    BY DEF PersistFail
  <2> QED BY <2>1, <2>2
<1> USE DEF PersistFail
<1>1. ServiceOK'
  BY <1>0, RunAssumption DEF ServiceOK
<1>2. UNCHANGED coreVars
  BY DEF coreVars
<1> QED BY <1>1, <1>2, FrameSafety

LEMMA PersistErrorSafety ==
  ASSUME SafetyInv, NEW r \in Runs, PersistError(r)
  PROVE  SafetyInv'
<1> USE DEF PersistError, SafetyInv, slotVars, execVars, stopVars
<1>1. ServiceOK'
  BY RunAssumption DEF ServiceOK
<1>2. UNCHANGED coreVars
  BY DEF coreVars
<1> QED BY <1>1, <1>2, FrameSafety

LEMMA ExecStopCallSafety ==
  ASSUME SafetyInv, NEW r \in Runs, ExecStopCall(r)
  PROVE  SafetyInv'
<1> USE RunAssumption DEF ExecStopCall, SafetyInv, Goto, slotVars, stopVars, historyVars, ticketVars
<1>1. ServiceOK'
  BY DEF ServiceOK, PC, Proc, Status, Terminal
<1>2. SlotsOwned'
  BY DEF ServiceOK, SlotsOwned, PhaseInv, LiveRun, PC, Status, Terminal
<1>3. PhaseInv'
  BY DEF ServiceOK, SlotsOwned, PhaseInv, LiveRun, PC, Proc, Status, Terminal
<1> QED BY <1>1, <1>2, <1>3

LEMMA ExecHookSafety ==
  ASSUME SafetyInv, NEW r \in Runs, ExecHook(r)
  PROVE  SafetyInv'
<1> USE RunAssumption DEF ExecHook, SafetyInv, Goto, slotVars, execVars, stopVars, historyVars, ticketVars
<1>1. ServiceOK'
  BY DEF ServiceOK, PC, Proc, Status, Terminal
<1>2. SlotsOwned'
  BY DEF ServiceOK, SlotsOwned, PhaseInv, LiveRun, PC, Status, Terminal
<1>3. PhaseInv'
  BY DEF ServiceOK, SlotsOwned, PhaseInv, LiveRun, PC, Proc, Status, Terminal
<1> QED BY <1>1, <1>2, <1>3

LEMMA ProcExitSafety ==
  ASSUME SafetyInv, NEW r \in Runs, ProcExit(r)
  PROVE  SafetyInv'
<1> USE RunAssumption DEF ProcExit, SafetyInv, procUnchanged, slotVars, stopVars, historyVars, ticketVars
<1>1. ServiceOK'
  BY DEF ServiceOK, PC, Proc, Status, Terminal
<1>2. SlotsOwned'
  BY DEF ServiceOK, SlotsOwned, PhaseInv, LiveRun, PC, Status, Terminal
<1>3. PhaseInv'
  BY DEF ServiceOK, SlotsOwned, PhaseInv, LiveRun, PC, Proc, Status, Terminal
<1> QED BY <1>1, <1>2, <1>3

LEMMA StartSkippedSafety ==
  ASSUME SafetyInv, NEW r \in Runs, NEW j \in Jobs, StartSkipped(r, j)
  PROVE  SafetyInv'
<1> USE RunAssumption DEF StartSkipped, SafetyInv, slotVars, execVars, historyVars, TakeTicket, Reserve
<1>1. ServiceOK'
  BY DEF ServiceOK, PC, Proc, Status, Terminal
<1>2. SlotsOwned'
  BY DEF ServiceOK, SlotsOwned, PhaseInv, LiveRun, PC, Status, Terminal
<1>3. PhaseInv'
  BY DEF ServiceOK, SlotsOwned, PhaseInv, LiveRun, PC, Proc, Status, Terminal
<1> QED BY <1>1, <1>2, <1>3

LEMMA StartQueuedSafety ==
  ASSUME SafetyInv, NEW r \in Runs, NEW j \in Jobs, StartQueued(r, j)
  PROVE  SafetyInv'
<1> USE RunAssumption DEF StartQueued, SafetyInv, Queued, execVars, stopVars, historyVars, ticketVars, Reserve
<1>1. ServiceOK'
  BY DEF ServiceOK, PC, Proc, Status, Terminal
<1>2. SlotsOwned'
  BY DEF ServiceOK, SlotsOwned, PhaseInv, LiveRun, PC, Status, Terminal
<1>3. PhaseInv'
  BY DEF ServiceOK, SlotsOwned, PhaseInv, LiveRun, PC, Proc, Status, Terminal
<1> QED BY <1>1, <1>2, <1>3

LEMMA StartActiveSafety ==
  ASSUME SafetyInv, NEW r \in Runs, NEW j \in Jobs, StartActive(r, j)
  PROVE  SafetyInv'
<1> USE RunAssumption DEF StartActive, SafetyInv, execVars, stopVars, historyVars, ticketVars, Reserve
<1>1. ServiceOK'
  BY DEF ServiceOK, PC, Proc, Status, Terminal
<1>2. SlotsOwned'
  BY DEF ServiceOK, SlotsOwned, PhaseInv, LiveRun, PC, Status, Terminal
<1>3. PhaseInv'
  BY DEF ServiceOK, SlotsOwned, PhaseInv, LiveRun, PC, Proc, Status, Terminal
<1> QED BY <1>1, <1>2, <1>3

\* What finishLocked does to the slots of the job, called from finish and
\* from Stop: the next owner, if any, was pending and is queued.
LEMMA FinishSlots ==
  ASSUME SafetyInv, NEW r \in Runs, LiveRun(r), NEW result \in Terminal,
         NEW here \in PC \ {"exec", "publish", "stopcall", "wait"},
         r \in starting => here \in {"fail", "persist", "done"},
         proc[r] # "live",
         status' = [status EXCEPT ![r] = result],
         active' = ActiveAfter(r), pending' = PendingAfter(r),
         pc' = Spawn([pc EXCEPT ![r] = here], r),
         UNCHANGED <<jobOf, starting, proc>>,
         runs' \subseteq runs,
         \A q \in runs : status'[q] \notin Terminal => q \in runs'
  PROVE  SlotsOwned' /\ PhaseInv'
<1> DEFINE j == jobOf[r]
           n == NextPending(r)
<1> USE RunAssumption DEF SafetyInv
<1>1. j \in Jobs
  BY DEF PhaseInv, LiveRun
<1>2. n # NoRun => /\ n = pending[j] /\ n \in Runs /\ n # r /\ active[j] = r
                   /\ status[n] = "queued" /\ pc[n] = "idle" /\ jobOf[n] = j
  BY <1>1 DEF NextPending, SlotsOwned, LiveRun, ServiceOK
<1>3. /\ active' = [active EXCEPT ![j] = IF n # NoRun THEN n
                     ELSE IF active[j] = r THEN NoRun ELSE active[j]]
      /\ pending' = [pending EXCEPT ![j] = NoRun]
  BY DEF ActiveAfter, PendingAfter
<1>4. \A q \in Runs : pc'[q] = IF n # NoRun /\ q = n THEN "compile"
                               ELSE IF q = r THEN here ELSE pc[q]
  BY DEF Spawn, ServiceOK
<1>5. \A q \in Runs : status'[q] \in {"queued", "running"} <=> LiveRun(q) /\ q # r
  BY DEF LiveRun, ServiceOK, Terminal
<1>6. \A q \in Runs : status'[q] \in {"queued", "running"} =>
        q \in runs' /\ (active'[jobOf[q]] = q \/ pending'[jobOf[q]] = q)
  <2> SUFFICES ASSUME NEW q \in Runs, status'[q] \in {"queued", "running"}
               PROVE  q \in runs' /\ (active'[jobOf[q]] = q \/ pending'[jobOf[q]] = q)
    OBVIOUS
  <2>1. LiveRun(q) /\ q # r /\ q \in runs /\ jobOf[q] \in Jobs
        /\ (active[jobOf[q]] = q \/ pending[jobOf[q]] = q)
    BY <1>5 DEF SlotsOwned, PhaseInv, LiveRun
  <2>2. q \in runs'
    BY <2>1 DEF LiveRun, Terminal
  <2>3. CASE jobOf[q] # j
    BY <1>1, <1>3, <2>1, <2>2, <2>3 DEF ServiceOK
  <2>4. CASE jobOf[q] = j
    <3>1. CASE active[j] = q
      <4>1. n = NoRun
        BY <1>2, <2>1, <3>1
      <4> QED BY <4>1, <1>1, <1>3, <2>1, <2>2, <2>4, <3>1 DEF ServiceOK
    <3>2. CASE pending[j] = q
      <4>1. n = q
        BY <3>2, <2>1 DEF NextPending
      <4> QED BY <4>1, <1>1, <1>3, <2>2, <2>4 DEF ServiceOK
    <3> QED BY <2>1, <2>4, <3>1, <3>2
  <2> QED BY <2>3, <2>4
<1>7. ASSUME NEW i \in Jobs
      PROVE  /\ active'[i] # NoRun => /\ status'[active'[i]] \in {"queued", "running"}
                                   /\ jobOf[active'[i]] = i
             /\ pending'[i] # NoRun =>
                  /\ status'[pending'[i]] = "queued" /\ pc'[pending'[i]] = "idle"
                  /\ jobOf[pending'[i]] = i
                  /\ active'[i] \notin {NoRun, pending'[i]}
  <2>1. CASE i = j
    BY <1>1, <1>2, <1>3, <1>5, <2>1 DEF SlotsOwned, LiveRun, ServiceOK
  <2>2. CASE i # j
    <3>1. active'[i] = active[i] /\ pending'[i] = pending[i]
      BY <1>1, <1>3, <2>2 DEF ServiceOK
    <3>2. active[i] # NoRun => /\ status'[active[i]] \in {"queued", "running"}
                               /\ jobOf[active[i]] = i
      BY <1>5, <2>2 DEF SlotsOwned, ServiceOK
    <3>3. pending[i] # NoRun => pending[i] # r /\ pending[i] # n
      BY <1>2, <2>2 DEF SlotsOwned, ServiceOK
    <3>4. pending[i] # NoRun => pc'[pending[i]] = pc[pending[i]]
                                /\ status'[pending[i]] = status[pending[i]]
      BY <1>4, <3>3 DEF ServiceOK
    <3> QED BY <3>1, <3>2, <3>4 DEF SlotsOwned
  <2> QED BY <2>1, <2>2
<1>8. SlotsOwned'
  <2> HIDE DEF j, n
  <2>1. jobOf' = jobOf
    OBVIOUS
  <2>2. \A q \in Runs : status'[q] \in {"queued", "running"} =>
          q \in runs' /\ (active'[jobOf'[q]] = q \/ pending'[jobOf'[q]] = q)
    BY <1>6, <2>1
  <2>3. \A i \in Jobs :
          /\ active'[i] # NoRun => /\ status'[active'[i]] \in {"queued", "running"}
                                   /\ jobOf'[active'[i]] = i
          /\ pending'[i] # NoRun =>
               /\ status'[pending'[i]] = "queued" /\ pc'[pending'[i]] = "idle"
               /\ jobOf'[pending'[i]] = i
               /\ active'[i] \notin {NoRun, pending'[i]}
    BY ONLY <1>7, <2>1
  <2> QED BY ONLY <2>2, <2>3 DEF SlotsOwned, LiveRun
<1>9. PhaseInv'
  <2> SUFFICES ASSUME NEW q \in Runs
               PROVE  /\ status'[q] = "none" => /\ q \notin runs' /\ pc'[q] = "idle"
                                                /\ proc[q] = "none" /\ q \notin starting
                      /\ status'[q] # "none" => jobOf[q] \in Jobs
                      /\ pc'[q] \in {"exec", "publish"} => status'[q] = "queued" /\ q \in starting
                      /\ pc'[q] \in {"stopcall", "wait"} <=> status'[q] = "running"
                      /\ q \in starting => pc'[q] \in {"exec", "publish", "fail", "persist", "done"}
                      /\ proc[q] = "live" => pc'[q] \in {"publish", "stopcall", "wait"}
    BY DEF PhaseInv
  <2>1. CASE q = r
    BY <1>1, <1>2, <1>4, <2>1 DEF ServiceOK, Terminal
  <2>2. CASE n # NoRun /\ q = n
    BY <1>1, <1>2, <1>4, <2>2 DEF ServiceOK, PhaseInv
  <2>3. CASE q # r /\ (n = NoRun \/ q # n)
    BY <1>4, <2>3 DEF ServiceOK, PhaseInv
  <2> QED BY <2>1, <2>2, <2>3
<1> QED BY <1>8, <1>9

LEMMA TicketType ==
  ASSUME ServiceOK, NEW r \in Runs, TakeTicket(r)
  PROVE  /\ ticket' \in [Runs -> Nat]
         /\ historySequence' \in Nat
         /\ persist' \in [Runs -> {"none", "waiting", "failed", "done"}]
  BY DEF ServiceOK, TakeTicket

LEMMA ExecFinishSafety ==
  ASSUME SafetyInv, NEW r \in Runs, ExecFinish(r)
  PROVE  SafetyInv'
<1>1. UNCHANGED <<jobOf, starting, stopRequested, stopped, execVars,
                  historyVars, hooked>>
  BY DEF ExecFinish
<1> USE <1>1 DEF SafetyInv, execVars, historyVars
<1>2. pc[r] \in {"fail", "wait"} /\ proc[r] # "live"
  BY RunAssumption DEF ExecFinish, FinishReady, PhaseInv
<1>3. CASE r \in runs /\ ~IsTerminal(r)
  <2>1. PICK cutoff \in Cutoffs : runs' = RunsAfter(r, Outcome(r), cutoff)
    BY <1>3 DEF ExecFinish
  <2>2. /\ FinishLocked(r, Outcome(r))
        /\ active' = ActiveAfter(r) /\ pending' = PendingAfter(r)
        /\ pc' = Spawn([pc EXCEPT ![r] = "persist"], r)
    BY <1>3 DEF ExecFinish
  <2>3. Outcome(r) \in Terminal
    BY RunAssumption DEF ExecFinish, FinishReady, Outcome, Terminal
  <2>4. LiveRun(r)
    BY <1>2, <1>3 DEF LiveRun, IsTerminal, ServiceOK, Status, PhaseInv
  <2>5. /\ status' = [status EXCEPT ![r] = Outcome(r)]
        /\ cancelled' = cancelled \cup {r}
        /\ TakeTicket(r)
    BY <2>2 DEF FinishLocked
  <2>6. /\ runs' \subseteq runs
        /\ \A q \in runs : status'[q] \notin Terminal => q \in runs'
    BY <2>1, <2>5, TrimKeepsLive DEF RunsAfter
  <2>7. SlotsOwned' /\ PhaseInv'
    <3>1. "persist" \in PC \ {"exec", "publish", "stopcall", "wait"}
      BY DEF PC
    <3> QED BY <1>2, <2>2, <2>3, <2>4, <2>5, <2>6, <3>1, FinishSlots
  <2>8. ServiceOK'
    <3>1. /\ active' \in [Jobs -> Runs \cup {NoRun}]
          /\ pending' \in [Jobs -> Runs \cup {NoRun}]
          /\ pc' \in [Runs -> PC]
      BY <2>2 DEF ActiveAfter, PendingAfter, NextPending, Spawn, ServiceOK, PC
    <3>2. status' \in [Runs -> Status \cup {"none"}]
      BY <2>3, <2>5 DEF ServiceOK, Status
    <3>3. /\ ticket' \in [Runs -> Nat] /\ historySequence' \in Nat
          /\ persist' \in [Runs -> {"none", "waiting", "failed", "done"}]
      BY <2>5, TicketType
    <3> QED BY <2>5, <2>6, <3>1, <3>2, <3>3 DEF ServiceOK
  <2> QED BY <2>7, <2>8
<1>4. CASE ~(r \in runs /\ ~IsTerminal(r))
  <2>1. /\ pc' = [pc EXCEPT ![r] = "done"]
        /\ UNCHANGED <<status, cancelled, ticketVars, runs, slotVars>>
    BY <1>4 DEF ExecFinish
  <2>2. IsTerminal(r)
    BY <1>2, <1>4 DEF PhaseInv, SlotsOwned, LiveRun, ServiceOK, Status, IsTerminal
  <2> USE <2>1, <2>2 DEF ticketVars, slotVars
  <2>3. ServiceOK'
    BY DEF ServiceOK, PC
  <2>4. SlotsOwned'
    BY <1>2, RunAssumption DEF SlotsOwned, LiveRun, ServiceOK
  <2>5. PhaseInv'
    BY <1>2 DEF PhaseInv, ServiceOK, IsTerminal, Terminal
  <2> QED BY <2>3, <2>4, <2>5
<1> QED BY <1>3, <1>4

\* A queued run that is not marked as starting has no process yet.
LEMMA StopQueuedSafety ==
  ASSUME SafetyInv, NEW r \in Runs, StopQueued(r)
  PROVE  SafetyInv'
<1>1. UNCHANGED <<jobOf, starting, stopRequested, execVars, historyVars, hooked>>
  BY DEF StopQueued
<1> USE <1>1 DEF SafetyInv, execVars, historyVars
<1>2. /\ r \in runs /\ status[r] = "queued" /\ r \notin starting
      /\ pc[r] \in PC \ {"exec", "publish", "stopcall", "wait"}
      /\ proc[r] # "live"
  BY DEF StopQueued, Queued, PhaseInv, ServiceOK
<1>3. PICK cutoff \in Cutoffs : runs' = RunsAfter(r, "killed", cutoff)
  BY DEF StopQueued
<1>4. /\ status' = [status EXCEPT ![r] = "killed"]
      /\ cancelled' = cancelled \cup {r}
      /\ TakeTicket(r)
      /\ active' = ActiveAfter(r) /\ pending' = PendingAfter(r)
      /\ pc' = Spawn(pc, r)
      /\ stopped' = stopped \cup {r}
  BY DEF StopQueued, FinishLocked
<1>5. /\ runs' \subseteq runs
      /\ \A q \in runs : status'[q] \notin Terminal => q \in runs'
  BY <1>3, <1>4, TrimKeepsLive DEF RunsAfter
<1>6. SlotsOwned' /\ PhaseInv'
  <2>1. pc = [pc EXCEPT ![r] = pc[r]]
    BY DEF ServiceOK
  <2>2. pc' = Spawn([pc EXCEPT ![r] = pc[r]], r)
    BY <1>4, <2>1
  <2>3. "killed" \in Terminal /\ LiveRun(r)
    BY <1>2 DEF Terminal, LiveRun
  <2> QED BY <1>2, <1>4, <1>5, <2>2, <2>3, FinishSlots
<1>7. ServiceOK'
  <2>1. /\ active' \in [Jobs -> Runs \cup {NoRun}]
        /\ pending' \in [Jobs -> Runs \cup {NoRun}]
        /\ pc' \in [Runs -> PC]
    BY <1>4 DEF ActiveAfter, PendingAfter, NextPending, Spawn, ServiceOK, PC
  <2>2. status' \in [Runs -> Status \cup {"none"}]
    BY <1>4 DEF ServiceOK, Status, Terminal
  <2>3. /\ ticket' \in [Runs -> Nat] /\ historySequence' \in Nat
        /\ persist' \in [Runs -> {"none", "waiting", "failed", "done"}]
    BY <1>4, TicketType
  <2> QED BY <1>4, <1>5, <2>1, <2>2, <2>3 DEF ServiceOK
<1> QED BY <1>6, <1>7

\* The replaced run was pending, so the active run keeps its slot.
LEMMA StartReplacingSafety ==
  ASSUME SafetyInv, NEW r \in Runs, NEW j \in Jobs, StartReplacing(r, j)
  PROVE  SafetyInv'
<1> DEFINE p == pending[j]
<1>1. UNCHANGED <<starting, stopRequested, stopped, execVars, historyVars, hooked>>
  BY DEF StartReplacing
<1> USE <1>1, RunAssumption DEF SafetyInv, execVars, historyVars
<1>2. /\ status[r] = "none" /\ jobOf' = [jobOf EXCEPT ![r] = j]
      /\ p \in Runs /\ p # r /\ jobOf[p] = j /\ status[p] = "queued"
      /\ pc[p] = "idle" /\ p # NoRun /\ active[j] # NoRun /\ active[j] # p
  BY DEF StartReplacing, Reserve, SlotsOwned, ServiceOK
<1>3. PICK cutoff \in Cutoffs :
        runs' = RunsAfter(p, "skipped_overlap", cutoff) \cup {r}
  BY DEF StartReplacing
<1>4. /\ status' = [status EXCEPT ![p] = "skipped_overlap", ![r] = "queued"]
      /\ cancelled' = cancelled \cup {p}
      /\ TakeTicket(p)
      /\ active' = ActiveAfter(p)
      /\ pending' = [PendingAfter(p) EXCEPT ![j] = r]
      /\ pc' = Spawn(pc, p)
  BY DEF StartReplacing
<1>5. NextPending(p) = NoRun
  BY <1>2 DEF NextPending
<1>6. active' = active /\ pending' = [pending EXCEPT ![j] = r] /\ pc' = pc
  <2>1. active' = active
    BY <1>2, <1>4, <1>5 DEF ActiveAfter, ServiceOK
  <2>2. pending' = [pending EXCEPT ![j] = r]
    BY <1>2, <1>4 DEF PendingAfter, ServiceOK
  <2>3. pc' = pc
    BY <1>4, <1>5 DEF Spawn, ServiceOK
  <2> QED BY <2>1, <2>2, <2>3
<1>7. /\ runs' \subseteq runs \cup {r} /\ r \in runs'
      /\ \A q \in runs : q # p /\ status[q] \notin Terminal => q \in runs'
  <2> DEFINE st == [status EXCEPT ![p] = "skipped_overlap"]
             tk == [ticket EXCEPT ![p] = historySequence + 1]
  <2>1. runs' = Trim(runs, st, tk, cutoff) \cup {r}
    BY <1>3 DEF RunsAfter
  <2>2. /\ Trim(runs, st, tk, cutoff) \subseteq runs
        /\ \A q \in runs : st[q] \notin Terminal => q \in Trim(runs, st, tk, cutoff)
    BY TrimKeepsLive
  <2>3. \A q \in runs : q # p => st[q] = status[q]
    BY DEF ServiceOK
  <2> HIDE DEF st, tk
  <2> QED BY ONLY <2>1, <2>2, <2>3
<1>8. ServiceOK'
  <2>1. status' \in [Runs -> Status \cup {"none"}]
    BY <1>2, <1>4 DEF ServiceOK, Status, Terminal
  <2>2. /\ ticket' \in [Runs -> Nat] /\ historySequence' \in Nat
        /\ persist' \in [Runs -> {"none", "waiting", "failed", "done"}]
    BY <1>2, <1>4, TicketType
  <2>3. /\ runs' \subseteq Runs /\ cancelled' \subseteq Runs
    BY <1>2, <1>4, <1>7 DEF ServiceOK
  <2>4. jobOf' \in [Runs -> Jobs \cup {NoJob}]
    BY <1>2 DEF ServiceOK
  <2>5. /\ active' \in [Jobs -> Runs \cup {NoRun}]
        /\ pending' \in [Jobs -> Runs \cup {NoRun}]
        /\ pc' \in [Runs -> PC]
    BY <1>6 DEF ServiceOK
  <2> HIDE DEF p
  <2> QED BY <2>1, <2>2, <2>3, <2>4, <2>5 DEF ServiceOK
<1>9. SlotsOwned'
  <2>1. \A q \in Runs : status'[q] = IF q = r THEN "queued"
                       ELSE IF q = p THEN "skipped_overlap" ELSE status[q]
    BY <1>2, <1>4 DEF ServiceOK
  <2>2. \A q \in Runs : jobOf'[q] = IF q = r THEN j ELSE jobOf[q]
    BY <1>2 DEF ServiceOK
  <2>3. \A i \in Jobs : pending'[i] = IF i = j THEN r ELSE pending[i]
    BY <1>6 DEF ServiceOK
  <2>4. \A q \in Runs : q # r /\ q # p /\ LiveRun(q) =>
          /\ q \in runs' /\ jobOf[q] \in Jobs
          /\ active[jobOf[q]] = q \/ (jobOf[q] # j /\ pending[jobOf[q]] = q)
    BY <1>2, <1>7 DEF SlotsOwned, PhaseInv, LiveRun, Terminal
  <2>5. \A q \in Runs : LiveRun(q)' =>
          q \in runs' /\ (active[jobOf'[q]] = q \/ pending'[jobOf'[q]] = q)
    BY <1>2, <1>7, <2>1, <2>2, <2>3, <2>4 DEF LiveRun
  <2>6. \A i \in Jobs : active[i] # NoRun =>
          active[i] \in Runs /\ active[i] # r /\ active[i] # p
          /\ LiveRun(active[i]) /\ jobOf[active[i]] = i
    BY <1>2 DEF SlotsOwned, LiveRun, ServiceOK
  <2>7. \A i \in Jobs : i # j /\ pending[i] # NoRun =>
          /\ pending[i] \in Runs /\ pending[i] # r /\ pending[i] # p
          /\ status[pending[i]] = "queued" /\ pc[pending[i]] = "idle"
          /\ jobOf[pending[i]] = i /\ active[i] \notin {NoRun, pending[i]}
    BY <1>2 DEF SlotsOwned, ServiceOK
  <2>8. pc[r] = "idle"
    BY <1>2 DEF PhaseInv
  <2>9. \A i \in Jobs :
          /\ active[i] # NoRun => /\ status'[active[i]] \in {"queued", "running"}
                                  /\ jobOf'[active[i]] = i
          /\ pending'[i] # NoRun =>
               /\ status'[pending'[i]] = "queued" /\ pc[pending'[i]] = "idle"
               /\ jobOf'[pending'[i]] = i /\ active[i] \notin {NoRun, pending'[i]}
    BY <1>2, <2>1, <2>2, <2>3, <2>6, <2>7, <2>8 DEF LiveRun
  <2> HIDE DEF p
  <2> QED BY ONLY <1>6, <2>5, <2>9 DEF SlotsOwned, LiveRun
<1>10. PhaseInv'
  BY <1>2, <1>4, <1>6, <1>7 DEF PhaseInv, ServiceOK, Terminal
<1> QED BY <1>8, <1>9, <1>10

LEMMA PruneSafety ==
  ASSUME SafetyInv, Prune
  PROVE  SafetyInv'
<1>1. UNCHANGED <<status, jobOf, slotVars, stopVars, pc, execVars, ticketVars,
                  historyVars, hooked>>
  BY DEF Prune
<1>2. /\ runs' \subseteq runs
      /\ \A q \in runs : status[q] \notin Terminal => q \in runs'
  BY TrimKeepsLive DEF Prune
<1> USE <1>1, <1>2 DEF SafetyInv, slotVars, stopVars, execVars, ticketVars,
                       historyVars
<1>3. ServiceOK'
  BY DEF ServiceOK
<1>4. SlotsOwned'
  BY DEF SlotsOwned, LiveRun, Terminal
<1>5. PhaseInv'
  BY DEF PhaseInv
<1> QED BY <1>3, <1>4, <1>5

LEMMA NextSafety == SafetyInv /\ [Next]_vars => SafetyInv'
<1> SUFFICES ASSUME SafetyInv, [Next]_vars
             PROVE  SafetyInv'
  OBVIOUS
<1>1. ASSUME NEW r \in Runs, Start(r)
      PROVE  SafetyInv'
  BY <1>1, StartSkippedSafety, StartQueuedSafety, StartReplacingSafety,
     StartActiveSafety DEF Start
<1>2. ASSUME NEW r \in Runs, Execute(r)
      PROVE  SafetyInv'
  BY <1>2, ExecCompileSafety, ExecInstallSafety, ExecArmSafety, ExecStartSafety,
     ExecPublishSafety, ExecStopCallSafety, ExecFinishSafety, ExecHookSafety
     DEF Execute
<1>3. ASSUME NEW r \in Runs, Process(r)
      PROVE  SafetyInv'
  BY <1>3, ProcLogSafety, ProcExitSafety, ConsumeLogSafety DEF Process
<1>4. ASSUME NEW r \in Runs, Stop(r)
      PROVE  SafetyInv'
  BY <1>4, StopStartingSafety, StopQueuedSafety, StopRunningSafety DEF Stop
<1>5. ASSUME NEW r \in Runs, Persist(r)
      PROVE  SafetyInv'
  BY <1>5, PersistAppendSafety, PersistFailSafety, PersistErrorSafety DEF Persist
<1>6. CASE UNCHANGED vars
  <2>1. ServiceOK' /\ UNCHANGED coreVars
    BY <1>6 DEF vars, SafetyInv, ServiceOK, coreVars
  <2> QED BY <2>1, FrameSafety
<1> QED BY <1>1, <1>2, <1>3, <1>4, <1>5, <1>6, PruneSafety DEF Next

LEMMA ReachableSafety == Spec => []SafetyInv
<1> QED BY InitSafety, NextSafety, PTL DEF Spec

\* A live process belongs to the active run of its job: the control point says
\* the run is queued or running, hence it owns a slot, and a pending run has
\* no goroutine.
THEOREM ExecutionIsExclusive == Spec => []ExclusiveExecution
<1>1. SafetyInv => ExclusiveExecution
  BY RunAssumption
     DEF SafetyInv, PhaseInv, SlotsOwned, ExclusiveExecution, LiveRun
<1> QED BY <1>1, ReachableSafety, PTL

\* The slots of a job are consistent with the statuses of its runs, so the
\* promotion in finishLocked finds a retained, queued run.
THEOREM SlotsAreOwned == Spec => []SlotsOwned
<1>1. SafetyInv => SlotsOwned
  BY DEF SafetyInv
<1> QED BY <1>1, ReachableSafety, PTL
-----------------------------------------------------------------------------
(***************************************************************************)
(* History.                                                                *)
(***************************************************************************)
\* Everything in the file precedes the ticket whose turn it is, except a run
\* that was written although the write reported an error.
FileInv ==
  /\ historyNext # 0
  /\ \A n \in 1..Len(historyFile) :
       /\ ticket[historyFile[n]] # 0
       /\ \/ ticket[historyFile[n]] < historyNext
          \/ /\ ticket[historyFile[n]] = historyNext
             /\ persist[historyFile[n]] = "failed"

HistoryInv == OneTicketPerTerminalRun /\ FileInv /\ HistoryInTerminalOrder

LEMMA InitHistory == Init => HistoryInv
  BY DEF Init, HistoryInv, OneTicketPerTerminalRun, FileInv, IsTerminal, Terminal,
     HistoryInTerminalOrder

\* A run becomes terminal and takes the next ticket.
LEMMA TakeTicketHistory ==
  ASSUME ServiceOK, HistoryInv, NEW r \in Runs, ~IsTerminal(r), TakeTicket(r),
         \A q \in Runs : status'[q] \in Terminal <=> (IsTerminal(q) \/ q = r),
         UNCHANGED <<historyNext, historyFile>>
  PROVE  HistoryInv'
<1> USE DEF HistoryInv
<1>1. /\ ticket[r] = 0
      /\ \A q \in Runs : ticket'[q] = IF q = r THEN historySequence + 1 ELSE ticket[q]
      /\ historySequence' = historySequence + 1
      /\ historySequence \in Nat
      /\ \A q \in Runs : ticket[q] \in Nat /\ ticket[q] <= historySequence
  BY DEF TakeTicket, ServiceOK, OneTicketPerTerminalRun
<1>2. OneTicketPerTerminalRun'
  <2>1. ASSUME NEW n \in 1..historySequence'
        PROVE  \E q \in Runs : ticket'[q] = n
    <3>1. CASE n = historySequence + 1
      BY <1>1, <3>1
    <3>2. CASE n # historySequence + 1
      <4>1. PICK q \in Runs : ticket[q] = n
        BY <1>1, <2>1, <3>2 DEF OneTicketPerTerminalRun
      <4> QED BY <1>1, <2>1, <4>1
    <3> QED BY <3>1, <3>2
  <2>2. /\ \A q \in Runs : IsTerminal(q)' <=> ticket'[q] # 0
        /\ \A q, p \in Runs : ticket'[q] = ticket'[p] /\ ticket'[q] # 0 => q = p
        /\ \A q \in Runs : ticket'[q] <= historySequence'
    BY <1>1 DEF OneTicketPerTerminalRun, IsTerminal
  <2> QED BY <2>1, <2>2 DEF OneTicketPerTerminalRun
<1>3. \A n \in 1..Len(historyFile) :
        /\ historyFile[n] \in Runs
        /\ ticket'[historyFile[n]] = ticket[historyFile[n]]
        /\ persist'[historyFile[n]] = persist[historyFile[n]]
  <2>1. \A n \in 1..Len(historyFile) :
          historyFile[n] \in Runs /\ ticket[historyFile[n]] # 0
    BY DEF FileInv, ServiceOK
  <2>2. \A q \in Runs : q # r => persist'[q] = persist[q]
    BY DEF TakeTicket, ServiceOK
  <2> QED BY <1>1, <2>1, <2>2
<1>4. FileInv' /\ HistoryInTerminalOrder'
  BY <1>3 DEF FileInv, HistoryInTerminalOrder
<1> QED BY <1>2, <1>4

\* No run becomes terminal, no ticket is taken, no turn passed.
LEMMA KeepHistory ==
  ASSUME HistoryInv,
         \A q \in Runs : status'[q] \in Terminal <=> IsTerminal(q),
         UNCHANGED <<ticket, historySequence, persist, historyNext, historyFile>>
  PROVE  HistoryInv'
  BY DEF HistoryInv, OneTicketPerTerminalRun, FileInv, HistoryInTerminalOrder,
         IsTerminal

LEMMA StartHistory ==
  ASSUME SafetyInv, HistoryInv, NEW r \in Runs, Start(r)
  PROVE  HistoryInv'
<1> PICK j \in Jobs : \/ StartSkipped(r, j) \/ StartQueued(r, j)
                      \/ StartReplacing(r, j) \/ StartActive(r, j)
  BY DEF Start
<1> USE DEF SafetyInv, historyVars
<1>1. CASE StartSkipped(r, j)
  <2>1. ~IsTerminal(r) /\ TakeTicket(r) /\ UNCHANGED <<historyNext, historyFile>>
    BY <1>1 DEF StartSkipped, Reserve, IsTerminal, Terminal
  <2>2. \A q \in Runs : status'[q] \in Terminal <=> (IsTerminal(q) \/ q = r)
    BY <1>1 DEF StartSkipped, IsTerminal, Terminal, ServiceOK
  <2> QED BY <2>1, <2>2, TakeTicketHistory
<1>2. CASE StartReplacing(r, j)
  <2> DEFINE p == pending[j]
  <2>1. p \in Runs /\ status[p] = "queued" /\ status[r] = "none"
    BY <1>2 DEF StartReplacing, Reserve, SlotsOwned, ServiceOK
  <2>2. ~IsTerminal(p) /\ TakeTicket(p) /\ UNCHANGED <<historyNext, historyFile>>
    BY <1>2, <2>1 DEF StartReplacing, IsTerminal, Terminal
  <2>3. status' = [status EXCEPT ![p] = "skipped_overlap", ![r] = "queued"]
    BY <1>2 DEF StartReplacing
  <2>4. \A q \in Runs : status'[q] \in Terminal <=> (IsTerminal(q) \/ q = p)
    BY <2>1, <2>3 DEF IsTerminal, Terminal, ServiceOK
  <2> HIDE DEF p
  <2> QED BY <2>1, <2>2, <2>4, TakeTicketHistory
<1>3. CASE StartQueued(r, j) \/ StartActive(r, j)
  <2>1. /\ status[r] = "none" /\ status' = [status EXCEPT ![r] = "queued"]
        /\ UNCHANGED <<ticket, historySequence, persist, historyNext, historyFile>>
    BY <1>3 DEF StartQueued, StartActive, Reserve, ticketVars
  <2>2. \A q \in Runs : status'[q] \in Terminal <=> IsTerminal(q)
    BY <2>1 DEF IsTerminal, Terminal, ServiceOK
  <2> QED BY <2>1, <2>2, KeepHistory
<1> QED BY <1>1, <1>2, <1>3

LEMMA ExecuteHistory ==
  ASSUME SafetyInv, HistoryInv, NEW r \in Runs, Execute(r)
  PROVE  HistoryInv'
<1> USE DEF SafetyInv
<1>1. CASE ExecFinish(r)
  <2>1. UNCHANGED <<historyNext, historyFile>>
    BY <1>1 DEF ExecFinish, historyVars
  <2>2. CASE r \in runs /\ ~IsTerminal(r)
    <3>1. Outcome(r) \in Terminal
      BY <1>1, RunAssumption DEF ExecFinish, FinishReady, Outcome, Terminal
    <3>2. TakeTicket(r) /\ status' = [status EXCEPT ![r] = Outcome(r)]
      BY <1>1, <2>2 DEF ExecFinish, FinishLocked
    <3>3. \A q \in Runs : status'[q] \in Terminal <=> (IsTerminal(q) \/ q = r)
      BY <3>1, <3>2 DEF IsTerminal, ServiceOK
    <3> QED BY <2>1, <2>2, <3>2, <3>3, TakeTicketHistory
  <2>3. CASE ~(r \in runs /\ ~IsTerminal(r))
    <3>1. UNCHANGED <<status, ticket, historySequence, persist>>
      BY <1>1, <2>3 DEF ExecFinish, ticketVars
    <3> QED BY <2>1, <3>1, KeepHistory DEF IsTerminal
  <2> QED BY <2>2, <2>3
<1>2. CASE ExecPublish(r)
  <2>1. UNCHANGED <<ticket, historySequence, persist, historyNext, historyFile>>
    BY <1>2 DEF ExecPublish, ticketVars, historyVars
  <2>2. \/ status' = status
        \/ status[r] = "queued" /\ status' = [status EXCEPT ![r] = "running"]
    BY <1>2 DEF ExecPublish, Queued
  <2>3. \A q \in Runs : status'[q] \in Terminal <=> IsTerminal(q)
    BY <2>2 DEF IsTerminal, Terminal, ServiceOK
  <2> QED BY <2>1, <2>3, KeepHistory
<1>3. CASE \/ ExecCompile(r) \/ ExecInstall(r) \/ ExecArm(r) \/ ExecStart(r)
           \/ ExecStopCall(r) \/ ExecHook(r)
  <2>1. UNCHANGED <<status, ticket, historySequence, persist, historyNext,
                    historyFile>>
    BY <1>3 DEF ExecCompile, ExecInstall, ExecArm, ExecStart, ExecStopCall,
       ExecHook, noPcVars, ticketVars, historyVars
  <2> QED BY <2>1, KeepHistory DEF IsTerminal
<1> QED BY <1>1, <1>2, <1>3 DEF Execute

LEMMA StopHistory ==
  ASSUME SafetyInv, HistoryInv, NEW r \in Runs, Stop(r)
  PROVE  HistoryInv'
<1> USE DEF SafetyInv
<1>1. CASE StopQueued(r)
  <2>1. /\ ~IsTerminal(r) /\ TakeTicket(r)
        /\ status' = [status EXCEPT ![r] = "killed"]
        /\ UNCHANGED <<historyNext, historyFile>>
    BY <1>1 DEF StopQueued, FinishLocked, Queued, IsTerminal, Terminal, historyVars
  <2>2. \A q \in Runs : status'[q] \in Terminal <=> (IsTerminal(q) \/ q = r)
    BY <2>1 DEF IsTerminal, Terminal, ServiceOK
  <2> QED BY <2>1, <2>2, TakeTicketHistory
<1>2. CASE StopStarting(r) \/ StopRunning(r)
  <2>1. UNCHANGED <<status, ticket, historySequence, persist, historyNext,
                    historyFile>>
    BY <1>2 DEF StopStarting, StopRunning, ticketVars, historyVars
  <2> QED BY <2>1, KeepHistory DEF IsTerminal
<1> QED BY <1>1, <1>2 DEF Stop

\* Writing run r whose turn it is: r comes after everything in the file.
LEMMA AppendHistory ==
  ASSUME ServiceOK, HistoryInv, NEW r \in Runs,
         persist[r] = "waiting", MyTurn(r), ticket' = ticket,
         historyFile' = Append(historyFile, r)
  PROVE  /\ HistoryInTerminalOrder'
         /\ ticket[r] # 0
         /\ Len(historyFile') = Len(historyFile) + 1 /\ Len(historyFile) \in Nat
         /\ historyFile'[Len(historyFile) + 1] = r
         /\ \A n \in 1..Len(historyFile) :
              /\ historyFile'[n] = historyFile[n] /\ historyFile[n] \in Runs
              /\ ticket[historyFile[n]] \in Nat \ {0}
              /\ ticket[historyFile[n]] < historyNext
<1> USE DEF HistoryInv
<1>1. /\ ticket[r] = historyNext /\ historyNext \in Nat
      /\ historyFile \in Seq(Runs) /\ ticket \in [Runs -> Nat]
  BY DEF MyTurn, ServiceOK
<1>2. ticket[r] # 0
  <2>1. historyNext # 0
    BY DEF FileInv
  <2> QED BY <1>1, <2>1
<1>3. Len(historyFile') = Len(historyFile) + 1 /\ Len(historyFile) \in Nat
      /\ historyFile'[Len(historyFile) + 1] = r
  BY <1>1
<1>4. ASSUME NEW n \in 1..Len(historyFile)
      PROVE  /\ historyFile'[n] = historyFile[n] /\ historyFile[n] \in Runs
             /\ ticket[historyFile[n]] \in Nat \ {0}
             /\ ticket[historyFile[n]] < historyNext
  <2>1. historyFile'[n] = historyFile[n] /\ historyFile[n] \in Runs
    BY <1>1
  <2>2. ticket[historyFile[n]] \in Nat \ {0}
    BY <1>1, <2>1 DEF FileInv
  <2>3. CASE ticket[historyFile[n]] = historyNext /\ persist[historyFile[n]] = "failed"
    <3>1. historyFile[n] = r
      BY <1>1, <1>2, <2>1, <2>3 DEF OneTicketPerTerminalRun
    <3> QED BY <2>3, <3>1
  <2> QED BY <2>1, <2>2, <2>3 DEF FileInv
<1>5. HistoryInTerminalOrder'
  <2> SUFFICES ASSUME NEW m \in 1..Len(historyFile'), NEW n \in 1..Len(historyFile'),
                      m < n
               PROVE  ticket[historyFile'[m]] < ticket[historyFile'[n]]
    BY DEF HistoryInTerminalOrder
  <2>1. m \in 1..Len(historyFile)
    BY <1>3
  <2>2. CASE n \in 1..Len(historyFile)
    BY <1>4, <2>1, <2>2 DEF HistoryInTerminalOrder
  <2>3. CASE n = Len(historyFile) + 1
    BY <1>1, <1>3, <1>4, <2>1, <2>3
  <2> QED BY <1>3, <2>2, <2>3
<1> QED BY <1>2, <1>3, <1>4, <1>5

LEMMA PersistHistory ==
  ASSUME SafetyInv, HistoryInv, NEW r \in Runs, Persist(r)
  PROVE  HistoryInv'
<1> USE DEF SafetyInv, HistoryInv
<1>0. UNCHANGED <<status, ticket, historySequence>>
  BY DEF Persist, PersistAppend, PersistFail, PersistError
<1>1. OneTicketPerTerminalRun'
  BY <1>0 DEF OneTicketPerTerminalRun, IsTerminal
<1>2. historyNext \in Nat /\ persist \in [Runs -> {"none", "waiting", "failed", "done"}]
  BY DEF ServiceOK
<1>3. CASE PersistAppend(r)
  <2>1. /\ persist[r] = "waiting" /\ MyTurn(r)
        /\ historyFile' = Append(historyFile, r) /\ historyNext' = historyNext + 1
    BY <1>3 DEF PersistAppend
  <2>2. FileInv'
    BY <1>0, <1>2, <2>1, AppendHistory DEF FileInv, MyTurn
  <2> QED BY <1>0, <1>1, <2>1, <2>2, AppendHistory
<1>4. CASE PersistFail(r) /\ historyFile' = Append(historyFile, r)
  <2>1. /\ persist[r] = "waiting" /\ MyTurn(r) /\ historyNext' = historyNext
        /\ persist' = [persist EXCEPT ![r] = "failed"]
    BY <1>4 DEF PersistFail
  <2>2. FileInv'
    BY <1>0, <1>2, <1>4, <2>1, AppendHistory DEF FileInv, MyTurn
  <2> QED BY <1>0, <1>1, <1>4, <2>1, <2>2, AppendHistory
<1>5. CASE PersistFail(r) /\ historyFile' = historyFile
  <2>1. /\ persist' = [persist EXCEPT ![r] = "failed"]
        /\ historyNext' = historyNext /\ historyFile \in Seq(Runs)
    BY <1>5 DEF PersistFail, ServiceOK
  <2>2. FileInv'
    BY <1>0, <1>2, <1>5, <2>1 DEF FileInv
  <2>3. HistoryInTerminalOrder'
    BY <1>0, <1>5 DEF HistoryInTerminalOrder
  <2> QED BY <1>1, <2>2, <2>3
<1>6. CASE PersistError(r)
  <2>1. historyFile' = historyFile /\ historyNext' = historyNext + 1
    BY <1>6 DEF PersistError
  <2>2. FileInv'
    <3>1. \A n \in 1..Len(historyFile) : ticket[historyFile[n]] \in Nat
      BY DEF ServiceOK
    <3> QED BY <1>0, <1>2, <2>1, <3>1 DEF FileInv
  <2>3. HistoryInTerminalOrder'
    BY <1>0, <2>1 DEF HistoryInTerminalOrder
  <2> QED BY <1>1, <2>2, <2>3
<1> QED BY <1>3, <1>4, <1>5, <1>6 DEF Persist, PersistFail

LEMMA NextHistory == SafetyInv /\ HistoryInv /\ [Next]_vars => HistoryInv'
<1> SUFFICES ASSUME SafetyInv, HistoryInv, [Next]_vars
             PROVE  HistoryInv'
  OBVIOUS
<1> DEFINE quiet == UNCHANGED <<status, ticket, historySequence, persist,
                                historyNext, historyFile>>
<1>1. ASSUME quiet
      PROVE  HistoryInv'
  BY <1>1, KeepHistory DEF IsTerminal
<1>2. ASSUME NEW r \in Runs, Process(r)
      PROVE  quiet
  BY <1>2 DEF Process, ProcLog, ProcExit, ConsumeLog, procUnchanged, ticketVars,
     historyVars
<1>3. Prune => quiet
  BY DEF Prune, ticketVars, historyVars
<1>4. UNCHANGED vars => quiet
  BY DEF vars
<1> HIDE DEF quiet
<1> QED BY <1>1, <1>2, <1>3, <1>4, StartHistory, ExecuteHistory,
        StopHistory, PersistHistory DEF Next

LEMMA ReachableHistory == Spec => []HistoryInv
<1> QED BY InitHistory, NextHistory, ReachableSafety, PTL DEF Spec

\* Every terminal run holds exactly one ticket: history neither misses nor
\* repeats a terminal transition.
THEOREM TicketsMatchTerminalRuns == Spec => []OneTicketPerTerminalRun
<1>1. HistoryInv => OneTicketPerTerminalRun
  BY DEF HistoryInv
<1> QED BY <1>1, ReachableHistory, PTL

\* The history file is written in the order of the terminal transitions.
THEOREM HistoryIsOrdered == Spec => []HistoryInTerminalOrder
<1>1. HistoryInv => HistoryInTerminalOrder
  BY DEF HistoryInv
<1> QED BY <1>1, ReachableHistory, PTL
-----------------------------------------------------------------------------
\* A terminal status never changes and the executor is never started for a
\* terminal run.
THEOREM TerminalStatusIsFinal == Spec => TerminalIsFinal
<1>1. SafetyInv /\ [Next]_vars => [TerminalKept]_vars
  <2> SUFFICES ASSUME SafetyInv, Next
               PROVE  TerminalKept
    OBVIOUS
  <2> USE DEF SafetyInv, TerminalKept
  <2>1. ASSUME NEW r \in Runs, Start(r)
        PROVE  TerminalKept
    <3> PICK j \in Jobs : \/ StartSkipped(r, j) \/ StartQueued(r, j)
                          \/ StartReplacing(r, j) \/ StartActive(r, j)
      BY <2>1 DEF Start
    <3>1. status[r] = "none" /\ proc' = proc
      BY DEF StartSkipped, StartQueued, StartReplacing, StartActive, Reserve, execVars
    <3>2. CASE StartReplacing(r, j)
      <4>1. status[pending[j]] = "queued" /\ pending[j] \in Runs
        BY <3>2 DEF StartReplacing, SlotsOwned, ServiceOK
      <4>2. status' = [status EXCEPT ![pending[j]] = "skipped_overlap", ![r] = "queued"]
        BY <3>2 DEF StartReplacing
      <4> QED BY <3>1, <4>1, <4>2 DEF IsTerminal, Terminal, ServiceOK
    <3>3. CASE StartSkipped(r, j) \/ StartQueued(r, j) \/ StartActive(r, j)
      BY <3>1, <3>3 DEF StartSkipped, StartQueued, StartActive, IsTerminal,
         Terminal, ServiceOK
    <3> QED BY <3>2, <3>3
  <2>2. ASSUME NEW r \in Runs, Execute(r)
        PROVE  TerminalKept
    <3>1. CASE ExecStart(r)
      BY <3>1 DEF ExecStart, Goto, PhaseInv, IsTerminal, Terminal, ServiceOK
    <3>2. CASE ExecPublish(r)
      BY <3>2 DEF ExecPublish, Queued, IsTerminal, Terminal, ServiceOK, execVars
    <3>3. CASE ExecFinish(r)
      BY <3>3 DEF ExecFinish, FinishLocked, IsTerminal, ServiceOK, execVars
    <3>4. CASE \/ ExecCompile(r) \/ ExecInstall(r) \/ ExecArm(r)
               \/ ExecStopCall(r) \/ ExecHook(r)
      <4>1. UNCHANGED <<status, proc>>
        BY <3>4 DEF ExecCompile, ExecInstall, ExecArm, ExecStopCall, ExecHook,
           noPcVars, execVars
      <4> QED BY <4>1
    <3> QED BY <2>2, <3>1, <3>2, <3>3, <3>4 DEF Execute
  <2>3. ASSUME NEW r \in Runs, Process(r)
        PROVE  TerminalKept
    BY <2>3 DEF Process, ProcLog, ProcExit, ConsumeLog, procUnchanged, ServiceOK
  <2>4. ASSUME NEW r \in Runs, Stop(r)
        PROVE  TerminalKept
    <3>1. CASE StopQueued(r)
      BY <3>1 DEF StopQueued, FinishLocked, Queued, IsTerminal, Terminal,
         ServiceOK, execVars
    <3>2. CASE StopStarting(r) \/ StopRunning(r)
      BY <3>2 DEF StopStarting, StopRunning, execVars
    <3> QED BY <2>4, <3>1, <3>2 DEF Stop
  <2>5. ASSUME NEW r \in Runs, Persist(r)
        PROVE  TerminalKept
    BY <2>5 DEF Persist, PersistAppend, PersistFail, PersistError, execVars
  <2>6. Prune => TerminalKept
    BY DEF Prune, execVars
  <2> HIDE DEF TerminalKept
  <2> QED BY <2>1, <2>2, <2>3, <2>4, <2>5, <2>6 DEF Next
<1> QED BY <1>1, ReachableSafety, PTL DEF Spec, TerminalIsFinal
-----------------------------------------------------------------------------
(***************************************************************************)
(* RunService implements RunLifecycle, and what its control points say     *)
(* about log lines.                                                        *)
(***************************************************************************)
lifecycleVars == <<status, jobOf, active, pending>>

\* The abstract state is that of status.
LEMMA LifecycleStutter ==
  ASSUME UNCHANGED lifecycleVars
  PROVE  UNCHANGED Lifecycle!vars
  BY DEF lifecycleVars, Lifecycle!vars, lifecycleState, IsTerminal

LEMMA LifecycleInit == Init => Lifecycle!Init
  BY DEF Init, Lifecycle!Init, lifecycleState, IsTerminal, Terminal

\* Run r is given status st: the abstract state of r alone changes.
LEMMA LifecycleMove ==
  ASSUME ServiceOK, NEW r \in Runs, NEW st \in Status,
         status' = [status EXCEPT ![r] = st]
  PROVE  lifecycleState' =
           [lifecycleState EXCEPT ![r] = IF st \in Terminal THEN "ended" ELSE st]
  BY DEF ServiceOK, lifecycleState, IsTerminal

LEMMA StartRefines ==
  ASSUME SafetyInv, NEW r \in Runs, NEW j \in Jobs,
         \/ StartSkipped(r, j) \/ StartQueued(r, j)
         \/ StartReplacing(r, j) \/ StartActive(r, j)
  PROVE  Lifecycle!Start(r, j)
<1> USE RunAssumption DEF SafetyInv
<1>1. status[r] = "none" /\ jobOf' = [jobOf EXCEPT ![r] = j]
  BY DEF StartSkipped, StartQueued, StartReplacing, StartActive, Reserve
<1>2. Lifecycle!Reserve(r, j)
  BY <1>1 DEF Lifecycle!Reserve, lifecycleState, IsTerminal, Terminal
<1>3. CASE StartSkipped(r, j)
  <2>1. /\ active[j] # NoRun /\ UNCHANGED <<active, pending>>
        /\ status' = [status EXCEPT ![r] = "skipped_overlap"]
    BY <1>3 DEF StartSkipped, slotVars
  <2>2. lifecycleState' = [lifecycleState EXCEPT ![r] = "ended"]
    BY <2>1, LifecycleMove DEF Status, Terminal
  <2> QED BY <1>2, <2>1, <2>2 DEF Lifecycle!Start, Lifecycle!Skip
<1>4. CASE StartQueued(r, j)
  <2>1. /\ active[j] # NoRun /\ pending[j] = NoRun /\ UNCHANGED active
        /\ pending' = [pending EXCEPT ![j] = r]
        /\ status' = [status EXCEPT ![r] = "queued"]
    BY <1>4 DEF StartQueued
  <2>2. lifecycleState' = [lifecycleState EXCEPT ![r] = "queued"]
    BY <2>1, LifecycleMove DEF Status, Terminal
  <2> QED BY <1>2, <2>1, <2>2 DEF Lifecycle!Start, Lifecycle!Queue
<1>5. CASE StartActive(r, j)
  <2>1. /\ active[j] = NoRun /\ UNCHANGED pending
        /\ active' = [active EXCEPT ![j] = r]
        /\ status' = [status EXCEPT ![r] = "queued"]
    BY <1>5 DEF StartActive
  <2>2. lifecycleState' = [lifecycleState EXCEPT ![r] = "queued"]
    BY <2>1, LifecycleMove DEF Status, Terminal
  <2> QED BY <1>2, <2>1, <2>2 DEF Lifecycle!Start, Lifecycle!Activate
<1>6. CASE StartReplacing(r, j)
  <2> DEFINE p == pending[j]
  <2>1. /\ active[j] # NoRun /\ p # NoRun /\ p \in Runs /\ p # r /\ jobOf[p] = j
        /\ active[j] # p
    BY <1>1, <1>6 DEF StartReplacing, SlotsOwned, ServiceOK
  <2>2. /\ status' = [status EXCEPT ![p] = "skipped_overlap", ![r] = "queued"]
        /\ active' = ActiveAfter(p)
        /\ pending' = [PendingAfter(p) EXCEPT ![j] = r]
    BY <1>6 DEF StartReplacing
  <2>3. active' = active
    BY <2>1, <2>2 DEF ActiveAfter, NextPending, ServiceOK
  <2>4. pending' = [pending EXCEPT ![j] = r]
    BY <2>1, <2>2 DEF PendingAfter, ServiceOK
  <2>5. lifecycleState' = [lifecycleState EXCEPT ![p] = "ended", ![r] = "queued"]
    BY <2>1, <2>2 DEF lifecycleState, IsTerminal, Terminal, ServiceOK
  <2> QED BY <1>2, <2>1, <2>3, <2>4, <2>5 DEF Lifecycle!Start, Lifecycle!Replace
<1> QED BY <1>3, <1>4, <1>5, <1>6

\* finishLocked gives the active slot to the pending run, or clears the slot
\* of a pending run that is stopped.
LEMMA FinishRefines ==
  ASSUME SafetyInv, NEW r \in Runs, LiveRun(r), NEW result \in Terminal,
         status' = [status EXCEPT ![r] = result],
         active' = ActiveAfter(r), pending' = PendingAfter(r), UNCHANGED jobOf
  PROVE  Lifecycle!End(r)
<1> DEFINE j == jobOf[r]
<1> USE RunAssumption DEF SafetyInv
<1>1. j \in Jobs /\ (active[j] = r \/ pending[j] = r) /\ r # NoRun
  BY DEF PhaseInv, SlotsOwned, LiveRun
<1>2. pending[j] # NoRun => active[j] \notin {NoRun, pending[j]}
  BY <1>1 DEF SlotsOwned
<1>3. lifecycleState' = [lifecycleState EXCEPT ![r] = "ended"]
  BY LifecycleMove DEF Status
<1>4. lifecycleState[r] \in {"queued", "running"}
  BY DEF lifecycleState, IsTerminal, LiveRun, Terminal
<1>5. pending' = [pending EXCEPT ![j] = NoRun]
  BY DEF PendingAfter
<1>6. CASE active[j] = r
  <2>1. NextPending(r) = pending[j]
    BY <1>1, <1>2, <1>6 DEF NextPending
  <2>2. active' = [active EXCEPT ![j] = pending[j]]
    BY <1>1, <1>6, <2>1 DEF ActiveAfter, ServiceOK
  <2> QED BY <1>3, <1>4, <1>5, <1>6, <2>2 DEF Lifecycle!End, Lifecycle!Live
<1>7. CASE active[j] # r
  <2>1. NextPending(r) = NoRun
    BY <1>1, <1>7 DEF NextPending
  <2>2. active' = active
    BY <1>1, <1>7, <2>1 DEF ActiveAfter, ServiceOK
  <2> QED BY <1>3, <1>4, <1>5, <1>7, <2>2 DEF Lifecycle!End, Lifecycle!Live
<1> QED BY <1>6, <1>7

\* A run whose process has been started owns the active slot: a pending run
\* has no goroutine.
LEMMA PublishRefines ==
  ASSUME SafetyInv, NEW r \in Runs, ExecPublish(r)
  PROVE  Lifecycle!Run(r)
<1> USE RunAssumption DEF SafetyInv
<1>1. pc[r] = "publish"
  BY DEF ExecPublish, Goto
<1>2. status[r] = "queued" /\ r \in runs /\ jobOf[r] \in Jobs
  BY <1>1 DEF PhaseInv, SlotsOwned, LiveRun
<1>3. active[jobOf[r]] = r
  BY <1>1, <1>2 DEF SlotsOwned, LiveRun
<1>4. /\ status' = [status EXCEPT ![r] = "running"]
      /\ UNCHANGED <<jobOf, active, pending>>
  BY <1>2 DEF ExecPublish, Queued, slotVars
<1>5. lifecycleState' = [lifecycleState EXCEPT ![r] = "running"]
  BY <1>4, LifecycleMove DEF Status, Terminal
<1>6. lifecycleState[r] = "queued"
  BY <1>2 DEF lifecycleState, IsTerminal, Terminal
<1> QED BY <1>3, <1>4, <1>5, <1>6 DEF Lifecycle!Run

LEMMA ExecFinishRefines ==
  ASSUME SafetyInv, NEW r \in Runs, ExecFinish(r)
  PROVE  Lifecycle!End(r) \/ UNCHANGED lifecycleVars
<1> USE DEF SafetyInv
<1>1. UNCHANGED jobOf
  BY DEF ExecFinish
<1>2. CASE r \in runs /\ ~IsTerminal(r)
  <2>1. /\ status' = [status EXCEPT ![r] = Outcome(r)]
        /\ active' = ActiveAfter(r) /\ pending' = PendingAfter(r)
    BY <1>2 DEF ExecFinish, FinishLocked
  <2>2. Outcome(r) \in Terminal
    BY RunAssumption DEF ExecFinish, FinishReady, Outcome, Terminal
  <2>3. LiveRun(r)
    BY <1>2 DEF ExecFinish, FinishReady, LiveRun, IsTerminal, ServiceOK, Status,
       PhaseInv
  <2> QED BY <1>1, <2>1, <2>2, <2>3, FinishRefines
<1>3. CASE ~(r \in runs /\ ~IsTerminal(r))
  BY <1>1, <1>3 DEF ExecFinish, lifecycleVars, slotVars
<1> QED BY <1>2, <1>3

LEMMA StopQueuedRefines ==
  ASSUME SafetyInv, NEW r \in Runs, StopQueued(r)
  PROVE  Lifecycle!End(r)
<1>1. /\ status' = [status EXCEPT ![r] = "killed"]
      /\ active' = ActiveAfter(r) /\ pending' = PendingAfter(r) /\ UNCHANGED jobOf
  BY DEF StopQueued, FinishLocked
<1>2. LiveRun(r) /\ "killed" \in Terminal
  BY DEF StopQueued, Queued, LiveRun, Terminal
<1> QED BY <1>1, <1>2, FinishRefines

\* Every step of the service is a step of the life cycle or changes none of it.
LEMMA NextRefines ==
  SafetyInv /\ [Next]_vars => [Lifecycle!Next]_Lifecycle!vars
<1> SUFFICES ASSUME SafetyInv, [Next]_vars
             PROVE  Lifecycle!Next \/ UNCHANGED lifecycleVars
  BY LifecycleStutter
<1>1. ASSUME NEW r \in Runs, Start(r)
      PROVE  Lifecycle!Next
  BY <1>1, StartRefines DEF Start, Lifecycle!Next
<1>2. ASSUME NEW r \in Runs, Execute(r)
      PROVE  Lifecycle!Next \/ UNCHANGED lifecycleVars
  <2>1. CASE ExecFinish(r)
    BY <2>1, ExecFinishRefines DEF Lifecycle!Next
  <2>2. CASE ExecPublish(r)
    BY <2>2, PublishRefines DEF Lifecycle!Next
  <2>3. CASE \/ ExecCompile(r) \/ ExecInstall(r) \/ ExecArm(r) \/ ExecStart(r)
             \/ ExecStopCall(r) \/ ExecHook(r)
    BY <2>3 DEF ExecCompile, ExecInstall, ExecArm, ExecStart, ExecStopCall,
       ExecHook, noPcVars, lifecycleVars, slotVars
  <2> QED BY <1>2, <2>1, <2>2, <2>3 DEF Execute
<1>3. ASSUME NEW r \in Runs, Process(r)
      PROVE  UNCHANGED lifecycleVars
  BY <1>3 DEF Process, ProcLog, ProcExit, ConsumeLog, procUnchanged,
     lifecycleVars, slotVars
<1>4. ASSUME NEW r \in Runs, Stop(r)
      PROVE  Lifecycle!Next \/ UNCHANGED lifecycleVars
  <2>1. CASE StopQueued(r)
    BY <2>1, StopQueuedRefines DEF Lifecycle!Next
  <2>2. CASE StopStarting(r) \/ StopRunning(r)
    BY <2>2 DEF StopStarting, StopRunning, lifecycleVars, slotVars
  <2> QED BY <1>4, <2>1, <2>2 DEF Stop
<1>5. ASSUME NEW r \in Runs, Persist(r)
      PROVE  UNCHANGED lifecycleVars
  BY <1>5 DEF Persist, PersistAppend, PersistFail, PersistError, lifecycleVars,
     slotVars
<1>6. Prune \/ UNCHANGED vars => UNCHANGED lifecycleVars
  BY DEF Prune, vars, lifecycleVars, slotVars
<1> QED BY <1>1, <1>2, <1>3, <1>4, <1>5, <1>6 DEF Next

\* RunService implements RunLifecycle: whatever starts, stops, replacements,
\* failures and promotions meet, only the active run starts running and the
\* queued run is promoted in the step that ends the active one.
THEOREM ServiceRefinesLifecycle == Spec => ImplementsLifecycle
<1> QED BY LifecycleInit, NextRefines, ReachableSafety, PTL
        DEF Spec, ImplementsLifecycle, Lifecycle!Spec
-----------------------------------------------------------------------------
(***************************************************************************)
(* Log lines.                                                              *)
(***************************************************************************)
\* A run has undelivered lines only while its goroutine is between the start of
\* the process and finish.
DrainInv ==
  \A r \in Runs : sink[r] # 0 => pc[r] \in {"publish", "stopcall", "wait"}

\* Steps that change no sink and take no run out of the points above.
LEMMA DrainKept ==
  ASSUME DrainInv, UNCHANGED sink,
         \A q \in Runs : pc[q] \in {"publish", "stopcall", "wait"} /\ sink[q] # 0 =>
                         pc'[q] \in {"publish", "stopcall", "wait"}
  PROVE  DrainInv'
  BY DEF DrainInv

\* The promoted run had no goroutine, hence no lines.
LEMMA SpawnKeeps ==
  ASSUME SafetyInv, NEW r \in Runs, LiveRun(r), NEW q \in Runs, NEW points,
         pc[q] # "idle"
  PROVE  Spawn(points, r)[q] = points[q]
<1>1. jobOf[r] \in Jobs
  BY DEF SafetyInv, PhaseInv, LiveRun
<1>2. NextPending(r) # NoRun => pc[NextPending(r)] = "idle"
  BY <1>1 DEF SafetyInv, SlotsOwned, NextPending
<1> QED BY <1>2, RunAssumption DEF Spawn

LEMMA NextDrain == SafetyInv /\ DrainInv /\ [Next]_vars => DrainInv'
<1> SUFFICES ASSUME SafetyInv, DrainInv, [Next]_vars
             PROVE  DrainInv'
  OBVIOUS
<1> USE RunAssumption DEF SafetyInv
<1>1. ASSUME NEW r \in Runs, Start(r)
      PROVE  DrainInv'
  <2> PICK j \in Jobs : \/ StartSkipped(r, j) \/ StartQueued(r, j)
                        \/ StartReplacing(r, j) \/ StartActive(r, j)
    BY <1>1 DEF Start
  <2>1. UNCHANGED sink /\ pc[r] = "idle"
    BY DEF StartSkipped, StartQueued, StartReplacing, StartActive, Reserve,
       execVars, PhaseInv
  <2>2. CASE StartReplacing(r, j)
    <3>1. pending[j] \in Runs /\ LiveRun(pending[j]) /\ pc' = Spawn(pc, pending[j])
      BY <2>2 DEF StartReplacing, SlotsOwned, ServiceOK, LiveRun
    <3> QED BY <2>1, <3>1, SpawnKeeps, DrainKept
  <2>3. CASE StartSkipped(r, j) \/ StartQueued(r, j) \/ StartActive(r, j)
    <3>1. \A q \in Runs : q # r => pc'[q] = pc[q]
      BY <2>3 DEF StartSkipped, StartQueued, StartActive, ServiceOK
    <3> QED BY <2>1, <3>1, DrainKept
  <2> QED BY <2>2, <2>3
<1>2. ASSUME NEW r \in Runs, Execute(r)
      PROVE  DrainInv'
  <2>1. UNCHANGED sink
    BY <1>2 DEF Execute, ExecCompile, ExecInstall, ExecArm, ExecStart, ExecPublish,
       ExecStopCall, ExecFinish, ExecHook, noPcVars, execVars
  <2>2. CASE ExecFinish(r)
    <3>1. sink[r] = 0
      BY <2>2 DEF ExecFinish, FinishReady, DrainInv
    <3>2. CASE r \in runs /\ ~IsTerminal(r)
      <4>1. pc' = Spawn([pc EXCEPT ![r] = "persist"], r)
        BY <2>2, <3>2 DEF ExecFinish
      <4>2. LiveRun(r)
        BY <2>2, <3>2 DEF ExecFinish, FinishReady, LiveRun, IsTerminal, ServiceOK,
           Status, PhaseInv
      <4> DEFINE points == [pc EXCEPT ![r] = "persist"]
      <4>3. \A q \in Runs : q # r /\ pc[q] # "idle" => pc'[q] = pc[q]
        <5>1. \A q \in Runs : q # r => points[q] = pc[q]
          BY DEF ServiceOK
        <5> HIDE DEF points
        <5> QED BY <4>1, <4>2, <5>1, SpawnKeeps DEF points
      <4> QED BY <2>1, <3>1, <4>3, DrainKept
    <3>3. CASE ~(r \in runs /\ ~IsTerminal(r))
      <4>1. pc' = [pc EXCEPT ![r] = "done"]
        BY <2>2, <3>3 DEF ExecFinish
      <4> QED BY <2>1, <3>1, <4>1, DrainKept DEF ServiceOK
    <3> QED BY <3>2, <3>3
  <2>3. CASE ExecPublish(r) \/ ExecStopCall(r)
    <3>1. \A q \in Runs : pc'[q] = pc[q] \/ pc'[q] \in {"stopcall", "wait"}
      BY <2>3 DEF ExecPublish, ExecStopCall, Goto, ServiceOK
    <3> QED BY <2>1, <3>1, DrainKept
  <2>4. CASE \/ ExecCompile(r) \/ ExecInstall(r) \/ ExecArm(r) \/ ExecStart(r)
             \/ ExecHook(r)
    <3>1. /\ pc[r] \notin {"publish", "stopcall", "wait"}
          /\ \A q \in Runs : q # r => pc'[q] = pc[q]
      BY <2>4 DEF ExecCompile, ExecInstall, ExecArm, ExecStart, ExecHook, Goto,
         ServiceOK
    <3> QED BY <2>1, <3>1, DrainKept
  <2> QED BY <1>2, <2>2, <2>3, <2>4 DEF Execute
<1>3. ASSUME NEW r \in Runs, Process(r)
      PROVE  DrainInv'
  <2>1. UNCHANGED pc
    BY <1>3 DEF Process, ProcLog, ProcExit, ConsumeLog
  <2>2. CASE ProcLog(r)
    <3>1. pc[r] \in {"publish", "stopcall", "wait"}
      BY <2>2 DEF ProcLog, PhaseInv
    <3>2. \A q \in Runs : q # r => sink'[q] = sink[q]
      BY <2>2 DEF ProcLog, ServiceOK
    <3> QED BY <2>1, <3>1, <3>2 DEF DrainInv
  <2>3. CASE ConsumeLog(r)
    <3>1. \A q \in Runs : q # r => sink'[q] = sink[q]
      BY <2>3 DEF ConsumeLog, ServiceOK
    <3>2. sink[r] # 0
      BY <2>3 DEF ConsumeLog, ServiceOK
    <3> QED BY <2>1, <3>1, <3>2 DEF DrainInv
  <2>4. CASE ProcExit(r)
    BY <2>1, <2>4 DEF ProcExit, DrainInv
  <2> QED BY <1>3, <2>2, <2>3, <2>4 DEF Process
<1>4. ASSUME NEW r \in Runs, Stop(r)
      PROVE  DrainInv'
  <2>1. CASE StopQueued(r)
    <3>1. LiveRun(r) /\ pc' = Spawn(pc, r) /\ UNCHANGED sink
      BY <2>1 DEF StopQueued, Queued, LiveRun, execVars
    <3> QED BY <3>1, SpawnKeeps, DrainKept
  <2>2. CASE StopStarting(r) \/ StopRunning(r)
    BY <2>2, DrainKept DEF StopStarting, StopRunning, execVars
  <2> QED BY <1>4, <2>1, <2>2 DEF Stop
<1>5. ASSUME NEW r \in Runs, Persist(r)
      PROVE  DrainInv'
  BY <1>5, DrainKept DEF Persist, PersistAppend, PersistFail, PersistError, execVars
<1>6. CASE Prune \/ UNCHANGED vars
  BY <1>6, DrainKept DEF Prune, vars, execVars
<1> QED BY <1>1, <1>2, <1>3, <1>4, <1>5, <1>6 DEF Next

\* When a run becomes terminal every line of its process has been consumed.
THEOREM TerminalRunsAreDrained == Spec => []LogsDrainedWhenTerminal
<1>1. Init => DrainInv
  BY DEF Init, DrainInv
<1>2. SafetyInv /\ DrainInv => LogsDrainedWhenTerminal
  BY DEF SafetyInv, PhaseInv, DrainInv, LogsDrainedWhenTerminal, IsTerminal, Terminal
<1> QED BY <1>1, <1>2, NextDrain, ReachableSafety, PTL DEF Spec
-----------------------------------------------------------------------------
(***************************************************************************)
(* Types, the event stream included.                                       *)
(***************************************************************************)
LEMMA WindowType ==
  ASSUME NEW evs \in Seq(Event)
  PROVE  Window(evs) \in Seq(Event)
<1>1. MaxEvents \in Nat
  BY HubAssumption DEF MaxEvents
<1>2. CASE Len(evs) > MaxEvents
  <2>1. Len(evs) - MaxEvents + 1 \in 1..(Len(evs) + 1) /\ Len(evs) \in Nat
    BY <1>1, <1>2
  <2> QED BY <1>2, <2>1, SubSeqProperties DEF Window
<1> QED BY <1>2 DEF Window

LEMMA OfferType ==
  ASSUME NEW sub \in Subscription, NEW e \in Event
  PROVE  Offer(sub, e) \in Subscription
<1>1. Append(sub.chan, e) \in Seq(Event)
  BY DEF Subscription
<1> QED BY <1>1 DEF Offer, Subscription

LEMMA PublishType ==
  ASSUME NEW h \in Hub, NEW r \in Runs, NEW st
  PROVE  Publish(h, r, st) \in Hub
<1> DEFINE e == [id |-> h.eventID + 1, run |-> r, final |-> st \in Terminal]
<1>1. e \in Event /\ h.eventID + 1 \in Nat
  BY DEF Hub, Event
<1>2. Window(Append(h.events, e)) \in Seq(Event)
  <2>1. h.events \in Seq(Event)
    BY DEF Hub
  <2> HIDE DEF e
  <2>2. Append(h.events, e) \in Seq(Event)
    BY <1>1, <2>1
  <2> QED BY <2>2, WindowType
<1>3. [s \in Subscribers |-> Offer(h.subs[s], e)] \in [Subscribers -> Subscription]
  <2>1. \A s \in Subscribers : h.subs[s] \in Subscription
    BY DEF Hub
  <2> HIDE DEF e
  <2> QED BY <1>1, <2>1, OfferType
<1>4. Publish(h, r, st) = [eventID |-> h.eventID + 1,
                           events  |-> Window(Append(h.events, e)),
                           subs    |-> [s \in Subscribers |-> Offer(h.subs[s], e)]]
  BY DEF Publish
<1> HIDE DEF e
<1> QED BY <1>1, <1>2, <1>3, <1>4 DEF Hub

\* Every step leaves the hub alone or publishes one event, or two when a
\* pending run is replaced.
LEMMA NextHub == SafetyInv /\ hub \in Hub /\ [Next]_vars => (hub \in Hub)'
<1> SUFFICES ASSUME SafetyInv, hub \in Hub, [Next]_vars
             PROVE  hub' \in Hub
  OBVIOUS
<1>1. ASSUME NEW r \in Runs, Start(r)
      PROVE  hub' \in Hub
  <2> PICK j \in Jobs : \/ StartSkipped(r, j) \/ StartQueued(r, j)
                        \/ StartReplacing(r, j) \/ StartActive(r, j)
    BY <1>1 DEF Start
  <2>1. CASE StartReplacing(r, j)
    <3>1. pending[j] \in Runs
      BY <2>1 DEF StartReplacing, SafetyInv, ServiceOK
    <3>2. hub' = Publish(Publish(hub, pending[j], "skipped_overlap"), r, "queued")
      BY <2>1 DEF StartReplacing
    <3> QED BY <3>1, <3>2, PublishType
  <2>2. CASE StartSkipped(r, j) \/ StartQueued(r, j) \/ StartActive(r, j)
    BY <2>2, PublishType DEF StartSkipped, StartQueued, StartActive
  <2> QED BY <2>1, <2>2
<1>2. ASSUME NEW r \in Runs, Execute(r)
      PROVE  hub' \in Hub
  BY <1>2, PublishType DEF Execute, ExecCompile, ExecInstall, ExecArm, ExecStart,
     ExecPublish, ExecStopCall, ExecFinish, ExecHook, noPcVars
<1>3. ASSUME NEW r \in Runs, Process(r)
      PROVE  hub' \in Hub
  BY <1>3, PublishType DEF Process, ProcLog, ProcExit, ConsumeLog
<1>4. ASSUME NEW r \in Runs, Stop(r)
      PROVE  hub' \in Hub
  BY <1>4, PublishType DEF Stop, StopStarting, StopQueued, StopRunning
<1>5. ASSUME NEW r \in Runs, Persist(r)
      PROVE  hub' \in Hub
  BY <1>5, PublishType DEF Persist, PersistAppend, PersistFail, PersistError
<1>6. CASE Prune \/ UNCHANGED vars
  BY <1>6 DEF Prune, vars
<1> QED BY <1>1, <1>2, <1>3, <1>4, <1>5, <1>6 DEF Next

\* The service and its event stream stay well-formed.
THEOREM ServiceTypeCorrect == Spec => []TypeOK
<1>1. Init => hub \in Hub
  BY DEF Init, EmptyHub, Hub, Subscription
<1>2. SafetyInv /\ hub \in Hub => TypeOK
  BY DEF SafetyInv, TypeOK
<1> QED BY <1>1, <1>2, NextHub, ReachableSafety, PTL DEF Spec
=============================================================================
