--------------------- MODULE PersistentSchedulerProofs ---------------------
(***************************************************************************)
(* Proofs about PersistentScheduler and WrapperStore for any jobs,         *)
(* installers, staging names and bounds.                                   *)
(***************************************************************************)
EXTENDS PersistentScheduler, TLAPS

\* Installer i has a staging file.
Owns(i) == inst[i].pc \in {"created", "written", "secured"}

\* A staging file belongs to one installer and holds its text, and run.sh is only
\* ever replaced by a whole file.
WrapperInv ==
  /\ WrapperTypeOK
  /\ \A i \in Installers : Owns(i) => inst[i].temp \in Temps /\ Staged(i) \in File
  /\ \A i \in Installers : \A k \in Installers \ {i} :
       Owns(i) /\ Owns(k) /\ inst[i].job = inst[k].job => inst[i].temp # inst[k].temp
  /\ \A i \in Installers :
       /\ inst[i].pc \notin {"idle", "failed"} => inst[i].text \in Text
       /\ inst[i].pc \in {"written", "secured"} => Staged(i).text = inst[i].text
       /\ inst[i].pc \in {"renamed", "done"} => target[inst[i].job] # NoFile
  /\ \A j \in Jobs : target[j] # NoFile => Whole(target[j])

\* A job that is to be triggered has been saved.
ListInv ==
  /\ \A l \in waiting : \A j \in Jobs : l[j].kind # "none" => l[j].rev # 0
  /\ \A j \in Jobs : /\ repo[j].kind # "none" => repo[j].rev # 0
                     /\ rec.list[j].kind # "none" => rec.list[j].rev # 0

Busy == rec.pc \notin {"idle", "jobs", "orphans"}
Cleaning == rec.pc = "orphans" \/ rec.removing

\* Where a Reconcile is, and which jobs it has dealt with: without an error, a job
\* that is neither desired nor still to do has no trigger in the list.
ControlInv ==
  /\ rec.todo \cap rec.desired = {}
  /\ Busy => rec.job \notin rec.todo \cup rec.desired
  /\ rec.removing => rec.pc \in {"orphans", "disable", "rmPath", "rmService", "reload"}
  /\ rec.pc = "install" =>
       rec.list[rec.job].kind \in {"cron", "watch"} /\ inst[Reconciler].job = rec.job
  /\ rec.pc \in {"disable", "rmPath", "rmService", "reload", "writeCron"} =>
       rec.removing \/ rec.list[rec.job].kind = "cron"
  /\ rec.pc \in {"rmCron", "writeService", "writePath", "reloadNew", "enable"} =>
       rec.list[rec.job].kind = "watch"
  /\ ~rec.failed => rec.preserve = {}
  /\ \A j \in rec.desired : rec.list[j].kind \in {"cron", "watch"}
  /\ rec.pc # "idle" /\ ~rec.failed => \A j \in Jobs \ rec.desired :
       \/ rec.list[j].kind = "none"
       \/ j \in rec.todo /\ ~Cleaning
       \/ j = rec.job /\ Busy /\ ~rec.removing

\* How far the job at hand is.
StageInv ==
  /\ rec.pc \in {"rmPath", "rmService", "reload", "writeCron"} =>
       rec.job \in ignored \/ rec.job \notin on
  /\ rec.pc \in {"rmService", "reload", "writeCron"} => pathFile[rec.job] = 0
  /\ rec.pc \in {"reload", "writeCron"} => serviceFile[rec.job] = 0
  /\ rec.pc \in {"writeService", "writePath", "reloadNew", "enable"} =>
       rec.job \in ignored \/ cronFile[rec.job] = 0
  /\ rec.pc \in {"writePath", "reloadNew", "enable"} =>
       serviceFile[rec.job] = rec.list[rec.job].rev
  /\ rec.pc \in {"reloadNew", "enable"} => pathFile[rec.job] = rec.list[rec.job].rev
  /\ rec.pc = "enable" => loaded[rec.job] = rec.list[rec.job].rev

\* Unless an error was discarded, a started path unit has its file, and there is no
\* cron file beside it.
HostInv ==
  \A j \in Jobs \ ignored : j \in on => pathFile[j] # 0 /\ cronFile[j] = 0

\* A job that was applied has its trigger and no other.
ExactInv ==
  \A j \in rec.desired \ ignored :
    /\ rec.list[j].kind = "cron" =>
         /\ cronFile[j] = rec.list[j].rev /\ pathFile[j] = 0 /\ serviceFile[j] = 0
         /\ j \notin on
    /\ rec.list[j].kind = "watch" =>
         /\ cronFile[j] = 0 /\ pathFile[j] = rec.list[j].rev
         /\ serviceFile[j] = rec.list[j].rev /\ loaded[j] = rec.list[j].rev /\ j \in on

\* An orphan is still to do, being removed, or gone.
OrphanInv ==
  Cleaning /\ ~rec.failed =>
    \A j \in Jobs \ (rec.desired \cup rec.todo \cup ignored) :
      /\ cronFile[j] = 0
      /\ (j = rec.job /\ Busy) \/ (pathFile[j] = 0 /\ serviceFile[j] = 0)

\* What the host is told to invoke is there.
TargetInv ==
  /\ \A j \in Jobs : cronFile[j] # 0 \/ pathFile[j] # 0 \/ loaded[j] # 0 =>
       target[j] # NoFile
  /\ Busy /\ ~rec.removing /\ rec.pc # "install" => target[rec.job] # NoFile

PersistentInv ==
  /\ TypeOK /\ WrapperInv /\ ListInv /\ ControlInv /\ StageInv /\ HostInv
  /\ ExactInv /\ OrphanInv /\ TargetInv
-----------------------------------------------------------------------------
(***************************************************************************)
(* Install.                                                                *)
(***************************************************************************)
\* run.sh is never taken away.
TargetsStay == \A j \in Jobs : target[j] # NoFile => target'[j] # NoFile

\* One installer goes on to c, and nobody else's staging file is touched.
LEMMA OneInstaller ==
  ASSUME WrapperInv, NEW i \in Installers, NEW c \in Call, inst' = [inst EXCEPT ![i] = c],
         staging' \in [Jobs -> [Temps -> File \cup {NoFile}]],
         target' \in [Jobs -> File \cup {NoFile}],
         \A k \in Installers \ {i} : Owns(k) =>
           staging'[inst[k].job][inst[k].temp] = staging[inst[k].job][inst[k].temp],
         c.pc \in {"created", "written", "secured"} =>
           /\ c.temp \in Temps /\ staging'[c.job][c.temp] \in File
           /\ \A k \in Installers \ {i} :
                Owns(k) /\ inst[k].job = c.job => inst[k].temp # c.temp,
         c.pc \notin {"idle", "failed"} => c.text \in Text,
         c.pc \in {"written", "secured"} => staging'[c.job][c.temp].text = c.text,
         c.pc \in {"renamed", "done"} => target'[c.job] # NoFile,
         \A j \in Jobs : \/ target'[j] = target[j]
                         \/ target'[j] # NoFile /\ Whole(target'[j])
  PROVE  WrapperInv' /\ TargetsStay
<1>1. /\ inst \in [Installers -> Call] /\ inst' \in [Installers -> Call] /\ inst'[i] = c
      /\ \A k \in Installers \ {i} : inst'[k] = inst[k]
  BY DEF WrapperInv, WrapperTypeOK
<1>2. TargetsStay
  BY DEF TargetsStay
<1>3. WrapperTypeOK'
  BY <1>1 DEF WrapperTypeOK
<1>4. ASSUME NEW k \in Installers
      PROVE  /\ Owns(k)' => inst'[k].temp \in Temps /\ Staged(k)' \in File
             /\ inst'[k].pc \notin {"idle", "failed"} => inst'[k].text \in Text
             /\ inst'[k].pc \in {"written", "secured"} => Staged(k)'.text = inst'[k].text
             /\ inst'[k].pc \in {"renamed", "done"} => target'[inst'[k].job] # NoFile
  <2>1. CASE k = i
    BY <1>1, <2>1 DEF Owns, Staged
  <2>2. CASE k # i
    <3>1. inst'[k] = inst[k] /\ inst[k].job \in Jobs
      BY <1>1, <2>2 DEF Call
    <3>2. Owns(k) => Staged(k)' = Staged(k)
      BY <2>2, <3>1 DEF Owns, Staged
    <3> QED BY <1>2, <3>1, <3>2 DEF WrapperInv, Owns, TargetsStay
  <2> QED BY <2>1, <2>2
<1>5. \A k \in Installers : \A m \in Installers \ {k} :
        Owns(k)' /\ Owns(m)' /\ inst'[k].job = inst'[m].job => inst'[k].temp # inst'[m].temp
  BY <1>1 DEF WrapperInv, Owns
<1>6. \A j \in Jobs : target'[j] # NoFile => Whole(target'[j])
  BY DEF WrapperInv, Whole
<1> QED BY <1>2, <1>3, <1>4, <1>5, <1>6 DEF WrapperInv, Whole

LEMMA InstallKeeps ==
  ASSUME WrapperInv, NEW i \in Installers, NEW j \in Jobs, NEW n \in Text, Install(i, j, n)
  PROVE  WrapperInv' /\ TargetsStay
<1>1. PICK c : c = [pc |-> "begin", job |-> j, text |-> n, temp |-> NoFile]
  OBVIOUS
<1>2. c \in Call /\ c.pc = "begin" /\ c.text \in Text
  BY <1>1 DEF Call
<1>3. inst' = [inst EXCEPT ![i] = c] /\ UNCHANGED <<staging, target>>
  BY <1>1 DEF Install
<1> QED BY <1>2, <1>3, OneInstaller DEF WrapperInv, WrapperTypeOK

\* Reset of one installer: the call has returned.
LEMMA ReturnKeeps ==
  ASSUME WrapperInv, NEW i \in Installers, inst' = [inst EXCEPT ![i] = IdleCall(@.job)],
         UNCHANGED <<staging, target>>
  PROVE  WrapperInv' /\ TargetsStay
<1>1. PICK c : c = IdleCall(inst[i].job)
  OBVIOUS
<1>2. c \in Call /\ c.pc = "idle"
  BY <1>1 DEF IdleCall, Call, WrapperInv, WrapperTypeOK
<1>3. inst' = [inst EXCEPT ![i] = c]
  BY <1>1 DEF WrapperInv, WrapperTypeOK
<1> QED BY <1>2, <1>3, OneInstaller DEF WrapperInv, WrapperTypeOK

LEMMA InstallStepKeeps ==
  ASSUME WrapperInv, NEW i \in Installers, InstallStep(i)
  PROVE  WrapperInv' /\ TargetsStay /\ \A k \in Installers : inst'[k].job = inst[k].job
<1>1. /\ inst \in [Installers -> Call] /\ inst[i] \in Call /\ inst[i].job \in Jobs
      /\ staging \in [Jobs -> [Temps -> File \cup {NoFile}]]
      /\ target \in [Jobs -> File \cup {NoFile}] /\ NoFile \notin File
      /\ \A k \in Installers : Owns(k) =>
           /\ inst[k].job \in Jobs /\ inst[k].temp \in Temps
           /\ staging[inst[k].job][inst[k].temp] \in File
      /\ \A k \in Installers \ {i} :
           Owns(i) /\ Owns(k) /\ inst[k].job = inst[i].job => inst[k].temp # inst[i].temp
  BY PersistentAssumption DEF WrapperInv, WrapperTypeOK, Call, Staged
<1>2. PICK j \in Jobs, t \in Temps \cup {NoFile} : j = inst[i].job /\ t = inst[i].temp
  BY <1>1 DEF Call
\* Installer i goes to pc and puts f into its staging file.
<1>3. ASSUME NEW pc \in {"written", "secured", "renamed", "failed"}, NEW f \in File \cup {NoFile},
             Owns(i), Step(i, pc), staging' = [staging EXCEPT ![j][t] = f],
             target' \in [Jobs -> File \cup {NoFile}],
             \A k \in Jobs : \/ target'[k] = target[k]
                             \/ target'[k] # NoFile /\ Whole(target'[k]),
             pc \in {"written", "secured"} => f \in File /\ f.text = inst[i].text,
             pc = "renamed" => target'[j] # NoFile
      PROVE  WrapperInv' /\ TargetsStay /\ \A k \in Installers : inst'[k].job = inst[k].job
  <2>1. t \in Temps /\ inst[i].text \in Text
    BY <1>1, <1>2, <1>3 DEF Owns, WrapperInv
  <2>2. /\ staging' \in [Jobs -> [Temps -> File \cup {NoFile}]]
        /\ staging'[j][t] = f
        /\ \A k \in Jobs, u \in Temps : k # j \/ u # t => staging'[k][u] = staging[k][u]
    BY <1>1, <1>3, <2>1
  <2>3. PICK c : c = [inst[i] EXCEPT !.pc = pc]
    OBVIOUS
  <2>4. /\ c \in Call /\ c.pc = pc /\ c.job = j /\ c.temp = t /\ c.text = inst[i].text
        /\ inst' = [inst EXCEPT ![i] = c]
    BY <1>1, <1>2, <1>3, <2>3 DEF Call, Step
  <2>5. \A k \in Installers \ {i} : Owns(k) =>
          /\ inst[k].job # j \/ inst[k].temp # t
          /\ staging'[inst[k].job][inst[k].temp] = staging[inst[k].job][inst[k].temp]
    BY <1>1, <1>2, <1>3, <2>2
  <2>6. WrapperInv' /\ TargetsStay
    <3>1. c.pc \in {"created", "written", "secured"} =>
            /\ c.temp \in Temps /\ staging'[c.job][c.temp] \in File
            /\ \A k \in Installers \ {i} :
                 Owns(k) /\ inst[k].job = c.job => inst[k].temp # c.temp
      BY <1>3, <2>1, <2>2, <2>4, <2>5
    <3>2. /\ c.pc \notin {"idle", "failed"} => c.text \in Text
          /\ c.pc \in {"written", "secured"} => staging'[c.job][c.temp].text = c.text
          /\ c.pc \in {"renamed", "done"} => target'[c.job] # NoFile
      BY <1>3, <2>1, <2>2, <2>4
    <3> QED BY <1>3, <2>2, <2>4, <2>5, <3>1, <3>2, OneInstaller
  <2>7. \A k \in Installers : inst'[k].job = inst[k].job
    BY <1>1, <1>2, <2>4
  <2> QED BY <2>6, <2>7
\* Installer i goes to pc, and no file changes.
<1>4. ASSUME NEW pc \in {"done", "failed"}, Step(i, pc), UNCHANGED <<staging, target>>,
             pc = "done" => inst[i].pc = "renamed"
      PROVE  WrapperInv' /\ TargetsStay /\ \A k \in Installers : inst'[k].job = inst[k].job
  <2>1. PICK c : c = [inst[i] EXCEPT !.pc = pc]
    OBVIOUS
  <2>2. /\ c \in Call /\ c.pc = pc /\ c.job = j /\ c.text = inst[i].text
        /\ inst' = [inst EXCEPT ![i] = c]
    BY <1>1, <1>2, <1>4, <2>1 DEF Call, Step
  <2>3. pc = "done" => c.text \in Text /\ target[c.job] # NoFile
    BY <1>2, <1>4, <2>2 DEF WrapperInv
  <2>4. WrapperInv' /\ TargetsStay
    BY <1>1, <1>4, <2>2, <2>3, OneInstaller
  <2>5. \A k \in Installers : inst'[k].job = inst[k].job
    BY <1>1, <1>2, <2>2
  <2> QED BY <2>4, <2>5
<1>5. CASE Mktemp(i)
  <2>1. PICK u \in Temps :
          /\ staging[inst[i].job][u] = NoFile
          /\ inst' = [inst EXCEPT ![i].pc = "created", ![i].temp = u]
          /\ staging' = [staging EXCEPT ![inst[i].job][u] = [text |-> Partial, secure |-> FALSE]]
    BY <1>5 DEF Mktemp
  <2>2. PICK f : f = [text |-> Partial, secure |-> FALSE]
    OBVIOUS
  <2>3. f \in File
    BY <2>2 DEF File
  <2>4. /\ staging' \in [Jobs -> [Temps -> File \cup {NoFile}]]
        /\ staging'[j][u] = f
        /\ \A k \in Jobs, v \in Temps : k # j \/ v # u => staging'[k][v] = staging[k][v]
    <3>1. staging' = [staging EXCEPT ![j][u] = f]
      BY <1>2, <2>1, <2>2
    <3> QED BY <1>1, <2>3, <3>1
  <2>5. PICK c : c = [inst[i] EXCEPT !.pc = "created", !.temp = u]
    OBVIOUS
  <2>6. /\ c \in Call /\ c.pc = "created" /\ c.job = j /\ c.temp = u /\ c.text = inst[i].text
        /\ inst' = [inst EXCEPT ![i] = c]
    BY <1>1, <1>2, <2>1, <2>5 DEF Call
  <2>7. c.text \in Text
    BY <1>5, <2>6 DEF Mktemp, At, WrapperInv
  <2>8. \A k \in Installers \ {i} : Owns(k) => inst[k].job # j \/ inst[k].temp # u
    BY <1>1, <1>2, <2>1
  <2>9. target' = target
    BY <1>5 DEF Mktemp
  <2>10. WrapperInv' /\ TargetsStay
    <3>1. \A k \in Installers \ {i} : Owns(k) =>
            staging'[inst[k].job][inst[k].temp] = staging[inst[k].job][inst[k].temp]
      BY <1>1, <2>4, <2>8
    <3>2. /\ c.temp \in Temps /\ staging'[c.job][c.temp] \in File
          /\ \A k \in Installers \ {i} :
               Owns(k) /\ inst[k].job = c.job => inst[k].temp # c.temp
      BY <2>3, <2>4, <2>6, <2>8
    <3> QED BY <1>1, <2>4, <2>6, <2>7, <2>9, <3>1, <3>2, OneInstaller
  <2>11. \A k \in Installers : inst'[k].job = inst[k].job
    BY <1>1, <1>2, <2>6
  <2> QED BY <2>10, <2>11
<1>6. CASE Tee(i)
  <2>1. Owns(i) /\ Step(i, "written") /\ target' = target
    BY <1>6 DEF Tee, Owns, At
  <2>2. PICK f : f = [staging[j][t] EXCEPT !.text = inst[i].text]
    OBVIOUS
  <2>3. f \in File /\ f.text = inst[i].text
    <3>1. staging[j][t] \in File /\ inst[i].text \in Text \cup {Partial}
      BY <1>1, <1>2, <2>1 DEF Call
    <3> QED BY <2>2, <3>1 DEF File
  <2>4. staging' = [staging EXCEPT ![j][t] = f]
    BY <1>2, <1>6, <2>2 DEF Tee, Put, Staged
  <2> QED BY <1>1, <1>3, <2>1, <2>3, <2>4
<1>7. CASE Secure(i)
  <2>1. Owns(i) /\ Step(i, "secured") /\ target' = target
    BY <1>7 DEF Secure, Owns, At
  <2>2. PICK f : f = [staging[j][t] EXCEPT !.secure = TRUE]
    OBVIOUS
  <2>3. f \in File /\ f.text = inst[i].text
    <3>1. staging[j][t] \in File /\ staging[j][t].text = inst[i].text
      BY <1>1, <1>2, <1>7, <2>1 DEF Secure, At, WrapperInv, Staged
    <3>2. PICK b \in BOOLEAN : b = TRUE
      OBVIOUS
    <3>3. f = [staging[j][t] EXCEPT !.secure = b]
      BY <2>2, <3>2
    <3> QED BY <3>1, <3>3 DEF File
  <2>4. staging' = [staging EXCEPT ![j][t] = f]
    BY <1>2, <1>7, <2>2 DEF Secure, Put, Staged
  <2> QED BY <1>1, <1>3, <2>1, <2>3, <2>4
<1>8. CASE Mv(i)
  <2>1. /\ Owns(i) /\ Step(i, "renamed") /\ staging' = [staging EXCEPT ![j][t] = NoFile]
        /\ inst[i].pc = "secured"
    BY <1>2, <1>8 DEF Mv, Owns, At, Put
  <2>2. PICK f : f = staging[j][t]
    OBVIOUS
  <2>3. f \in File /\ f # NoFile /\ f.secure /\ f.text = inst[i].text /\ inst[i].text \in Text
    BY <1>1, <1>2, <1>8, <2>1, <2>2 DEF Mv, Checked, Present, WrapperInv, Staged
  <2>4. Whole(f)
    BY <2>3, PersistentAssumption DEF Whole, Text, Partial
  <2>5. target' = [target EXCEPT ![j] = f]
    BY <1>2, <1>8, <2>2 DEF Mv, Staged
  <2>6. /\ target' \in [Jobs -> File \cup {NoFile}] /\ target'[j] = f
        /\ \A k \in Jobs \ {j} : target'[k] = target[k]
    BY <1>1, <2>3, <2>5
  <2>7. \A k \in Jobs : target'[k] = target[k] \/ (target'[k] # NoFile /\ Whole(target'[k]))
    BY <2>3, <2>4, <2>6
  <2> QED BY <1>3, <2>1, <2>3, <2>6, <2>7
<1>9. CASE Confirm(i)
  BY <1>4, <1>9 DEF Confirm, At
<1>10. CASE InstallFails(i)
  <2>1. CASE UNCHANGED staging
    BY <1>4, <1>10, <2>1 DEF InstallFails
  <2>2. CASE Owns(i) /\ Put(i, NoFile)
    <3>1. /\ Owns(i) /\ Step(i, "failed") /\ target' = target
          /\ staging' = [staging EXCEPT ![j][t] = NoFile]
      BY <1>2, <1>10, <2>2 DEF InstallFails, Put
    <3> QED BY <1>1, <1>3, <3>1
  <2> QED BY <1>10, <2>1, <2>2 DEF InstallFails, Owns
<1> QED BY <1>5, <1>6, <1>7, <1>8, <1>9, <1>10 DEF InstallStep
-----------------------------------------------------------------------------
LEMMA IdleRecFacts ==
  /\ IdleRec \in Rec /\ IdleRec.pc = "idle" /\ IdleRec.todo = {} /\ IdleRec.desired = {}
  /\ IdleRec.preserve = {} /\ ~IdleRec.removing /\ ~IdleRec.failed
  /\ \A j \in Jobs : IdleRec.list[j].kind = "none" /\ IdleRec.list[j].rev = 0
<1>1. PICK d \in Jobs : d = CHOOSE j \in Jobs : TRUE
  BY PersistentAssumption
<1>2. PICK l : l = [j \in Jobs |-> [rev |-> 0, kind |-> "none"]]
  OBVIOUS
<1>3. l \in List /\ \A j \in Jobs : l[j].kind = "none" /\ l[j].rev = 0
  BY <1>2, PersistentAssumption DEF List, Kinds
<1>4. IdleRec = [pc |-> "idle", list |-> l, todo |-> {}, job |-> d, existed |-> FALSE,
                 removing |-> FALSE, desired |-> {}, preserve |-> {}, failed |-> FALSE]
  BY <1>1, <1>2 DEF IdleRec
<1>5. ~IdleRec.removing /\ ~IdleRec.failed
  BY <1>4
<1>6. IdleRec \in Rec
  <2> HIDE DEF List
  <2> QED BY <1>3, <1>4 DEF Rec
<1> QED BY <1>3, <1>4, <1>5, <1>6

LEMMA InitPersistent == Init => PersistentInv
<1> SUFFICES ASSUME Init
             PROVE  PersistentInv
  OBVIOUS
<1>1. PICK d \in Jobs : d = CHOOSE j \in Jobs : TRUE
  BY PersistentAssumption
<1>2. IdleCall(d) \in Call /\ IdleCall(d).pc = "idle"
  BY <1>1 DEF IdleCall, Call, Partial
<1>3. \A i \in Installers : inst[i] = IdleCall(d)
  BY <1>1 DEF Init, WrapperInit
<1>4. WrapperTypeOK
  BY <1>1, <1>2 DEF Init, WrapperInit, WrapperTypeOK
<1>5. WrapperInv
  <2>1. \A i \in Installers : inst[i].pc = "idle"
    BY <1>2, <1>3
  <2>2. \A j \in Jobs : target[j] = NoFile
    BY DEF Init, WrapperInit
  <2> QED BY <1>4, <2>1, <2>2 DEF WrapperInv, Owns
<1>6. IdleRec.list \in List
  BY IdleRecFacts DEF Rec
<1>7. /\ rec = IdleRec /\ waiting = {} /\ repo = IdleRec.list /\ on = {} /\ ignored = {}
      /\ \A j \in Jobs : cronFile[j] = 0 /\ pathFile[j] = 0 /\ loaded[j] = 0
  BY DEF Init
<1>8. TypeOK
  <2>1. cronFile \in [Jobs -> 0..MaxRevision]
    BY PersistentAssumption DEF Init
  <2> QED BY <1>4, <1>6, <1>7, <2>1, IdleRecFacts DEF TypeOK, Init
<1>9. ListInv
  BY <1>7, IdleRecFacts DEF ListInv
<1>10. ControlInv /\ StageInv /\ HostInv /\ ExactInv /\ OrphanInv /\ TargetInv
  BY <1>7, IdleRecFacts DEF ControlInv, StageInv, HostInv, ExactInv, OrphanInv, TargetInv,
     Busy, Cleaning
<1> QED BY <1>5, <1>8, <1>9, <1>10 DEF PersistentInv
-----------------------------------------------------------------------------
(***************************************************************************)
(* Steps that leave Reconcile and the host alone.                          *)
(***************************************************************************)
LEMMA AloneStep ==
  ASSUME PersistentInv, WrapperInv', TargetsStay, repo' \in List, waiting' \subseteq List,
         ListInv', inst'[Reconciler].job = inst[Reconciler].job,
         UNCHANGED <<rec, hostVars, ignored>>
  PROVE  PersistentInv'
<1>1. /\ UNCHANGED <<rec, cronFile, serviceFile, pathFile, loaded, on, ignored>>
      /\ TypeOK /\ ControlInv /\ StageInv /\ HostInv /\ ExactInv /\ OrphanInv /\ TargetInv
  BY DEF hostVars, unitVars, PersistentInv
<1>2. TypeOK'
  BY <1>1 DEF TypeOK, WrapperInv
<1>3. ControlInv' /\ StageInv' /\ HostInv' /\ ExactInv' /\ OrphanInv'
  BY <1>1 DEF ControlInv, StageInv, HostInv, ExactInv, OrphanInv, Busy, Cleaning
<1>4. TargetInv'
  <2>1. rec.job \in Jobs
    BY <1>1 DEF TypeOK, Rec
  <2> QED BY <1>1, <2>1 DEF TargetInv, TargetsStay, Busy
<1> QED BY <1>2, <1>3, <1>4 DEF PersistentInv

LEMMA SameWrapper ==
  ASSUME WrapperInv, UNCHANGED wrapperVars PROVE WrapperInv' /\ TargetsStay
<1>1. UNCHANGED <<staging, target, inst>>
  BY DEF wrapperVars
<1> QED BY <1>1 DEF WrapperInv, WrapperTypeOK, Owns, Staged, Whole, TargetsStay

LEMMA RequestStep ==
  ASSUME PersistentInv, ListJobs \/ \E j \in Jobs, k \in Kinds : Mutate(j, k)
  PROVE  PersistentInv'
<1>1. WrapperInv' /\ TargetsStay /\ UNCHANGED <<rec, hostVars, ignored>> /\ inst' = inst
  BY SameWrapper DEF PersistentInv, ListJobs, Mutate, wrapperVars
<1>2. TypeOK /\ ListInv
  BY DEF PersistentInv
<1>3. CASE ListJobs
  <2>1. waiting' = waiting \cup {repo} /\ repo' = repo
    BY <1>3 DEF ListJobs
  <2>2. waiting' \subseteq List /\ ListInv'
    BY <1>1, <1>2, <2>1 DEF TypeOK, ListInv
  <2> QED BY <1>1, <1>2, <2>1, <2>2, AloneStep DEF TypeOK
<1>4. ASSUME NEW j \in Jobs, NEW k \in Kinds, Mutate(j, k)
      PROVE  PersistentInv'
  <2>1. PICK n : n = repo[j].rev + 1
    OBVIOUS
  <2>2. PICK x : x = [rev |-> n, kind |-> k]
    OBVIOUS
  <2>3. repo' = [repo EXCEPT ![j] = x] /\ waiting' = waiting
    BY <1>2, <1>4, <2>1, <2>2 DEF Mutate, TypeOK, List
  <2>4. n \in 0..MaxRevision /\ n # 0
    BY <1>2, <1>4, <2>1, PersistentAssumption DEF Mutate, TypeOK, List
  <2>5. repo' \in List /\ x.rev # 0
    BY <1>2, <2>2, <2>3, <2>4 DEF TypeOK, List
  <2>6. ListInv'
    BY <1>1, <1>2, <2>3, <2>5 DEF TypeOK, List, ListInv
  <2> QED BY <1>1, <1>2, <2>3, <2>5, <2>6, AloneStep DEF TypeOK
<1> QED BY <1>3, <1>4

LEMMA InstallerStep ==
  ASSUME PersistentInv, NEW i \in Installers,
         Installing(i) \/ RunInstalled(i) \/ \E j \in Jobs : RunInstalls(i, j)
  PROVE  PersistentInv'
<1>1. WrapperInv /\ TypeOK /\ ListInv /\ Reconciler \in Installers
  BY PersistentAssumption DEF PersistentInv
<1>2. UNCHANGED <<repo, waiting, rec, hostVars, ignored>>
  BY DEF Installing, RunInstalled, RunInstalls
<1>3. WrapperInv' /\ TargetsStay /\ inst'[Reconciler].job = inst[Reconciler].job
  <2>1. CASE Installing(i)
    BY <1>1, <2>1, InstallStepKeeps DEF Installing
  <2>2. CASE RunInstalled(i)
    <3>1. WrapperInv' /\ TargetsStay
      BY <1>1, <2>2, ReturnKeeps DEF RunInstalled
    <3> QED BY <1>1, <2>2, <3>1 DEF RunInstalled, TypeOK, WrapperTypeOK
  <2>3. ASSUME NEW j \in Jobs, RunInstalls(i, j)
        PROVE  WrapperInv' /\ TargetsStay /\ inst'[Reconciler].job = inst[Reconciler].job
    <3>1. PICK n \in 1..repo[j].rev : Install(i, j, n)
      BY <2>3 DEF RunInstalls
    <3>2. n \in Text
      BY <1>1, <3>1, PersistentAssumption DEF TypeOK, List, Text
    <3>3. WrapperInv' /\ TargetsStay
      BY <1>1, <3>1, <3>2, InstallKeeps
    <3> QED BY <1>1, <2>3, <3>1, <3>3 DEF RunInstalls, Install, TypeOK, WrapperTypeOK
  <2> QED BY <2>1, <2>2, <2>3
<1>4. ListInv' /\ repo' \in List /\ waiting' \subseteq List
  BY <1>1, <1>2 DEF ListInv, TypeOK
<1> QED BY <1>2, <1>3, <1>4, AloneStep
-----------------------------------------------------------------------------
(***************************************************************************)
(* Reconcile.                                                              *)
(***************************************************************************)
Files == [Jobs -> 0..MaxRevision]

LEMMA HostStep ==
  ASSUME PersistentInv, WrapperInv', UNCHANGED <<repo, waiting>>,
         NEW r \in Rec, rec' = r, r.list = rec.list,
         cronFile' \in Files, serviceFile' \in Files, pathFile' \in Files, loaded' \in Files,
         on' \subseteq Jobs, ignored' \subseteq Jobs,
         ControlInv', StageInv', HostInv', ExactInv', OrphanInv', TargetInv'
  PROVE  PersistentInv'
<1>1. TypeOK'
  BY DEF PersistentInv, TypeOK, WrapperInv, Files
<1>2. ListInv'
  BY DEF PersistentInv, ListInv
<1> QED BY <1>1, <1>2 DEF PersistentInv

\* An end or a crash, and a beginning.
LEMMA OutsideStep ==
  ASSUME PersistentInv, WrapperInv', TargetsStay, repo' = repo, waiting' \subseteq List,
         \A l \in waiting' : \A j \in Jobs : l[j].kind # "none" => l[j].rev # 0,
         NEW r \in Rec, rec' = r, r.pc \in {"idle", "jobs"},
         \A j \in Jobs : r.list[j].kind # "none" => r.list[j].rev # 0,
         r.desired = {}, r.preserve = {}, ~r.removing, r.pc = "jobs" => r.todo = Jobs,
         UNCHANGED <<hostVars, ignored>>
  PROVE  PersistentInv'
<1>1. /\ UNCHANGED <<cronFile, serviceFile, pathFile, loaded, on, ignored>>
      /\ TypeOK /\ ListInv /\ HostInv /\ TargetInv
  BY DEF hostVars, unitVars, PersistentInv
<1>2. TypeOK' /\ ListInv'
  BY <1>1 DEF TypeOK, ListInv, WrapperInv
<1>3. ControlInv' /\ StageInv' /\ ExactInv' /\ OrphanInv'
  BY <1>1 DEF ControlInv, StageInv, ExactInv, OrphanInv, Busy, Cleaning
<1>4. HostInv' /\ TargetInv'
  BY <1>1 DEF HostInv, TargetInv, Busy, TargetsStay
<1> QED BY <1>2, <1>3, <1>4 DEF PersistentInv

LEMMA BeginStep == ASSUME PersistentInv, Begin PROVE PersistentInv'
<1>1. TypeOK /\ WrapperInv /\ ListInv
  BY DEF PersistentInv
<1>2. PICK l \in waiting :
        /\ rec' = [IdleRec EXCEPT !.pc = "jobs", !.list = l, !.todo = Jobs]
        /\ waiting' = waiting \ {l}
  BY DEF Begin
<1>3. PICK r : r = [IdleRec EXCEPT !.pc = "jobs", !.list = l, !.todo = Jobs]
  OBVIOUS
<1>4. /\ r \in Rec /\ r.pc = "jobs" /\ r.list = l /\ r.todo = Jobs /\ r.desired = {}
      /\ r.preserve = {} /\ r.removing = IdleRec.removing
  <2>1. l \in List
    BY <1>1 DEF TypeOK
  <2> HIDE DEF List
  <2> QED BY <1>3, <2>1, IdleRecFacts DEF Rec
<1>5. WrapperInv' /\ TargetsStay
  BY <1>1, SameWrapper DEF Begin
<1>6. /\ ~r.removing /\ waiting' \subseteq List /\ rec' = r
      /\ \A j \in Jobs : r.list[j].kind # "none" => r.list[j].rev # 0
      /\ \A m \in waiting' : \A j \in Jobs : m[j].kind # "none" => m[j].rev # 0
  BY <1>1, <1>2, <1>3, <1>4, IdleRecFacts DEF TypeOK, ListInv
<1> QED BY <1>4, <1>5, <1>6, OutsideStep DEF Begin

LEMMA ReturnStep == ASSUME PersistentInv, Return PROVE PersistentInv'
<1>1. TypeOK /\ WrapperInv /\ ListInv
  BY DEF PersistentInv
<1>2. /\ rec' = IdleRec /\ UNCHANGED <<repo, waiting, hostVars, ignored>>
      /\ WrapperInv' /\ TargetsStay
  BY <1>1, SameWrapper DEF Return, stepFrame, recFrame
<1>3. waiting' \subseteq List
      /\ \A m \in waiting' : \A j \in Jobs : m[j].kind # "none" => m[j].rev # 0
  BY <1>1, <1>2 DEF TypeOK, ListInv
<1> QED BY <1>2, <1>3, IdleRecFacts, OutsideStep

LEMMA CrashStep == ASSUME PersistentInv, Crash PROVE PersistentInv'
<1>1. TypeOK /\ WrapperInv /\ ListInv
  BY DEF PersistentInv
<1>2. /\ rec' = IdleRec /\ waiting' = {repo}
      /\ UNCHANGED <<staging, target, repo, hostVars, ignored>>
  BY DEF Crash
<1>3. PICK c : c = [i \in Installers |-> IdleCall(inst[i].job)]
  OBVIOUS
<1>4. \A i \in Installers : c[i] \in Call /\ c[i].pc = "idle"
  BY <1>1, <1>3 DEF TypeOK, WrapperTypeOK, Call, IdleCall
<1>5. inst' = c /\ inst' \in [Installers -> Call]
  BY <1>3, <1>4 DEF Crash
<1>6. WrapperInv' /\ TargetsStay
  BY <1>1, <1>2, <1>4, <1>5 DEF WrapperInv, WrapperTypeOK, Owns, Whole, TargetsStay
<1>7. waiting' \subseteq List
      /\ \A m \in waiting' : \A j \in Jobs : m[j].kind # "none" => m[j].rev # 0
  BY <1>1, <1>2 DEF TypeOK, ListInv
<1> QED BY <1>2, <1>6, <1>7, IdleRecFacts, OutsideStep

\* An error is recorded, and the Reconcile goes on with the next job.
LEMMA FailStep ==
  ASSUME PersistentInv, WrapperInv', TargetsStay, UNCHANGED <<repo, waiting>>,
         NEW r \in Rec, rec' = r, r.list = rec.list, r.desired = rec.desired,
         r.todo \subseteq rec.todo, r.removing = rec.removing, r.failed,
         r.pc = IF rec.removing THEN "orphans" ELSE "jobs",
         UNCHANGED <<cronFile, serviceFile, pathFile, loaded, ignored>>,
         on' = on \/ (rec.pc = "enable" /\ on' = on \cup {rec.job})
  PROVE  PersistentInv'
<1>1. /\ TypeOK /\ ListInv /\ ControlInv /\ StageInv /\ HostInv /\ ExactInv /\ TargetInv
      /\ rec.job \in Jobs /\ rec \in Rec
  BY DEF PersistentInv, TypeOK, Rec
<1>2. ControlInv' /\ StageInv' /\ OrphanInv'
  BY <1>1 DEF ControlInv, StageInv, OrphanInv, Busy, Cleaning
<1>3. HostInv'
  <2>1. rec.pc = "enable" => pathFile[rec.job] # 0 /\ (rec.job \in ignored \/ cronFile[rec.job] = 0)
    BY <1>1 DEF ControlInv, StageInv, ListInv
  <2> QED BY <1>1, <2>1 DEF HostInv
<1>4. ExactInv'
  <2>1. rec.pc = "enable" => rec.job \notin rec.desired
    BY <1>1 DEF ControlInv, Busy
  <2> QED BY <1>1, <2>1 DEF ExactInv
<1>5. TargetInv'
  BY <1>1 DEF TargetInv, Busy, TargetsStay
<1> QED BY <1>1, <1>2, <1>3, <1>4, <1>5, HostStep DEF TypeOK, Files

LEMMA SpareFacts ==
  ASSUME NEW r \in Rec, NEW j \in Jobs
  PROVE  /\ Spare(r, j) \in Rec /\ Spare(r, j).pc = "jobs" /\ Spare(r, j).list = r.list
         /\ Spare(r, j).desired = r.desired /\ Spare(r, j).todo = r.todo
         /\ Spare(r, j).removing = r.removing /\ Spare(r, j).failed
<1>1. PICK b \in BOOLEAN : b = TRUE
  OBVIOUS
<1>2. PICK p : p = r.preserve \cup {j}
  OBVIOUS
<1>3. Spare(r, j) = [r EXCEPT !.pc = "jobs", !.preserve = p, !.failed = b] /\ p \subseteq Jobs
  BY <1>1, <1>2 DEF Spare, Rec
<1>4. /\ Spare(r, j) \in Rec /\ Spare(r, j).pc = "jobs" /\ Spare(r, j).list = r.list
      /\ Spare(r, j).desired = r.desired /\ Spare(r, j).todo = r.todo
      /\ Spare(r, j).removing = r.removing /\ Spare(r, j).failed = b
  <2> HIDE DEF List
  <2> QED BY <1>3 DEF Rec
<1> QED BY <1>1, <1>4

\* A command of applyJob fails.
LEMMA SpareStep ==
  ASSUME PersistentInv, WrapperInv', TargetsStay, UNCHANGED <<repo, waiting>>,
         rec' = Spare(rec, rec.job), ~rec.removing,
         UNCHANGED <<cronFile, serviceFile, pathFile, loaded, ignored>>,
         on' = on \/ (rec.pc = "enable" /\ on' = on \cup {rec.job})
  PROVE  PersistentInv'
<1>1. rec \in Rec /\ rec.job \in Jobs
  BY DEF PersistentInv, TypeOK, Rec
<1>2. PICK r : r = Spare(rec, rec.job)
  OBVIOUS
<1>3. /\ r \in Rec /\ r.pc = "jobs" /\ r.list = rec.list /\ r.desired = rec.desired
      /\ r.todo = rec.todo /\ r.removing = rec.removing /\ r.failed
  BY <1>1, <1>2, SpareFacts
<1> QED BY <1>2, <1>3, FailStep

\* A command of removeSystemd fails.
LEMMA SystemdFailsStep ==
  ASSUME PersistentInv, SystemdFails, UNCHANGED <<stepFrame, hostVars, ignored>>
  PROVE  PersistentInv'
<1>1. /\ WrapperInv' /\ TargetsStay
      /\ UNCHANGED <<repo, waiting, cronFile, serviceFile, pathFile, loaded, on, ignored>>
      /\ rec \in Rec
  BY SameWrapper DEF PersistentInv, stepFrame, recFrame, hostVars, unitVars, TypeOK
<1>2. CASE ~rec.removing
  BY <1>1, <1>2, SpareStep DEF SystemdFails
<1>3. CASE rec.removing
  <2>1. PICK b \in BOOLEAN : b = TRUE
    OBVIOUS
  <2>2. PICK r : r = [rec EXCEPT !.pc = "orphans", !.failed = b]
    OBVIOUS
  <2>3. rec' = r
    BY <1>3, <2>1, <2>2 DEF SystemdFails
  <2>4. /\ r \in Rec /\ r.pc = "orphans" /\ r.list = rec.list /\ r.desired = rec.desired
        /\ r.todo = rec.todo /\ r.removing = rec.removing /\ r.failed = b
    <3> HIDE DEF List
    <3> QED BY <1>1, <2>2 DEF Rec
  <2>5. r.failed
    BY <2>1, <2>4
  <2> QED BY <1>1, <1>3, <2>3, <2>4, <2>5, FailStep
<1> QED BY <1>2, <1>3

\* A command succeeds, and applyJob or removeJob goes on with the same job.
LEMMA StageStep ==
  ASSUME PersistentInv, UNCHANGED stepFrame, Busy, rec.pc # "install",
         NEW r \in Rec, rec' = r, r.list = rec.list, r.job = rec.job, r.todo = rec.todo,
         r.desired = rec.desired, r.preserve = rec.preserve, r.failed = rec.failed,
         r.removing = rec.removing, r.pc \notin {"idle", "jobs", "orphans", "install"},
         r.pc \in {"disable", "rmPath", "rmService", "reload", "writeCron"} =>
           rec.pc \in {"disable", "rmPath", "rmService", "reload", "writeCron"},
         r.pc = "writeCron" => ~rec.removing,
         r.pc \in {"rmCron", "writeService", "writePath", "reloadNew", "enable"} =>
           rec.pc \in {"rmCron", "writeService", "writePath", "reloadNew", "enable"},
         cronFile' \in Files, serviceFile' \in Files, pathFile' \in Files,
         loaded' \in {loaded, pathFile}, on' \subseteq Jobs,
         ignored \subseteq ignored', ignored' \subseteq Jobs,
         \A j \in Jobs \ {rec.job} :
           /\ cronFile'[j] = cronFile[j] /\ serviceFile'[j] = serviceFile[j]
           /\ pathFile'[j] = pathFile[j] /\ (j \in on' <=> j \in on),
         rec.removing => /\ cronFile'[rec.job] = cronFile[rec.job]
                         /\ pathFile'[rec.job] \in {pathFile[rec.job], 0},
         rec.job \in ignored' \/ rec.job \notin on'
           \/ (pathFile'[rec.job] # 0 /\ cronFile'[rec.job] = 0),
         StageInv'
  PROVE  PersistentInv'
<1>1. /\ TypeOK /\ ListInv /\ ControlInv /\ StageInv /\ HostInv /\ ExactInv /\ OrphanInv
      /\ TargetInv /\ WrapperInv /\ rec.job \in Jobs /\ rec \in Rec
      /\ loaded \in Files /\ pathFile \in Files
  BY DEF PersistentInv, TypeOK, Rec, Files
<1>2. WrapperInv' /\ UNCHANGED <<repo, waiting, target, inst>>
  BY <1>1, SameWrapper DEF stepFrame, recFrame, wrapperVars
<1>3. ControlInv'
  <2>1. r.pc \in {"disable", "rmPath", "rmService", "reload", "writeCron", "rmCron",
                  "writeService", "writePath", "reloadNew", "enable"}
    BY DEF Rec
  <2> QED BY <1>1, <1>2, <2>1 DEF ControlInv, Busy, Cleaning
<1>4. HostInv'
  BY <1>1 DEF HostInv
<1>5. ExactInv'
  <2>1. rec.job \notin rec.desired
    BY <1>1 DEF ControlInv
  <2>2. \A j \in rec.desired \ ignored' : j \in Jobs \ {rec.job} /\ j \in rec.desired \ ignored
    BY <1>1, <2>1 DEF Rec
  <2> QED BY <1>1, <2>2 DEF ExactInv
<1>6. OrphanInv'
  BY <1>1 DEF OrphanInv, Busy, Cleaning
<1>7. TargetInv'
  BY <1>1, <1>2 DEF TargetInv, Busy
<1> QED BY <1>1, <1>2, <1>3, <1>4, <1>5, <1>6, <1>7, HostStep

LEMMA GoToFacts ==
  ASSUME rec \in Rec,
         NEW pc \in {"rmService", "reload", "writeCron", "writeService", "writePath",
                     "reloadNew", "enable", "orphans"}, GoTo(pc)
  PROVE  /\ rec' \in Rec /\ rec'.pc = pc /\ rec'.list = rec.list /\ rec'.job = rec.job
         /\ rec'.todo = rec.todo /\ rec'.desired = rec.desired
         /\ rec'.preserve = rec.preserve /\ rec'.failed = rec.failed
         /\ rec'.removing = rec.removing
<1> HIDE DEF List
<1> QED BY DEF GoTo, Rec

\* The trigger is in place.
LEMMA AppliedStep ==
  ASSUME PersistentInv, UNCHANGED <<stepFrame, serviceFile, pathFile, loaded, ignored>>,
         rec' = Applied, Busy, ~rec.removing,
         rec.list[rec.job].kind \in {"cron", "watch"},
         target[rec.job] # NoFile, cronFile' \in Files, on' \subseteq Jobs,
         \A j \in Jobs \ {rec.job} : cronFile'[j] = cronFile[j] /\ (j \in on' <=> j \in on),
         rec.job \in ignored \/
           /\ rec.list[rec.job].kind = "cron" =>
                /\ cronFile'[rec.job] = rec.list[rec.job].rev
                /\ pathFile[rec.job] = 0 /\ serviceFile[rec.job] = 0 /\ rec.job \notin on'
           /\ rec.list[rec.job].kind = "watch" =>
                /\ cronFile'[rec.job] = 0 /\ pathFile[rec.job] = rec.list[rec.job].rev
                /\ serviceFile[rec.job] = rec.list[rec.job].rev
                /\ loaded[rec.job] = rec.list[rec.job].rev /\ rec.job \in on'
  PROVE  PersistentInv'
<1>1. /\ TypeOK /\ ListInv /\ ControlInv /\ HostInv /\ ExactInv
      /\ TargetInv /\ WrapperInv /\ rec.job \in Jobs /\ rec \in Rec
      /\ loaded \in Files /\ pathFile \in Files /\ serviceFile \in Files
  BY DEF PersistentInv, TypeOK, Rec, Files
<1>2. WrapperInv' /\ UNCHANGED <<repo, waiting, target, inst>>
  BY <1>1, SameWrapper DEF stepFrame, recFrame, wrapperVars
<1>3. PICK r : r = Applied
  OBVIOUS
<1>4. /\ r \in Rec /\ r.pc = "jobs" /\ r.list = rec.list /\ r.todo = rec.todo
      /\ r.desired = rec.desired \cup {rec.job} /\ r.preserve = rec.preserve
      /\ r.failed = rec.failed /\ r.removing = rec.removing
  <2> HIDE DEF List
  <2> QED BY <1>1, <1>3 DEF Applied, Rec
<1>5. ControlInv'
  BY <1>1, <1>3, <1>4 DEF ControlInv, Busy, Cleaning
<1>6. HostInv'
  <2>1. rec.list[rec.job].rev # 0
    BY <1>1 DEF ListInv
  <2> QED BY <1>1, <2>1 DEF HostInv
<1>7. ExactInv'
  BY <1>1, <1>3, <1>4 DEF ExactInv, Rec
<1>8. StageInv' /\ OrphanInv'
  BY <1>3, <1>4 DEF StageInv, OrphanInv, Cleaning
<1>9. TargetInv'
  BY <1>1, <1>2, <1>3, <1>4 DEF TargetInv, Busy
<1> QED BY <1>1, <1>2, <1>3, <1>4, <1>5, <1>6, <1>7, <1>8, <1>9, HostStep DEF TypeOK

\* removeSystemd has succeeded for an orphan.
LEMMA RemovedStep ==
  ASSUME PersistentInv, UNCHANGED <<stepFrame, cronFile, pathFile, on, ignored>>,
         GoTo("orphans"), rec.removing, Busy, serviceFile' \in Files,
         loaded' \in {loaded, pathFile}, pathFile[rec.job] = 0, serviceFile'[rec.job] = 0,
         \A j \in Jobs \ {rec.job} : serviceFile'[j] = serviceFile[j]
  PROVE  PersistentInv'
<1>1. /\ TypeOK /\ ListInv /\ ControlInv /\ HostInv /\ ExactInv /\ OrphanInv
      /\ TargetInv /\ WrapperInv /\ rec.job \in Jobs /\ rec \in Rec
      /\ loaded \in Files /\ pathFile \in Files /\ cronFile \in Files
  BY DEF PersistentInv, TypeOK, Rec, Files
<1>2. WrapperInv' /\ UNCHANGED <<repo, waiting, target, inst>>
  BY <1>1, SameWrapper DEF stepFrame, recFrame, wrapperVars
<1>3. PICK r : r = rec'
  OBVIOUS
<1>4. /\ r \in Rec /\ r.pc = "orphans" /\ r.list = rec.list /\ r.todo = rec.todo
      /\ r.desired = rec.desired /\ r.preserve = rec.preserve
      /\ r.failed = rec.failed /\ r.removing = rec.removing
  BY <1>1, <1>3, GoToFacts
<1>5. ControlInv'
  BY <1>1, <1>3, <1>4 DEF ControlInv, Busy, Cleaning
<1>6. HostInv' /\ StageInv'
  BY <1>1, <1>3, <1>4 DEF HostInv, StageInv
<1>7. ExactInv'
  <2>1. \A j \in rec.desired : j \in Jobs \ {rec.job}
    BY <1>1 DEF ControlInv, Rec
  <2> QED BY <1>1, <1>3, <1>4, <2>1 DEF ExactInv
<1>8. OrphanInv'
  BY <1>1, <1>3, <1>4 DEF OrphanInv, Cleaning, Busy
<1>9. TargetInv'
  BY <1>1, <1>2, <1>3, <1>4 DEF TargetInv, Busy
<1> QED BY <1>1, <1>2, <1>3, <1>4, <1>5, <1>6, <1>7, <1>8, <1>9, HostStep DEF TypeOK
-----------------------------------------------------------------------------
LEMMA PersistentFacts ==
  ASSUME PersistentInv
  PROVE  /\ TypeOK /\ WrapperInv /\ ListInv /\ ControlInv /\ StageInv /\ HostInv /\ ExactInv
         /\ OrphanInv /\ TargetInv /\ rec \in Rec /\ rec.job \in Jobs
         /\ cronFile \in Files /\ serviceFile \in Files /\ pathFile \in Files
         /\ loaded \in Files /\ on \subseteq Jobs /\ ignored \subseteq Jobs
         /\ rec.list[rec.job].rev \in 0..MaxRevision /\ 0 \in 0..MaxRevision
  BY PersistentAssumption DEF PersistentInv, TypeOK, Files, Rec, List

LEMMA SkipStep == ASSUME PersistentInv, NEW j \in Jobs, Skip(j) PROVE PersistentInv'
<1>1. /\ rec.pc = "jobs" /\ rec.list[j].kind = "none"
      /\ WrapperInv' /\ UNCHANGED <<repo, waiting, target, inst>>
      /\ UNCHANGED <<cronFile, serviceFile, pathFile, loaded, on, ignored>>
  BY SameWrapper DEF PersistentInv, Skip, recFrame, hostVars, unitVars, wrapperVars
<1>2. PICK r : r = [rec EXCEPT !.todo = @ \ {j}]
  OBVIOUS
<1>3. /\ r \in Rec /\ rec' = r /\ r.pc = "jobs" /\ r.list = rec.list /\ r.job = rec.job
      /\ r.todo = rec.todo \ {j} /\ r.desired = rec.desired /\ r.preserve = rec.preserve
      /\ r.failed = rec.failed /\ r.removing = rec.removing
  <2> HIDE DEF List
  <2> QED BY <1>1, <1>2, PersistentFacts DEF Rec, Skip
<1>4. ControlInv'
  BY <1>1, <1>3, PersistentFacts DEF ControlInv, Busy, Cleaning
<1>5. StageInv' /\ HostInv' /\ ExactInv'
  BY <1>1, <1>3, PersistentFacts DEF StageInv, HostInv, ExactInv
<1>6. OrphanInv' /\ TargetInv'
  BY <1>1, <1>3, PersistentFacts DEF OrphanInv, TargetInv, ControlInv, Busy, Cleaning
<1> QED BY <1>1, <1>3, <1>4, <1>5, <1>6, PersistentFacts, HostStep

LEMMA RefuseStep == ASSUME PersistentInv, NEW j \in Jobs, Refuse(j) PROVE PersistentInv'
<1>1. /\ rec.pc = "jobs" /\ WrapperInv' /\ TargetsStay
      /\ UNCHANGED <<repo, waiting, cronFile, serviceFile, pathFile, loaded, on, ignored>>
  BY SameWrapper DEF PersistentInv, Refuse, recFrame, hostVars, unitVars
<1>2. PICK q : q = [rec EXCEPT !.todo = @ \ {j}]
  OBVIOUS
<1>3. /\ q \in Rec /\ q.list = rec.list /\ q.todo = rec.todo \ {j}
      /\ q.desired = rec.desired /\ q.removing = rec.removing
  <2> HIDE DEF List
  <2> QED BY <1>2, PersistentFacts DEF Rec
<1>4. PICK r : r = Spare(q, j)
  OBVIOUS
<1>5. /\ r \in Rec /\ r.pc = "jobs" /\ r.list = rec.list /\ r.desired = rec.desired
      /\ r.todo \subseteq rec.todo /\ r.removing = rec.removing /\ r.failed
  BY <1>3, <1>4, SpareFacts
<1>6. rec' = r /\ ~rec.removing
  BY <1>1, <1>2, <1>4, PersistentFacts DEF Refuse, ControlInv
<1> QED BY <1>1, <1>5, <1>6, FailStep

LEMMA BeginInstallStep ==
  ASSUME PersistentInv, NEW j \in Jobs, BeginInstall(j)
  PROVE  PersistentInv'
<1>1. /\ rec.pc = "jobs" /\ j \in rec.todo /\ rec.list[j].kind \in {"cron", "watch"}
      /\ Install(Reconciler, j, rec.list[j].rev) /\ Reconciler \in Installers
      /\ UNCHANGED <<repo, waiting, cronFile, serviceFile, pathFile, loaded, on, ignored>>
  BY PersistentAssumption DEF BeginInstall, recFrame, hostVars, unitVars
<1>2. rec.list[j].rev \in Text
  BY <1>1, PersistentFacts, PersistentAssumption DEF ListInv, Rec, List, Text
<1>3. WrapperInv' /\ TargetsStay
  BY <1>1, <1>2, PersistentFacts, InstallKeeps
<1>4. inst'[Reconciler].job = j
  BY <1>1, PersistentFacts DEF Install, TypeOK, WrapperTypeOK
<1>5. PICK b \in BOOLEAN : b = FALSE
  OBVIOUS
<1>6. PICK r : r = [rec EXCEPT !.pc = "install", !.todo = @ \ {j}, !.job = j, !.removing = b]
  OBVIOUS
<1>7. /\ r \in Rec /\ r.pc = "install" /\ r.list = rec.list /\ r.job = j
      /\ r.todo = rec.todo \ {j} /\ r.desired = rec.desired /\ r.preserve = rec.preserve
      /\ r.failed = rec.failed /\ r.removing = b
  <2> HIDE DEF List
  <2> QED BY <1>6, PersistentFacts DEF Rec
<1>8. rec' = r /\ ~r.removing /\ ~rec.removing
  BY <1>1, <1>5, <1>6, <1>7, PersistentFacts DEF BeginInstall, ControlInv
<1>9. ControlInv'
  BY <1>1, <1>4, <1>7, <1>8, PersistentFacts DEF ControlInv, Busy, Cleaning
<1>10. StageInv' /\ HostInv' /\ ExactInv'
  BY <1>1, <1>7, <1>8, PersistentFacts DEF StageInv, HostInv, ExactInv
<1>11. OrphanInv' /\ TargetInv'
  BY <1>1, <1>3, <1>7, <1>8, PersistentFacts DEF OrphanInv, TargetInv, Busy, Cleaning,
     TargetsStay
<1> QED BY <1>1, <1>3, <1>7, <1>8, <1>9, <1>10, <1>11, PersistentFacts, HostStep

LEMMA InstallReturnsStep == ASSUME PersistentInv, InstallReturns PROVE PersistentInv'
<1>1. /\ rec.pc = "install" /\ ~rec.removing /\ Reconciler \in Installers
      /\ inst' = [inst EXCEPT ![Reconciler] = IdleCall(@.job)]
      /\ UNCHANGED <<staging, target>>
      /\ UNCHANGED <<repo, waiting, cronFile, serviceFile, pathFile, loaded, on, ignored>>
  BY PersistentAssumption, PersistentFacts DEF InstallReturns, recFrame, hostVars, unitVars,
     ControlInv
<1>2. WrapperInv' /\ TargetsStay
  BY <1>1, PersistentFacts, ReturnKeeps
<1>3. CASE At(Reconciler, "failed")
  <2>1. rec' = Spare(rec, rec.job)
    BY <1>3 DEF InstallReturns
  <2> QED BY <1>1, <1>2, <2>1, SpareStep
<1>4. CASE At(Reconciler, "done") /\ ~At(Reconciler, "failed")
  <2>1. PICK pc \in {"disable", "rmCron"} :
          pc = IF rec.list[rec.job].kind = "cron" THEN "disable" ELSE "rmCron"
    OBVIOUS
  <2>2. PICK r : r = [rec EXCEPT !.pc = pc]
    OBVIOUS
  <2>3. rec' = r
    BY <1>4, <2>1, <2>2 DEF InstallReturns
  <2>4. /\ r \in Rec /\ r.pc = pc /\ r.list = rec.list /\ r.job = rec.job
        /\ r.todo = rec.todo /\ r.desired = rec.desired /\ r.preserve = rec.preserve
        /\ r.failed = rec.failed /\ r.removing = rec.removing
    <3> HIDE DEF List
    <3> QED BY <2>2, PersistentFacts DEF Rec
  <2>5. target[rec.job] # NoFile
    BY <1>1, <1>4, PersistentFacts DEF At, WrapperInv, ControlInv
  <2>6. ControlInv'
    BY <1>1, <2>1, <2>3, <2>4, PersistentFacts DEF ControlInv, Busy, Cleaning
  <2>7. StageInv' /\ HostInv' /\ ExactInv'
    BY <1>1, <2>3, <2>4, PersistentFacts DEF StageInv, HostInv, ExactInv
  <2>8. OrphanInv' /\ TargetInv'
    BY <1>1, <2>3, <2>4, <2>5, PersistentFacts DEF OrphanInv, TargetInv, Busy, Cleaning
  <2> QED BY <1>1, <1>2, <2>3, <2>4, <2>6, <2>7, <2>8, PersistentFacts, HostStep
<1> QED BY <1>3, <1>4 DEF InstallReturns

LEMMA DisableStep == ASSUME PersistentInv, Disable PROVE PersistentInv'
<1>1. PICK exists \in BOOLEAN, stopped \in BOOLEAN :
        /\ rec' = [rec EXCEPT !.pc = "rmPath", !.existed = exists]
        /\ on' = IF stopped THEN on \ {rec.job} ELSE on
        /\ ignored' = IF stopped \/ pathFile[rec.job] = 0 THEN ignored
                      ELSE ignored \cup {rec.job}
  BY DEF Disable
<1>2. /\ rec.pc = "disable" /\ Busy
      /\ UNCHANGED <<stepFrame, cronFile, serviceFile, pathFile, loaded>>
  BY DEF Disable, Busy
<1>3. PICK r : r = [rec EXCEPT !.pc = "rmPath", !.existed = exists]
  OBVIOUS
<1>4. /\ r \in Rec /\ rec' = r /\ r.pc = "rmPath" /\ r.list = rec.list /\ r.job = rec.job
      /\ r.todo = rec.todo /\ r.desired = rec.desired /\ r.preserve = rec.preserve
      /\ r.failed = rec.failed /\ r.removing = rec.removing
  <2> HIDE DEF List
  <2> QED BY <1>1, <1>3, PersistentFacts DEF Rec
<1>5. /\ on' \subseteq on /\ ignored \subseteq ignored' /\ ignored' \subseteq Jobs
      /\ \A j \in Jobs \ {rec.job} : j \in on' <=> j \in on
      /\ rec.job \in ignored' \/ rec.job \notin on'
  BY <1>1, PersistentFacts DEF HostInv
<1>6. StageInv'
  BY <1>4, <1>5 DEF StageInv
<1> QED BY <1>2, <1>4, <1>5, <1>6, PersistentFacts, StageStep

LEMMA RemovePathStep == ASSUME PersistentInv, RemovePath PROVE PersistentInv'
<1>1. /\ rec.pc = "rmPath" /\ Busy
      /\ UNCHANGED <<stepFrame, cronFile, serviceFile, loaded, on, ignored>>
  BY DEF RemovePath, Busy
<1>2. CASE SystemdFails /\ UNCHANGED pathFile
  BY <1>1, <1>2, SystemdFailsStep DEF hostVars, unitVars
<1>3. CASE pathFile' = Set(pathFile, 0) /\ GoTo("rmService")
  <2>1. PICK d \in Jobs : d = rec.job
    BY PersistentFacts
  <2>2. /\ pathFile' \in Files /\ pathFile'[d] = 0
        /\ \A j \in Jobs \ {d} : pathFile'[j] = pathFile[j]
    BY <1>3, <2>1, PersistentFacts DEF Set, Files
  <2>3. PICK r : r = rec'
    OBVIOUS
  <2>4. /\ r \in Rec /\ r.pc = "rmService" /\ r.list = rec.list /\ r.job = rec.job
        /\ r.todo = rec.todo /\ r.desired = rec.desired /\ r.preserve = rec.preserve
        /\ r.failed = rec.failed /\ r.removing = rec.removing
    BY <1>3, <2>3, PersistentFacts, GoToFacts
  <2>5. rec.job \in ignored \/ rec.job \notin on
    BY <1>1, PersistentFacts DEF StageInv
  <2>6. StageInv'
    BY <1>1, <2>1, <2>2, <2>3, <2>4, <2>5 DEF StageInv
  <2> QED BY <1>1, <2>1, <2>2, <2>3, <2>4, <2>5, <2>6, PersistentFacts, StageStep
<1> QED BY <1>2, <1>3 DEF RemovePath

LEMMA RemoveServiceStep == ASSUME PersistentInv, RemoveService PROVE PersistentInv'
<1>1. /\ rec.pc = "rmService" /\ Busy /\ pathFile[rec.job] = 0
      /\ rec.job \in ignored \/ rec.job \notin on
      /\ UNCHANGED <<stepFrame, cronFile, pathFile, loaded, on, ignored>>
  BY PersistentFacts DEF RemoveService, Busy, StageInv
<1>2. CASE SystemdFails /\ UNCHANGED serviceFile
  BY <1>1, <1>2, SystemdFailsStep DEF hostVars, unitVars
<1>3. ASSUME serviceFile' = Set(serviceFile, 0),
             IF rec.existed THEN GoTo("reload") ELSE SystemdRemoved
      PROVE  PersistentInv'
  <2>1. PICK d \in Jobs : d = rec.job
    BY PersistentFacts
  <2>2. /\ serviceFile' \in Files /\ serviceFile'[d] = 0
        /\ \A j \in Jobs \ {d} : serviceFile'[j] = serviceFile[j]
    BY <1>3, <2>1, PersistentFacts DEF Set, Files
  <2>3. CASE rec.removing /\ GoTo("orphans")
    BY <1>1, <2>1, <2>2, <2>3, RemovedStep
  <2>4. ASSUME NEW pc \in {"reload", "writeCron"}, GoTo(pc), pc = "writeCron" => ~rec.removing
        PROVE  PersistentInv'
    <3>1. PICK r : r = rec'
      OBVIOUS
    <3>2. /\ r \in Rec /\ r.pc = pc /\ r.list = rec.list /\ r.job = rec.job
          /\ r.todo = rec.todo /\ r.desired = rec.desired /\ r.preserve = rec.preserve
          /\ r.failed = rec.failed /\ r.removing = rec.removing
      BY <2>4, <3>1, PersistentFacts, GoToFacts
    <3>3. StageInv'
      BY <1>1, <2>1, <2>2, <2>4, <3>1, <3>2 DEF StageInv
    <3> QED BY <1>1, <2>1, <2>2, <2>4, <3>1, <3>2, <3>3, PersistentFacts, StageStep
  <2> QED BY <1>3, <2>3, <2>4 DEF SystemdRemoved
<1> QED BY <1>2, <1>3 DEF RemoveService

LEMMA ReloadStep == ASSUME PersistentInv, Reload PROVE PersistentInv'
<1>1. /\ rec.pc = "reload" /\ Busy /\ pathFile[rec.job] = 0 /\ serviceFile[rec.job] = 0
      /\ rec.job \in ignored \/ rec.job \notin on
      /\ UNCHANGED <<stepFrame, cronFile, serviceFile, pathFile, on, ignored>>
  BY PersistentFacts DEF Reload, Busy, StageInv
<1>2. CASE SystemdFails /\ UNCHANGED loaded
  BY <1>1, <1>2, SystemdFailsStep DEF hostVars, unitVars
<1>3. CASE loaded' = pathFile /\ SystemdRemoved
  <2>1. CASE rec.removing
    BY <1>1, <1>3, <2>1, RemovedStep, PersistentFacts DEF SystemdRemoved
  <2>2. CASE ~rec.removing
    <3>1. PICK r : r = rec'
      OBVIOUS
    <3>2. /\ r \in Rec /\ r.pc = "writeCron" /\ r.list = rec.list /\ r.job = rec.job
          /\ r.todo = rec.todo /\ r.desired = rec.desired /\ r.preserve = rec.preserve
          /\ r.failed = rec.failed /\ r.removing = rec.removing
      BY <1>3, <2>2, <3>1, PersistentFacts, GoToFacts DEF SystemdRemoved
    <3>3. StageInv'
      BY <1>1, <3>1, <3>2 DEF StageInv
    <3> QED BY <1>1, <1>3, <2>2, <3>1, <3>2, <3>3, PersistentFacts, StageStep
  <2> QED BY <2>1, <2>2
<1> QED BY <1>2, <1>3 DEF Reload

\* A command of applyJob that may fail without effect.
LEMMA ApplyFails ==
  ASSUME PersistentInv, UNCHANGED <<stepFrame, cronFile, serviceFile, pathFile, loaded, ignored>>,
         rec' = Spare(rec, rec.job),
         rec.pc \in {"writeCron", "writeService", "writePath", "reloadNew", "enable"},
         on' = on \/ (rec.pc = "enable" /\ on' = on \cup {rec.job})
  PROVE  PersistentInv'
<1>1. /\ WrapperInv' /\ TargetsStay /\ UNCHANGED <<repo, waiting>> /\ ~rec.removing
  BY SameWrapper, PersistentFacts DEF stepFrame, recFrame, ControlInv
<1> QED BY <1>1, SpareStep

LEMMA WriteCronStep == ASSUME PersistentInv, WriteCron PROVE PersistentInv'
<1>1. /\ rec.pc = "writeCron" /\ Busy /\ ~rec.removing /\ rec.list[rec.job].kind = "cron"
      /\ pathFile[rec.job] = 0 /\ serviceFile[rec.job] = 0 /\ target[rec.job] # NoFile
      /\ rec.job \in ignored \/ rec.job \notin on
      /\ UNCHANGED <<stepFrame, serviceFile, pathFile, loaded, on, ignored>>
  BY PersistentFacts DEF WriteCron, Busy, StageInv, ControlInv, TargetInv, unitVars
<1>2. CASE rec' = Spare(rec, rec.job) /\ UNCHANGED cronFile
  BY <1>1, <1>2, ApplyFails
<1>3. CASE cronFile' = Set(cronFile, rec.list[rec.job].rev) /\ rec' = Applied
  <2>1. PICK d \in Jobs, n \in 0..MaxRevision : d = rec.job /\ n = rec.list[d].rev
    BY PersistentFacts
  <2>2. /\ cronFile' \in Files /\ cronFile'[d] = n
        /\ \A j \in Jobs \ {d} : cronFile'[j] = cronFile[j]
    BY <1>3, <2>1, PersistentFacts DEF Set, Files
  <2> QED BY <1>1, <1>3, <2>1, <2>2, PersistentFacts, AppliedStep
<1> QED BY <1>2, <1>3 DEF WriteCron

LEMMA DropCronStep == ASSUME PersistentInv, DropCron PROVE PersistentInv'
<1>1. /\ rec.pc = "rmCron" /\ Busy /\ GoTo("writeService") /\ ~rec.removing
      /\ UNCHANGED <<stepFrame, serviceFile, pathFile, loaded, on>>
  BY PersistentFacts DEF DropCron, Busy, unitVars, ControlInv
<1>2. PICK r : r = rec'
  OBVIOUS
<1>3. /\ r \in Rec /\ r.pc = "writeService" /\ r.list = rec.list /\ r.job = rec.job
      /\ r.todo = rec.todo /\ r.desired = rec.desired /\ r.preserve = rec.preserve
      /\ r.failed = rec.failed /\ r.removing = rec.removing
  BY <1>1, <1>2, PersistentFacts, GoToFacts
<1>4. PICK d \in Jobs : d = rec.job
  BY PersistentFacts
<1>5. /\ cronFile' \in Files /\ ignored \subseteq ignored' /\ ignored' \subseteq Jobs
      /\ d \in ignored' \/ cronFile'[d] = 0
      /\ \A j \in Jobs \ {d} : cronFile'[j] = cronFile[j]
  <2>1. CASE cronFile' = Set(cronFile, 0) /\ UNCHANGED ignored
    BY <1>4, <2>1, PersistentFacts DEF Set, Files
  <2>2. CASE ignored' = ignored \cup {rec.job} /\ UNCHANGED cronFile
    BY <1>4, <2>2, PersistentFacts
  <2> QED BY <2>1, <2>2 DEF DropCron
<1>6. d \in on => d \in ignored' \/ (pathFile[d] # 0 /\ cronFile'[d] = 0)
  BY <1>4, <1>5, PersistentFacts DEF HostInv
<1>7. StageInv'
  BY <1>2, <1>3, <1>4, <1>5 DEF StageInv
<1> QED BY <1>1, <1>2, <1>3, <1>4, <1>5, <1>6, <1>7, PersistentFacts, StageStep

LEMMA WriteServiceStep == ASSUME PersistentInv, WriteService PROVE PersistentInv'
<1>1. /\ rec.pc = "writeService" /\ Busy /\ ~rec.removing
      /\ rec.job \in ignored \/ cronFile[rec.job] = 0
      /\ UNCHANGED <<stepFrame, cronFile, pathFile, loaded, on, ignored>>
  BY PersistentFacts DEF WriteService, Busy, StageInv, ControlInv
<1>2. CASE rec' = Spare(rec, rec.job) /\ UNCHANGED serviceFile
  BY <1>1, <1>2, ApplyFails
<1>3. CASE serviceFile' = Set(serviceFile, rec.list[rec.job].rev) /\ GoTo("writePath")
  <2>1. PICK d \in Jobs, n \in 0..MaxRevision : d = rec.job /\ n = rec.list[d].rev
    BY PersistentFacts
  <2>2. /\ serviceFile' \in Files /\ serviceFile'[d] = n
        /\ \A j \in Jobs \ {d} : serviceFile'[j] = serviceFile[j]
    BY <1>3, <2>1, PersistentFacts DEF Set, Files
  <2>3. PICK r : r = rec'
    OBVIOUS
  <2>4. /\ r \in Rec /\ r.pc = "writePath" /\ r.list = rec.list /\ r.job = rec.job
        /\ r.todo = rec.todo /\ r.desired = rec.desired /\ r.preserve = rec.preserve
        /\ r.failed = rec.failed /\ r.removing = rec.removing
    BY <1>3, <2>3, PersistentFacts, GoToFacts
  <2>5. d \in ignored \/ d \notin on \/ (pathFile[d] # 0 /\ cronFile[d] = 0)
    BY PersistentFacts DEF HostInv
  <2>6. StageInv'
    BY <1>1, <2>1, <2>2, <2>3, <2>4 DEF StageInv
  <2> QED BY <1>1, <2>1, <2>2, <2>3, <2>4, <2>5, <2>6, PersistentFacts, StageStep
<1> QED BY <1>2, <1>3 DEF WriteService

LEMMA WritePathStep == ASSUME PersistentInv, WritePath PROVE PersistentInv'
<1>1. /\ rec.pc = "writePath" /\ Busy /\ ~rec.removing
      /\ rec.job \in ignored \/ cronFile[rec.job] = 0
      /\ serviceFile[rec.job] = rec.list[rec.job].rev /\ rec.list[rec.job].rev # 0
      /\ UNCHANGED <<stepFrame, cronFile, serviceFile, loaded, on, ignored>>
  BY PersistentFacts DEF WritePath, Busy, StageInv, ControlInv, ListInv
<1>2. CASE rec' = Spare(rec, rec.job) /\ UNCHANGED pathFile
  BY <1>1, <1>2, ApplyFails
<1>3. CASE pathFile' = Set(pathFile, rec.list[rec.job].rev) /\ GoTo("reloadNew")
  <2>1. PICK d \in Jobs, n \in 0..MaxRevision : d = rec.job /\ n = rec.list[d].rev
    BY PersistentFacts
  <2>2. /\ pathFile' \in Files /\ pathFile'[d] = n
        /\ \A j \in Jobs \ {d} : pathFile'[j] = pathFile[j]
    BY <1>3, <2>1, PersistentFacts DEF Set, Files
  <2>3. PICK r : r = rec'
    OBVIOUS
  <2>4. /\ r \in Rec /\ r.pc = "reloadNew" /\ r.list = rec.list /\ r.job = rec.job
        /\ r.todo = rec.todo /\ r.desired = rec.desired /\ r.preserve = rec.preserve
        /\ r.failed = rec.failed /\ r.removing = rec.removing
    BY <1>3, <2>3, PersistentFacts, GoToFacts
  <2>5. StageInv'
    BY <1>1, <2>1, <2>2, <2>3, <2>4 DEF StageInv
  <2> QED BY <1>1, <2>1, <2>2, <2>3, <2>4, <2>5, PersistentFacts, StageStep
<1> QED BY <1>2, <1>3 DEF WritePath

LEMMA ReloadNewStep == ASSUME PersistentInv, ReloadNew PROVE PersistentInv'
<1>1. /\ rec.pc = "reloadNew" /\ Busy /\ ~rec.removing
      /\ rec.job \in ignored \/ cronFile[rec.job] = 0
      /\ serviceFile[rec.job] = rec.list[rec.job].rev
      /\ pathFile[rec.job] = rec.list[rec.job].rev
      /\ UNCHANGED <<stepFrame, cronFile, serviceFile, pathFile, on, ignored>>
  BY PersistentFacts DEF ReloadNew, Busy, StageInv, ControlInv
<1>2. CASE rec' = Spare(rec, rec.job) /\ UNCHANGED loaded
  BY <1>1, <1>2, ApplyFails
<1>3. CASE loaded' = pathFile /\ GoTo("enable")
  <2>1. PICK r : r = rec'
    OBVIOUS
  <2>2. /\ r \in Rec /\ r.pc = "enable" /\ r.list = rec.list /\ r.job = rec.job
        /\ r.todo = rec.todo /\ r.desired = rec.desired /\ r.preserve = rec.preserve
        /\ r.failed = rec.failed /\ r.removing = rec.removing
    BY <1>3, <2>1, PersistentFacts, GoToFacts
  <2>3. rec.job \in ignored \/ rec.job \notin on \/ (pathFile[rec.job] # 0 /\ cronFile[rec.job] = 0)
    BY PersistentFacts DEF HostInv
  <2>4. StageInv'
    BY <1>1, <1>3, <2>1, <2>2 DEF StageInv
  <2> QED BY <1>1, <1>3, <2>1, <2>2, <2>3, <2>4, PersistentFacts, StageStep
<1> QED BY <1>2, <1>3 DEF ReloadNew

LEMMA EnableStep == ASSUME PersistentInv, Enable PROVE PersistentInv'
<1>1. /\ rec.pc = "enable" /\ Busy /\ ~rec.removing /\ rec.list[rec.job].kind = "watch"
      /\ rec.job \in ignored \/ cronFile[rec.job] = 0
      /\ serviceFile[rec.job] = rec.list[rec.job].rev
      /\ pathFile[rec.job] = rec.list[rec.job].rev
      /\ loaded[rec.job] = rec.list[rec.job].rev /\ target[rec.job] # NoFile
      /\ UNCHANGED <<stepFrame, cronFile, serviceFile, pathFile, loaded, ignored>>
  BY PersistentFacts DEF Enable, Busy, StageInv, ControlInv, TargetInv
<1>2. CASE rec' = Spare(rec, rec.job) /\ on' \in {on, on \cup {rec.job}}
  BY <1>1, <1>2, ApplyFails
<1>3. CASE on' = on \cup {rec.job} /\ rec' = Applied
  BY <1>1, <1>3, PersistentFacts, AppliedStep
<1> QED BY <1>2, <1>3 DEF Enable

\* The loop over the jobs is over: what has files and is neither wanted nor spared is
\* an orphan, or an error was discarded.
LEMMA ScanStep == ASSUME PersistentInv, Scan PROVE PersistentInv'
<1>1. PICK c \in {{}, CronJobs}, u \in {{}, UnitJobs} :
        /\ rec' = [rec EXCEPT !.pc = "orphans", !.todo = Orphans(c \cup u)]
        /\ ignored' = ignored \cup Orphans((CronJobs \cup UnitJobs) \ (c \cup u))
  BY DEF Scan
<1>2. /\ rec.pc = "jobs" /\ rec.todo = {} /\ ~rec.removing
      /\ WrapperInv' /\ UNCHANGED <<repo, waiting, target, inst>>
      /\ UNCHANGED <<cronFile, serviceFile, pathFile, loaded, on>>
  BY SameWrapper, PersistentFacts DEF Scan, stepFrame, recFrame, hostVars, unitVars,
     wrapperVars, ControlInv
<1>3. PICK o : o = Orphans(c \cup u)
  OBVIOUS
<1>4. /\ o = (c \cup u) \ (rec.desired \cup rec.preserve) /\ o \subseteq Jobs
      /\ ignored \subseteq ignored' /\ ignored' \subseteq Jobs
  BY <1>1, <1>3, PersistentFacts DEF Orphans, CronJobs, UnitJobs
<1>5. \A j \in Jobs \ ignored' : j \in CronJobs \cup UnitJobs =>
        j \in rec.desired \cup rec.preserve \cup o
  BY <1>1, <1>4 DEF Orphans
<1>6. PICK r : r = [rec EXCEPT !.pc = "orphans", !.todo = o]
  OBVIOUS
<1>7. /\ r \in Rec /\ rec' = r /\ r.pc = "orphans" /\ r.list = rec.list /\ r.job = rec.job
      /\ r.todo = o /\ r.desired = rec.desired /\ r.preserve = rec.preserve
      /\ r.failed = rec.failed /\ r.removing = rec.removing
  <2> HIDE DEF List
  <2> QED BY <1>1, <1>3, <1>4, <1>6, PersistentFacts DEF Rec
<1>8. ControlInv'
  BY <1>2, <1>4, <1>7, PersistentFacts DEF ControlInv, Busy, Cleaning
<1>9. StageInv' /\ HostInv' /\ ExactInv'
  BY <1>2, <1>4, <1>7, PersistentFacts DEF StageInv, HostInv, ExactInv
<1>10. OrphanInv'
  <2>1. ASSUME ~rec.failed, NEW j \in Jobs \ (rec.desired \cup o \cup ignored')
        PROVE  cronFile[j] = 0 /\ pathFile[j] = 0 /\ serviceFile[j] = 0
    <3>1. rec.preserve = {}
      BY <2>1, PersistentFacts DEF ControlInv
    <3>2. j \notin CronJobs \cup UnitJobs
      BY <1>5, <2>1, <3>1
    <3> QED BY <2>1, <3>2 DEF CronJobs, UnitJobs
  <2> QED BY <1>2, <1>7, <2>1 DEF OrphanInv
<1>11. TargetInv'
  BY <1>2, <1>7, PersistentFacts DEF TargetInv, Busy
<1> QED BY <1>2, <1>4, <1>7, <1>8, <1>9, <1>10, <1>11, PersistentFacts, HostStep

LEMMA RemoveJobStep == ASSUME PersistentInv, NEW j \in Jobs, RemoveJob(j) PROVE PersistentInv'
<1>1. PICK f \in BOOLEAN :
        /\ rec' = [rec EXCEPT !.pc = "disable", !.job = j, !.removing = TRUE,
                              !.todo = @ \ {j}, !.failed = @ \/ f]
        /\ cronFile' = IF f THEN cronFile ELSE [cronFile EXCEPT ![j] = 0]
  BY DEF RemoveJob
<1>2. /\ rec.pc = "orphans" /\ j \in rec.todo
      /\ WrapperInv' /\ UNCHANGED <<repo, waiting, target, inst>>
      /\ UNCHANGED <<serviceFile, pathFile, loaded, on, ignored>>
  BY SameWrapper, PersistentFacts DEF RemoveJob, stepFrame, recFrame, unitVars, wrapperVars
<1>3. PICK b \in BOOLEAN, g \in BOOLEAN : b = TRUE /\ g = (rec.failed \/ f)
  OBVIOUS
<1>4. PICK r : r = [rec EXCEPT !.pc = "disable", !.job = j, !.removing = b,
                               !.todo = @ \ {j}, !.failed = g]
  OBVIOUS
<1>5. rec' = r
  BY <1>1, <1>3, <1>4
<1>6. /\ r \in Rec /\ r.pc = "disable" /\ r.list = rec.list /\ r.job = j
      /\ r.todo = rec.todo \ {j} /\ r.desired = rec.desired /\ r.preserve = rec.preserve
      /\ r.failed = g /\ r.removing = b
  <2> HIDE DEF List
  <2> QED BY <1>4, PersistentFacts DEF Rec
<1>7. r.removing /\ (~r.failed => ~rec.failed /\ ~f)
  BY <1>3, <1>6
<1>8. /\ cronFile' \in Files /\ cronFile'[j] \in {cronFile[j], 0} /\ (f \/ cronFile'[j] = 0)
      /\ \A k \in Jobs \ {j} : cronFile'[k] = cronFile[k]
  <2>1. CASE f
    BY <1>1, <2>1, PersistentFacts
  <2>2. CASE ~f
    BY <1>1, <2>2, PersistentFacts DEF Files
  <2> QED BY <2>1, <2>2
<1>9. j \notin rec.desired
  BY <1>2, PersistentFacts DEF ControlInv
<1>10. ControlInv'
  BY <1>2, <1>5, <1>6, <1>7, <1>9, PersistentFacts DEF ControlInv, Busy, Cleaning
<1>11. StageInv' /\ HostInv' /\ ExactInv'
  BY <1>2, <1>5, <1>6, <1>8, <1>9, PersistentFacts DEF StageInv, HostInv, ExactInv, Rec
<1>12. OrphanInv' /\ TargetInv'
  BY <1>2, <1>5, <1>6, <1>7, <1>8, PersistentFacts DEF OrphanInv, TargetInv, Busy, Cleaning
<1> QED BY <1>2, <1>5, <1>6, <1>8, <1>10, <1>11, <1>12, PersistentFacts, HostStep
-----------------------------------------------------------------------------
LEMMA PersistentStep == PersistentInv /\ [Next]_vars => PersistentInv'
<1> SUFFICES ASSUME PersistentInv, [Next]_vars
             PROVE  PersistentInv'
  OBVIOUS
<1>1. CASE Environment
  BY <1>1, RequestStep, CrashStep, InstallerStep DEF Environment
<1>2. CASE Reconcile
  BY <1>2, BeginStep, SkipStep, RefuseStep, BeginInstallStep, InstallReturnsStep,
     DisableStep, RemovePathStep, RemoveServiceStep, ReloadStep, WriteCronStep,
     DropCronStep, WriteServiceStep, WritePathStep, ReloadNewStep, EnableStep, ScanStep,
     RemoveJobStep, ReturnStep DEF Reconcile
<1>3. CASE UNCHANGED vars
  <2>1. UNCHANGED <<wrapperVars, repo, waiting, rec, hostVars, ignored>>
    BY <1>3 DEF vars
  <2>2. WrapperInv' /\ TargetsStay /\ inst' = inst
    BY <2>1, SameWrapper, PersistentFacts DEF wrapperVars
  <2>3. ListInv' /\ repo' \in List /\ waiting' \subseteq List
    BY <2>1, PersistentFacts DEF ListInv, TypeOK
  <2> QED BY <2>1, <2>2, <2>3, AloneStep
<1> QED BY <1>1, <1>2, <1>3 DEF Next

LEMMA PersistentInvariant == Spec => []PersistentInv
  BY InitPersistent, PersistentStep, PTL DEF Spec

\* The files, the units and the Reconcile keep their types.
THEOREM PersistentTypeCorrect == Spec => []TypeOK
<1>1. PersistentInv => TypeOK
  BY DEF PersistentInv
<1> QED BY <1>1, PersistentInvariant, PTL

\* A Reconcile that returns nil has left exactly the triggers of its list, for any
\* number of jobs and whatever failed or was killed before.  (Reconcile, applyJob,
\* removeJob, removeOrphans)
THEOREM NilReconcileIsExact == Spec => []NilMeansExact
<1>1. PersistentInv => NilMeansExact
  <2> SUFFICES ASSUME PersistentInv, rec.pc = "orphans", rec.todo = {}, ~rec.failed,
                      NEW j \in Jobs \ ignored
               PROVE  LET want(k) == IF rec.list[j].kind = k THEN rec.list[j].rev ELSE 0 IN
                      /\ cronFile[j] = want("cron")
                      /\ pathFile[j] = want("watch") /\ serviceFile[j] = want("watch")
                      /\ IF rec.list[j].kind = "watch"
                         THEN j \in on /\ loaded[j] = want("watch") ELSE ~Watching(j)
    BY DEF NilMeansExact
  <2>1. CASE j \in rec.desired
    <3>1. rec.list[j].kind \in {"cron", "watch"}
      BY <2>1, PersistentFacts DEF ControlInv
    <3> QED BY <2>1, <3>1, PersistentFacts DEF ExactInv, Watching
  <2>2. CASE j \notin rec.desired
    <3>1. rec.list[j].kind = "none"
      BY <2>2, PersistentFacts DEF ControlInv, Busy
    <3>2. cronFile[j] = 0 /\ pathFile[j] = 0 /\ serviceFile[j] = 0
      BY <2>2, PersistentFacts DEF OrphanInv, Cleaning, Busy
    <3>3. j \notin on
      BY <3>2, PersistentFacts DEF HostInv
    <3> QED BY <3>1, <3>2, <3>3 DEF Watching
  <2> QED BY <2>1, <2>2
<1> QED BY <1>1, PersistentInvariant, PTL

\* A job never has a cron file and a started path unit at a time, also while it
\* changes from one trigger to the other, unless an error was discarded.  (applyJob
\* removes before it writes)
THEOREM TriggersAreExclusive == Spec => []NoDoubleTrigger
<1>1. PersistentInv => NoDoubleTrigger
  BY DEF PersistentInv, HostInv, NoDoubleTrigger, Watching
<1> QED BY <1>1, PersistentInvariant, PTL

\* What cron and systemd invoke is a whole and secured wrapper, for any number of
\* goroutines that install wrappers at the same time.  (WrapperStore.Install)
THEOREM WrappersAreWhole == Spec => []TriggersInvokeWholeWrapper
<1>1. PersistentInv => TriggersInvokeWholeWrapper
  BY DEF PersistentInv, WrapperInv, TargetInv, TriggersInvokeWholeWrapper, Watching
<1> QED BY <1>1, PersistentInvariant, PTL
=============================================================================
