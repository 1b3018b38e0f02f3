---------------------------- MODULE JobRepository ----------------------------
(***************************************************************************)
(* JobRepository (cmd/syncbridge/job_repository.go) over AtomicWriteFile   *)
(* (cmd/syncbridge/atomic_file.go): jobs.json shared by one repository per *)
(* process, with the memory copy each of them answers reads from, the      *)
(* exclusive lock on jobs.json.lock, migration of a version 1 file, failed *)
(* calls, killed processes and power loss.                                 *)
(*                                                                         *)
(* A job is its revision and a value that stands for its definition.  The  *)
(* visible state of the directory and the state a power loss falls back to *)
(* are kept apart: a rename is visible at once and durable after the fsync *)
(* of the directory, or at any time before if the kernel writes it back.   *)
(***************************************************************************)
EXTENDS Integers, Sequences, FiniteSets

CONSTANTS
  Procs,      \* processes, each with one open repository
  Values,     \* job definitions
  MaxId,      \* bound: job ids
  MaxRev,     \* bound: revisions of a job
  MaxAcks,    \* bound: successful changes
  FirstFiles, \* the contents of jobs.json the first process may find
  NoFile, NoJob, NoProc,
  Gone        \* the value that a deletion writes

Ids  == 1..MaxId
Job  == [rev : 0..MaxRev, val : Values]
Store == [version : {1, 2}, next : 1..(MaxId + 1), jobs : [Ids -> Job \cup {NoJob}]]
Mem   == [next : 1..(MaxId + 1), jobs : [Ids -> Job \cup {NoJob}]]

ASSUME RepositoryAssumption ==
  /\ MaxId \in Nat \ {0} /\ MaxRev \in Nat \ {0} /\ MaxAcks \in Nat
  /\ FirstFiles \subseteq Store \cup {NoFile}
  /\ Gone \notin Values /\ NoProc \notin Procs
  /\ NoJob \notin Job /\ NoFile \notin Store

VARIABLES
  file,      \* jobs.json as every process sees it
  backup,    \* a backup of the version 1 file is visible
  disk,      \* jobs.json after a power loss now, unless written back already
  backDisk,  \* the same for the backup
  lock,      \* holder of the exclusive file lock
  up,        \* processes whose OpenJobRepository has returned
  mem,       \* r.next and r.jobs of each process
  op,        \* the call each process is in; r.mu admits one at a time
  acked,     \* history variable: the successful changes, in order
  deleted,   \* history variable: deletions whose rename was done
  first      \* history variable: the file that was found at first

vars == <<file, backup, disk, backDisk, lock, up, mem, op, acked, deleted, first>>

\* A successful change: what the job has become, a deletion being a revision.
Ack == [id : Ids, rev : 1..(MaxRev + 1), val : Values \cup {Gone}]

IsLegacy(f) == f # NoFile /\ f.version = 1

Empty == [next |-> 1, jobs |-> [i \in Ids |-> NoJob]]
NoOp  == [kind |-> "none", pc |-> "idle", id |-> 0, rev |-> 0, val |-> Gone,
          target |-> "none", data |-> Empty]

Op == [kind : {"none", "open", "create", "update", "delete"},
       pc : {"idle", "write", "sync"},
       id : 0..MaxId, rev : 0..MaxRev, val : Values \cup {Gone},
       target : {"none", "backup", "migrated", "candidate"},
       data : Mem]

TypeOK ==
  /\ file \in Store \cup {NoFile} /\ disk \in Store \cup {NoFile}
  /\ backup \in BOOLEAN /\ backDisk \in BOOLEAN /\ first \in Store \cup {NoFile}
  /\ lock \in Procs \cup {NoProc}
  /\ up \subseteq Procs
  /\ mem \in [Procs -> Mem]
  /\ op \in [Procs -> Op]
  /\ acked \in Seq(Ack) /\ deleted \subseteq Ack

Init ==
  /\ file \in FirstFiles /\ disk = file
  /\ backup = FALSE /\ backDisk = FALSE
  /\ lock = NoProc /\ up = {}
  /\ mem = [p \in Procs |-> Empty]
  /\ op = [p \in Procs |-> NoOp]
  /\ acked = << >> /\ deleted = {}
  /\ first = file

dirVars == <<file, backup, disk, backDisk>>
history == <<acked, deleted, first>>
-----------------------------------------------------------------------------
(***************************************************************************)
(* Under the lock: loadLocked, the checks and the candidate.               *)
(***************************************************************************)
\* replaceLocked repairs a next id that some job has already used.
Repaired(next, jobs) ==
  LET used == {i \in Ids : jobs[i] # NoJob /\ i >= next} IN
  IF used = {} THEN next
  ELSE 1 + CHOOSE i \in used : \A k \in used : k <= i

\* Mutant: the next id of a new repository starts at zero.
LoadedZero(f) ==
  IF f = NoFile THEN [Empty EXCEPT !.next = 0]
  ELSE [next |-> Repaired(f.next, f.jobs), jobs |-> f.jobs]

\* What loadLocked leaves in r: a version 1 job gets revision 1.
Loaded(f) ==
  IF f = NoFile THEN Empty
  ELSE [next |-> Repaired(f.next, f.jobs),
        jobs |-> [i \in Ids |-> IF f.jobs[i] # NoJob /\ IsLegacy(f)
                                THEN [f.jobs[i] EXCEPT !.rev = 1] ELSE f.jobs[i]]]

\* ErrJobNotFound or ErrRevisionConflict, with m loaded
Refused(o, m) ==
  /\ o.kind \in {"update", "delete"}
  /\ m.jobs[o.id] = NoJob \/ m.jobs[o.id].rev # o.rev

Candidate(o, m) ==
  CASE o.kind = "create" ->
         [next |-> m.next + 1,
          jobs |-> [m.jobs EXCEPT ![m.next] = [rev |-> 1, val |-> o.val]]]
    [] o.kind = "update" ->
         [m EXCEPT !.jobs[o.id] = [rev |-> o.rev + 1, val |-> o.val]]
    [] o.kind = "delete" -> [m EXCEPT !.jobs[o.id] = NoJob]

\* The bounds of the instance; Requests bounds revisions.
Fits(o, m) ==
  /\ o.kind = "create" => m.next <= MaxId
  /\ o.kind # "open" => Len(acked) < MaxAcks

\* Return with an error, or of a call that has nothing to write
Return(p) == op' = [op EXCEPT ![p] = NoOp] /\ lock' = NoProc

\* What call o does once m is loaded.
Decide(p, o, m) ==
  IF o.kind = "open"
  THEN Return(p) /\ up' = up \cup {p}
  ELSE /\ UNCHANGED up
       /\ IF Refused(o, m) THEN Return(p)
          ELSE /\ Fits(o, m)
               /\ op' = [op EXCEPT ![p] = [o EXCEPT !.pc = "write", !.target = "candidate",
                                                    !.data = Candidate(o, m)]]
               /\ lock' = p

\* Mutant: a call trusts the memory copy.
CallUnloaded(p, o) ==
  /\ op[p].pc = "idle" /\ lock = NoProc
  /\ LET m == IF p \in up THEN mem[p] ELSE Loaded(file) IN
     mem' = [mem EXCEPT ![p] = m] /\ Decide(p, o, m)
  /\ UNCHANGED <<dirVars, history>>

\* The lock is taken and the file is read; memory is replaced whatever becomes
\* of the call.  A version 1 file is to be backed up first.  A call that waits
\* for r.mu or the lock has done nothing yet, so it begins here.
Call(p, o) ==
  /\ op[p].pc = "idle" /\ lock = NoProc
  /\ mem' = [mem EXCEPT ![p] = Loaded(file)]
  /\ IF IsLegacy(file)
     THEN /\ op' = [op EXCEPT ![p] = [o EXCEPT !.pc = "write", !.target = "backup"]]
          /\ lock' = p /\ UNCHANGED up
     ELSE Decide(p, o, Loaded(file))
  /\ UNCHANGED <<dirVars, history>>

OpenJobRepository(p) == p \notin up /\ Call(p, [NoOp EXCEPT !.kind = "open"])

Create(p, v) ==
  p \in up /\ Call(p, [NoOp EXCEPT !.kind = "create", !.val = v])

Update(p, i, r, v) ==
  p \in up /\ Call(p, [NoOp EXCEPT !.kind = "update", !.id = i, !.rev = r, !.val = v])

Delete(p, i, r) ==
  p \in up /\ Call(p, [NoOp EXCEPT !.kind = "delete", !.id = i, !.rev = r])
-----------------------------------------------------------------------------
(***************************************************************************)
(* AtomicWriteFile, for the backup, the migrated file or the candidate.    *)
(***************************************************************************)
\* The change that p is making, in the terms of acked and deleted
Change(p) ==
  LET o == op[p] IN
  CASE o.kind = "create" -> [id |-> mem[p].next, rev |-> 1, val |-> o.val]
    [] o.kind \in {"update", "delete"} ->
         [id |-> o.id, rev |-> o.rev + 1, val |-> o.val]

NewFile(p) ==
  LET m == IF op[p].target = "migrated" THEN mem[p] ELSE op[p].data IN
  [version |-> 2, next |-> m.next, jobs |-> m.jobs]

\* The temporary file is written, given its mode and owner, synced and renamed.
\* Until the rename nothing that any process reads has changed.
WriteAndRename(p) ==
  /\ op[p].pc = "write"
  /\ op' = [op EXCEPT ![p].pc = "sync"]
  /\ IF op[p].target = "backup"
     THEN backup' = TRUE /\ UNCHANGED file
     ELSE file' = NewFile(p) /\ UNCHANGED backup
  /\ deleted' = IF op[p].target = "candidate" /\ op[p].kind = "delete"
                THEN deleted \cup {Change(p)} ELSE deleted
  /\ UNCHANGED <<disk, backDisk, lock, up, mem, acked, first>>

\* A call of AtomicWriteFile fails.  After the rename the new file stays, and
\* the caller reports a failure and keeps its memory copy.
WriteFails(p) ==
  /\ op[p].pc \in {"write", "sync"}
  /\ Return(p)
  /\ UNCHANGED <<dirVars, up, mem, history>>

\* What is done when the directory has been synced
Written(p) ==
  CASE op[p].target = "backup" ->
         /\ op' = [op EXCEPT ![p].pc = "write", ![p].target = "migrated"]
         /\ UNCHANGED <<lock, up, mem, acked>>
    [] op[p].target = "migrated" ->
         Decide(p, op[p], mem[p]) /\ UNCHANGED <<mem, acked>>
    [] op[p].target = "candidate" ->
         /\ mem' = [mem EXCEPT ![p] = op[p].data]
         /\ acked' = Append(acked, Change(p))
         /\ Return(p) /\ UNCHANGED up

\* Mutant: the directory is not synced.
SyncDirSkipped(p) ==
  /\ op[p].pc = "sync"
  /\ Written(p)
  /\ UNCHANGED <<dirVars, deleted, first>>

SyncDir(p) ==
  /\ op[p].pc = "sync"
  /\ disk' = file /\ backDisk' = backup
  /\ Written(p)
  /\ UNCHANGED <<file, backup, deleted, first>>
-----------------------------------------------------------------------------
(***************************************************************************)
(* Crashes.  The kernel drops the lock of a process that is gone.          *)
(***************************************************************************)
Down(procs) ==
  /\ up' = up \ procs
  /\ mem' = [p \in Procs |-> IF p \in procs THEN Empty ELSE mem[p]]
  /\ op' = [p \in Procs |-> IF p \in procs THEN NoOp ELSE op[p]]
  /\ lock' = IF lock \in procs THEN NoProc ELSE lock
  /\ UNCHANGED history

Kill(p) ==
  /\ p \in up \/ op[p].pc # "idle"
  /\ Down({p}) /\ UNCHANGED dirVars

\* Either of the two states of each name is found again.
PowerLoss ==
  /\ Down(Procs)
  /\ file' \in {file, disk} /\ backup' \in {backup, backDisk}
  /\ disk' = file' /\ backDisk' = backup'
-----------------------------------------------------------------------------
Requests(p) ==
  /\ Len(acked) < MaxAcks
  /\ \/ \E v \in Values : Create(p, v)
     \/ \E i \in Ids, r \in 1..MaxRev : Delete(p, i, r)
     \/ \E i \in Ids, r \in 1..(MaxRev - 1), v \in Values : Update(p, i, r, v)

Progress(p) == WriteAndRename(p) \/ WriteFails(p) \/ SyncDir(p)

Next ==
  \/ \E p \in Procs : OpenJobRepository(p) \/ Requests(p) \/ Progress(p) \/ Kill(p)
  \/ PowerLoss

Spec == Init /\ [][Next]_vars
-----------------------------------------------------------------------------
(***************************************************************************)
(* Safety                                                                  *)
(***************************************************************************)
\* The compare-and-swap of revisions holds across processes and crashes: no two
\* successful calls created the same id or produced the same revision of a job,
\* a deletion counting as the next revision.  In particular no id is used again.
OneAckPerRevision ==
  \A i, k \in 1..Len(acked) :
    i # k => <<acked[i].id, acked[i].rev>> # <<acked[k].id, acked[k].rev>>

\* f still shows change a, or a later one of the same job.
Shows(f, a) ==
  /\ f # NoFile /\ f.version = 2 /\ f.next > a.id
  /\ IF f.jobs[a.id] = NoJob
     THEN \E d \in deleted : d.id = a.id /\ d.rev >= a.rev
     ELSE \/ f.jobs[a.id] = [rev |-> a.rev, val |-> a.val]
          \/ f.jobs[a.id].rev > a.rev /\ a.val # Gone

\* Nothing is lost.  A successful change outlives every later failed call,
\* killed process and power loss (atomic_file.go: sync before rename, directory
\* fsync after it).  "The exact legacy bytes are backed up before the v2 file is
\* written" (job_repository.go:42): whatever a crash leaves, a version 1 file is
\* gone only when its backup is on disk; and neither a crash during the migration
\* nor a later Create loses or overwrites one of its jobs, although its next id
\* may be one that is in use.
NothingIsLost ==
  /\ \A i \in 1..Len(acked) : Shows(file, acked[i]) /\ Shows(disk, acked[i])
  /\ IsLegacy(first) => \A f \in {file, disk} : ~IsLegacy(f) => backDisk
  /\ \A f \in {file, disk}, i \in Ids :
       first # NoFile /\ first.jobs[i] # NoJob =>
         /\ f # NoFile
         /\ f.jobs[i] = NoJob => \E d \in deleted : d.id = i
         /\ f.jobs[i] # NoJob /\ f.jobs[i].rev <= 1 => f.jobs[i].val = first.jobs[i].val
  /\ \A k \in 1..Len(acked) : acked[k].rev = 1 =>
       first = NoFile \/ first.jobs[acked[k].id] = NoJob
=============================================================================
