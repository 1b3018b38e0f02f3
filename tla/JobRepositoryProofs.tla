------------------------ MODULE JobRepositoryProofs ------------------------
(***************************************************************************)
(* Proofs about JobRepository for any processes, definitions, first files  *)
(* and bounds.                                                             *)
(***************************************************************************)
EXTENDS JobRepository, WellFoundedInduction, TLAPS

(***************************************************************************)
(* Loading a file.                                                         *)
(***************************************************************************)
LEMMA Greatest ==
  ASSUME NEW S, S \subseteq Ids, S # {}
  PROVE  \E i \in S : \A k \in S : k <= i
<1> DEFINE R == OpToRel(<, Nat)
           T == {MaxId - i : i \in S}
<1>1. \A m, n \in Nat : m < n => <<m, n>> \in R
  BY DEF OpToRel
<1>2. T \subseteq Nat /\ T # {}
  <2>1. \A i \in S : MaxId - i \in Nat
    BY RepositoryAssumption DEF Ids
  <2>2. PICK i \in S : TRUE
    OBVIOUS
  <2>3. MaxId - i \in T
    OBVIOUS
  <2> QED BY <2>1, <2>3
<1>3. IsWellFoundedOn(R, Nat)
  BY NatLessThanWellFounded
<1> HIDE DEF R, T
<1>4. PICK x \in T : \A y \in T : ~(<<y, x>> \in R)
  BY <1>2, <1>3, WFMin
<1>5. PICK i \in S : x = MaxId - i
  BY DEF T
<1>6. \A k \in S : ~(MaxId - k < MaxId - i)
  BY <1>1, <1>2, <1>4, <1>5 DEF T
<1>7. \A k \in S : k <= i
  BY <1>5, <1>6, RepositoryAssumption DEF Ids
<1> QED BY <1>7

LEMMA RepairedIsUnused ==
  ASSUME NEW n \in 1..(MaxId + 1), NEW js \in [Ids -> Job \cup {NoJob}]
  PROVE  /\ Repaired(n, js) \in 1..(MaxId + 1) /\ n <= Repaired(n, js)
         /\ \A i \in Ids : js[i] # NoJob => i < Repaired(n, js)
         /\ (\A i \in Ids : js[i] # NoJob => i < n) => Repaired(n, js) = n
<1> DEFINE used == {i \in Ids : js[i] # NoJob /\ i >= n}
<1>1. CASE used = {}
  <2>1. Repaired(n, js) = n
    BY <1>1 DEF Repaired
  <2> QED BY <1>1, <2>1, RepositoryAssumption DEF Ids
<1>2. CASE used # {}
  <2>1. PICK i : i = CHOOSE u \in used : \A k \in used : k <= u
    OBVIOUS
  <2>2. i \in used /\ \A k \in used : k <= i
    BY <1>2, <2>1, Greatest
  <2>3. Repaired(n, js) = 1 + i
    BY <1>2, <2>1 DEF Repaired
  <2> QED BY <2>2, <2>3, RepositoryAssumption DEF Ids
<1> QED BY <1>1, <1>2

LEMMA LoadedType ==
  ASSUME NEW f \in Store \cup {NoFile}
  PROVE  /\ Loaded(f) \in Mem
         /\ \A i \in Ids : Loaded(f).jobs[i] # NoJob => i < Loaded(f).next
         /\ f # NoFile => f.next <= Loaded(f).next
         /\ \A i \in Ids : f # NoFile => (Loaded(f).jobs[i] = NoJob <=> f.jobs[i] = NoJob)
         /\ f # NoFile /\ ~IsLegacy(f) => Loaded(f).jobs = f.jobs
<1>1. CASE f = NoFile
  BY <1>1, RepositoryAssumption DEF Loaded, Empty, Mem, Ids
<1>2. CASE f # NoFile
  <2>1. /\ f \in Store /\ f.next \in 1..(MaxId + 1)
        /\ f.jobs \in [Ids -> Job \cup {NoJob}]
    BY <1>2 DEF Store
  <2>2. PICK n : n = Repaired(f.next, f.jobs)
    OBVIOUS
  <2>3. /\ n \in 1..(MaxId + 1) /\ f.next <= n
        /\ \A i \in Ids : f.jobs[i] # NoJob => i < n
    BY <2>1, <2>2, RepairedIsUnused
  <2>4. \A i \in Ids : f.jobs[i] # NoJob => /\ [f.jobs[i] EXCEPT !.rev = 1] \in Job
                                            /\ f.jobs[i] \in Job
    BY <2>1, RepositoryAssumption DEF Job
  <2>5. /\ Loaded(f).next = n
        /\ Loaded(f).jobs = [i \in Ids |-> IF f.jobs[i] # NoJob /\ IsLegacy(f)
                                          THEN [f.jobs[i] EXCEPT !.rev = 1]
                                          ELSE f.jobs[i]]
        /\ Loaded(f) = [next |-> Loaded(f).next, jobs |-> Loaded(f).jobs]
    BY <1>2, <2>2 DEF Loaded
  <2>6. Loaded(f).jobs \in [Ids -> Job \cup {NoJob}]
    BY <2>1, <2>4, <2>5
  <2>7. Loaded(f) \in Mem
    BY <2>3, <2>5, <2>6 DEF Mem
  <2>8. \A i \in Ids : Loaded(f).jobs[i] = NoJob <=> f.jobs[i] = NoJob
    BY <2>4, <2>5, RepositoryAssumption
  <2>9. ~IsLegacy(f) => Loaded(f).jobs = f.jobs
    BY <2>1, <2>5
  <2> QED BY <1>2, <2>3, <2>5, <2>7, <2>8, <2>9
<1> QED BY <1>1, <1>2
-----------------------------------------------------------------------------
(***************************************************************************)
(* The inductive invariant.                                                *)
(***************************************************************************)
\* Shows, with a set of deletions to come.
ShowsWith(f, a, D) ==
  /\ f # NoFile /\ f.version = 2 /\ f.next > a.id
  /\ IF f.jobs[a.id] = NoJob
     THEN \E d \in D : d.id = a.id /\ d.rev >= a.rev
     ELSE \/ f.jobs[a.id] = [rev |-> a.rev, val |-> a.val]
          \/ f.jobs[a.id].rev > a.rev /\ a.val # Gone

WasFirst(i) == first # NoFile /\ first.jobs[i] # NoJob

\* f has lost nothing: neither a successful change nor a job of the first file,
\* whose id it will not give away.
FileOK(f, D) ==
  /\ \A k \in 1..Len(acked) : ShowsWith(f, acked[k], D)
  /\ \A i \in Ids : WasFirst(i) =>
       /\ f # NoFile /\ i < Loaded(f).next
       /\ f.jobs[i] = NoJob => \E d \in D : d.id = i
       /\ f.jobs[i] # NoJob /\ f.jobs[i].rev <= 1 => f.jobs[i].val = first.jobs[i].val
  /\ IsLegacy(f) => f = first

DirInv ==
  /\ FileOK(file, deleted) /\ FileOK(disk, deleted)
  /\ IsLegacy(first) => \A f \in {file, disk} : ~IsLegacy(f) => backDisk
  /\ backDisk => backup

AckInv ==
  /\ OneAckPerRevision
  /\ \A k \in 1..Len(acked) : acked[k].rev = 1 => ~WasFirst(acked[k].id)

\* What a call was asked to do.
Asked(o) ==
  /\ o.kind \in {"open", "create", "update", "delete"}
  /\ o.kind = "create" => o.val \in Values
  /\ o.kind = "update" => o.id \in Ids /\ o.rev \in 1..(MaxRev - 1) /\ o.val \in Values
  /\ o.kind = "delete" => o.id \in Ids /\ o.rev \in 1..MaxRev /\ o.val = Gone

\* The change that call o makes to m, and what it deletes.
ChangeOf(o, m) ==
  IF o.kind = "create" THEN [id |-> m.next, rev |-> 1, val |-> o.val]
  ELSE [id |-> o.id, rev |-> o.rev + 1, val |-> o.val]
DeletedBy(o, m) == IF o.kind = "delete" THEN {ChangeOf(o, m)} ELSE {}

FileOf(m) == [version |-> 2, next |-> m.next, jobs |-> m.jobs]

\* Change c is a new one, and file f shows it.
Fresh(c, f, D) ==
  /\ c \in Ack /\ ShowsWith(f, c, D)
  /\ \A k \in 1..Len(acked) : acked[k].id = c.id => acked[k].rev < c.rev
  /\ c.rev = 1 => ~WasFirst(c.id)

\* What the holder of the lock is about to do.
OpOK(p) ==
  LET o == op[p] m == mem[p] IN
  o.pc # "idle" =>
    /\ lock = p /\ Asked(o) /\ o.target \in {"backup", "migrated", "candidate"}
    /\ o.target = "backup" =>
         IsLegacy(file) /\ m = Loaded(file) /\ (o.pc = "sync" => backup)
    /\ o.target = "migrated" =>
         /\ IsLegacy(first) /\ backDisk /\ m = Loaded(first)
         /\ acked = << >>
         /\ file = IF o.pc = "write" THEN first ELSE FileOf(m)
    /\ o.target = "candidate" =>
         /\ o.kind # "open" /\ o.data \in Mem
         /\ Fresh(ChangeOf(o, m), FileOf(o.data), deleted \cup DeletedBy(o, m))
         /\ IsLegacy(first) => backDisk
         /\ IF o.pc = "write"
            THEN FileOK(FileOf(o.data), deleted \cup DeletedBy(o, m))
            ELSE file = FileOf(o.data) /\ DeletedBy(o, m) \subseteq deleted

RepositoryInv ==
  /\ TypeOK /\ DirInv /\ AckInv /\ \A p \in Procs : OpOK(p)
-----------------------------------------------------------------------------
(***************************************************************************)
(* A new file loses nothing.                                               *)
(***************************************************************************)
LEMMA FileOfType ==
  ASSUME NEW m \in Mem
  PROVE  /\ FileOf(m) \in Store /\ FileOf(m) # NoFile /\ ~IsLegacy(FileOf(m))
         /\ FileOf(m).next = m.next /\ FileOf(m).jobs = m.jobs
         /\ FileOf(m).version = 2
  BY RepositoryAssumption DEF FileOf, Mem, Store, IsLegacy

\* The migrated file, loaded again, is what was in memory.
LEMMA MigratedOK ==
  ASSUME TypeOK, IsLegacy(first), acked = << >>, NEW D
  PROVE  LET m == Loaded(first) IN
         m \in Mem /\ FileOK(FileOf(m), D) /\ Loaded(FileOf(m)) = m
<1> DEFINE m == Loaded(first)
           f == FileOf(m)
<1>1. first \in Store /\ first # NoFile
  BY DEF IsLegacy, TypeOK
<1>2. /\ m \in Mem /\ \A i \in Ids : m.jobs[i] # NoJob => i < m.next
      /\ \A i \in Ids : m.jobs[i] = NoJob <=> first.jobs[i] = NoJob
  BY <1>1, LoadedType
<1>3. \A i \in Ids : first.jobs[i] # NoJob => m.jobs[i] = [first.jobs[i] EXCEPT !.rev = 1]
  BY <1>1 DEF Loaded
<1>4. \A i \in Ids : first.jobs[i] # NoJob => m.jobs[i].val = first.jobs[i].val
  BY <1>1, <1>3 DEF Store, Job
<1> HIDE DEF m
<1>5. /\ f \in Store /\ f # NoFile /\ ~IsLegacy(f) /\ f.next = m.next
      /\ f.jobs = m.jobs /\ f.version = 2
  BY <1>2, FileOfType
<1>6. m.next \in 1..(MaxId + 1) /\ m.jobs \in [Ids -> Job \cup {NoJob}]
      /\ m = [next |-> m.next, jobs |-> m.jobs]
  BY <1>2 DEF Mem
<1> HIDE DEF f
<1>7. Loaded(f) = m
  <2>1. Repaired(m.next, m.jobs) = m.next
    BY <1>2, <1>6, RepairedIsUnused
  <2>2. Loaded(f).jobs = m.jobs
    BY <1>5, LoadedType
  <2>3. Loaded(f).next = Repaired(m.next, m.jobs) /\ Loaded(f) \in Mem
    BY <1>5, LoadedType DEF Loaded
  <2>4. Loaded(f) = [next |-> Loaded(f).next, jobs |-> Loaded(f).jobs]
    BY <2>3 DEF Mem
  <2> QED BY <1>6, <2>1, <2>2, <2>3, <2>4
<1>8. FileOK(f, D)
  BY <1>2, <1>4, <1>5, <1>7 DEF FileOK, WasFirst
<1> QED BY <1>2, <1>7, <1>8 DEF f, m

\* The candidate of a call that was not refused shows the call's change, which
\* is a new one, and all that the file it was made from shows.
LEMMA CandidateOK ==
  ASSUME TypeOK, NEW f \in Store \cup {NoFile}, FileOK(f, deleted), ~IsLegacy(f),
         NEW o, Asked(o), o.kind # "open", NEW m, m = Loaded(f),
         ~Refused(o, m), Fits(o, m)
  PROVE  LET N == Candidate(o, m)
             D == deleted \cup DeletedBy(o, m)
         IN  N \in Mem /\ FileOK(FileOf(N), D) /\ Fresh(ChangeOf(o, m), FileOf(N), D)
<1> DEFINE N == Candidate(o, m)
           D == deleted \cup DeletedBy(o, m)
           c == ChangeOf(o, m)
           g == FileOf(N)
<1>1. /\ m \in Mem /\ m.next \in 1..(MaxId + 1) /\ m.jobs \in [Ids -> Job \cup {NoJob}]
      /\ \A i \in Ids : m.jobs[i] # NoJob => i < m.next
      /\ f # NoFile => m.jobs = f.jobs /\ f.next <= m.next
  BY LoadedType DEF Mem
\* What the changes and the first file say of m.
<1>2. ASSUME NEW k \in 1..Len(acked), NEW a, a = acked[k]
      PROVE  /\ a \in Ack /\ a.id < m.next
             /\ m.jobs[a.id] = NoJob => \E d \in D : d.id = a.id /\ d.rev >= a.rev
             /\ m.jobs[a.id] # NoJob =>
                  \/ m.jobs[a.id] = [rev |-> a.rev, val |-> a.val]
                  \/ m.jobs[a.id].rev > a.rev /\ a.val # Gone
  <2>1. a \in Ack
    BY <1>2 DEF TypeOK
  <2>2. ShowsWith(f, a, deleted)
    BY <1>2 DEF FileOK
  <2>3. f # NoFile /\ f \in Store /\ f.next > a.id
    BY <2>2 DEF ShowsWith
  <2>4. a.id < m.next
    BY <1>1, <2>1, <2>3 DEF Store, Ack, Ids
  <2> QED BY <1>1, <2>1, <2>2, <2>3, <2>4 DEF ShowsWith
<1>3. ASSUME NEW i \in Ids, WasFirst(i)
      PROVE  /\ i < m.next
             /\ m.jobs[i] = NoJob => \E d \in D : d.id = i
             /\ m.jobs[i] # NoJob /\ m.jobs[i].rev <= 1 => m.jobs[i].val = first.jobs[i].val
  BY <1>1, <1>3 DEF FileOK
\* What the candidate is, id by id.
<1>4. /\ c.id \in Ids /\ c \in Ack
      /\ o.kind = "create" => c.id = m.next /\ c.rev = 1 /\ N.next = m.next + 1
      /\ o.kind # "create" => /\ c.id = o.id /\ c.rev = o.rev + 1 /\ N.next = m.next
                              /\ m.jobs[c.id] # NoJob /\ m.jobs[c.id].rev = o.rev
                              /\ m.jobs[c.id].val \in Values /\ o.rev \in 1..MaxRev
  <2>1. CASE o.kind = "create"
    BY <1>1, <2>1, RepositoryAssumption DEF Asked, Fits, ChangeOf, Candidate, Ids, Ack
  <2>2. CASE o.kind = "update"
    <3>1. m.jobs[o.id] # NoJob /\ m.jobs[o.id].rev = o.rev
      BY <2>2 DEF Refused
    <3>2. o.id \in Ids /\ o.rev \in 1..(MaxRev - 1) /\ o.val \in Values
      BY <2>2 DEF Asked
    <3>3. m.jobs[o.id] \in Job
      BY <1>1, <3>1, <3>2
    <3>4. N.next = m.next
      BY <1>1, <2>2 DEF Candidate, Mem
    <3> QED BY <2>2, <3>1, <3>2, <3>3, <3>4, RepositoryAssumption DEF ChangeOf, Ack, Job
  <2>3. CASE o.kind = "delete"
    <3>1. m.jobs[o.id] # NoJob /\ m.jobs[o.id].rev = o.rev
      BY <2>3 DEF Refused
    <3>2. o.id \in Ids /\ o.rev \in 1..MaxRev /\ o.val = Gone
      BY <2>3 DEF Asked
    <3>3. m.jobs[o.id] \in Job
      BY <1>1, <3>1, <3>2
    <3>4. N.next = m.next
      BY <1>1, <2>3 DEF Candidate, Mem
    <3> QED BY <2>3, <3>1, <3>2, <3>3, <3>4, RepositoryAssumption DEF ChangeOf, Ack, Job
  <2> QED BY <2>1, <2>2, <2>3 DEF Asked
<1>5. /\ o.kind = "delete" => c \in D /\ c.val = Gone
      /\ o.kind # "delete" => c.val \in Values /\ c.rev <= MaxRev
  BY RepositoryAssumption DEF DeletedBy, ChangeOf, Asked
<1>6. N.jobs = [m.jobs EXCEPT ![c.id] = IF o.kind = "delete" THEN NoJob
                                        ELSE [rev |-> c.rev, val |-> c.val]]
  <2>1. CASE o.kind = "create"
    BY <2>1 DEF Candidate, ChangeOf
  <2>2. CASE o.kind = "update"
    BY <1>1, <2>2 DEF Candidate, ChangeOf, Mem
  <2>3. CASE o.kind = "delete"
    BY <1>1, <2>3 DEF Candidate, ChangeOf, Mem
  <2> QED BY <2>1, <2>2, <2>3 DEF Asked
<1>7. N = [next |-> N.next, jobs |-> N.jobs]
  BY <1>1 DEF Candidate, Asked, Mem
<1>8. /\ m.next <= N.next /\ N.next \in 1..(MaxId + 1) /\ c.id < N.next
  BY <1>1, <1>4, RepositoryAssumption DEF Ids
<1> HIDE DEF N, c, D
<1>9. /\ o.kind = "delete" => N.jobs[c.id] = NoJob
      /\ o.kind # "delete" => /\ N.jobs[c.id] = [rev |-> c.rev, val |-> c.val]
                              /\ N.jobs[c.id] \in Job
      /\ \A i \in Ids : i # c.id => N.jobs[i] = m.jobs[i]
  BY <1>1, <1>4, <1>5, <1>6, RepositoryAssumption DEF Job, Ack
<1>10. N.jobs \in [Ids -> Job \cup {NoJob}]
  BY <1>1, <1>4, <1>6, <1>9
<1>11. N \in Mem
  BY <1>7, <1>8, <1>10 DEF Mem
<1>12. /\ g \in Store /\ g # NoFile /\ ~IsLegacy(g) /\ g.next = N.next /\ g.jobs = N.jobs
       /\ g.version = 2 /\ N.next <= Loaded(g).next /\ Loaded(g).next \in Nat
  BY <1>11, FileOfType, LoadedType, RepositoryAssumption DEF Mem
<1> HIDE DEF g
<1>13. NoJob # [rev |-> c.rev, val |-> c.val] \/ o.kind = "delete"
  BY <1>9, RepositoryAssumption
<1>14. ASSUME NEW k \in 1..Len(acked), NEW a, a = acked[k]
       PROVE  ShowsWith(g, a, D) /\ (a.id = c.id => a.rev < c.rev)
  <2>0. a \in Ack /\ a.id < m.next
    BY <1>2, <1>14
  <2>1. a \in Ack /\ a.id < m.next /\ a.id \in Ids /\ a.rev \in Nat
    BY <2>0, RepositoryAssumption DEF Ack
  <2>2. g.next > a.id
    BY <1>1, <1>8, <1>12, <2>1 DEF Ids
  <2>3. CASE a.id # c.id
    BY <1>2, <1>9, <1>12, <1>14, <2>1, <2>2, <2>3 DEF ShowsWith
  <2>4. CASE a.id = c.id
    <3>1. o.kind # "create"
      BY <1>1, <1>4, <2>1, <2>4 DEF Ids
    <3>2. \/ m.jobs[c.id] = [rev |-> a.rev, val |-> a.val]
          \/ m.jobs[c.id].rev > a.rev /\ a.val # Gone
      BY <1>2, <1>4, <1>14, <2>4, <3>1
    <3>3. a.rev <= o.rev /\ a.val # Gone
      BY <1>4, <2>1, <3>1, <3>2, RepositoryAssumption
    <3>4. a.rev < c.rev /\ c.rev >= a.rev
      BY <1>4, <2>1, <3>1, <3>3
    <3>5. CASE o.kind = "delete"
      BY <1>5, <1>9, <1>12, <2>2, <2>4, <3>4, <3>5 DEF ShowsWith
    <3>6. CASE o.kind # "delete"
      BY <1>9, <1>12, <1>13, <2>2, <2>4, <3>3, <3>4, <3>6 DEF ShowsWith
    <3> QED BY <3>4, <3>5, <3>6
  <2> QED BY <2>3, <2>4
<1>15. ASSUME NEW i \in Ids, WasFirst(i)
       PROVE  /\ i < Loaded(g).next
              /\ g.jobs[i] = NoJob => \E d \in D : d.id = i
              /\ g.jobs[i] # NoJob /\ g.jobs[i].rev <= 1 =>
                   g.jobs[i].val = first.jobs[i].val
              /\ i = c.id => c.rev > 1
  <2>1. i < m.next /\ i < Loaded(g).next
    BY <1>1, <1>3, <1>8, <1>12, <1>15 DEF Ids
  <2>2. CASE i # c.id
    BY <1>3, <1>9, <1>12, <1>15, <2>1, <2>2
  <2>3. CASE i = c.id
    <3>1. o.kind # "create" /\ c.rev > 1
      BY <1>1, <1>4, <2>1, <2>3 DEF Ids
    <3>2. CASE o.kind = "delete"
      BY <1>5, <1>9, <1>12, <2>1, <2>3, <3>1, <3>2
    <3>3. CASE o.kind # "delete"
      BY <1>4, <1>9, <1>12, <1>13, <2>1, <2>3, <3>1, <3>3
    <3> QED BY <3>2, <3>3
  <2> QED BY <2>2, <2>3
<1>16. FileOK(g, D)
  BY <1>12, <1>14, <1>15 DEF FileOK
<1>17. ShowsWith(g, c, D)
  <2>1. g.next > c.id
    BY <1>4, <1>8, <1>12 DEF Ids
  <2>2. CASE o.kind = "delete"
    <3>1. c \in D /\ c.rev >= c.rev
      BY <1>4, <1>5, <2>2 DEF Ack
    <3> QED BY <1>9, <1>12, <2>1, <2>2, <3>1 DEF ShowsWith
  <2>3. CASE o.kind # "delete"
    BY <1>9, <1>12, <1>13, <2>1, <2>3 DEF ShowsWith
  <2> QED BY <2>2, <2>3
<1>18. Fresh(c, g, D)
  <2>1. c.rev = 1 => ~WasFirst(c.id)
    BY <1>4, <1>15
  <2> QED BY <1>4, <1>14, <1>17, <2>1 DEF Fresh
<1> QED BY <1>11, <1>16, <1>18 DEF N, c, D, g
-----------------------------------------------------------------------------
(***************************************************************************)
(* The steps.                                                              *)
(***************************************************************************)
LEMMA NoOpType == NoOp \in Op /\ NoOp.pc = "idle"
  BY RepositoryAssumption DEF NoOp, Op, Empty, Mem, Ids

LEMMA InitRepository == Init => RepositoryInv
<1> SUFFICES ASSUME Init
             PROVE  RepositoryInv
  OBVIOUS
<1>1. /\ file \in Store \cup {NoFile} /\ disk = file /\ first = file
      /\ backup = FALSE /\ backDisk = FALSE /\ lock = NoProc /\ up = {}
      /\ mem = [p \in Procs |-> Empty] /\ op = [p \in Procs |-> NoOp]
      /\ acked = << >> /\ deleted = {}
  BY RepositoryAssumption DEF Init
<1>2. TypeOK
  <2>1. Empty \in Mem
    BY RepositoryAssumption DEF Empty, Mem, Ids
  <2>2. backup \in BOOLEAN /\ backDisk \in BOOLEAN
    BY <1>1
  <2>3. acked \in Seq(Ack) /\ deleted \subseteq Ack
    BY <1>1
  <2> QED BY <1>1, <2>1, <2>2, <2>3, NoOpType DEF TypeOK
<1>3. FileOK(file, deleted)
  <2>1. ASSUME NEW i \in Ids, WasFirst(i)
        PROVE  file # NoFile /\ i < Loaded(file).next
    BY <1>1, <2>1, LoadedType DEF WasFirst
  <2> QED BY <1>1, <2>1 DEF FileOK, WasFirst
<1>4. DirInv
  BY <1>1, <1>3 DEF DirInv
<1>5. AckInv
  BY <1>1 DEF AckInv, OneAckPerRevision
<1>6. \A p \in Procs : OpOK(p)
  BY <1>1, NoOpType DEF OpOK
<1> QED BY <1>2, <1>4, <1>5, <1>6 DEF RepositoryInv

\* The lock is exclusive: nobody else is in a call.
LEMMA OthersIdle ==
  ASSUME RepositoryInv, NEW p \in Procs, lock \in {p, NoProc}
  PROVE  \A q \in Procs \ {p} : op[q].pc = "idle"
  BY RepositoryAssumption DEF RepositoryInv, OpOK

LEMMA AllOps ==
  ASSUME NEW p \in Procs, OpOK(p)',
         \A q \in Procs \ {p} : op[q].pc = "idle" /\ op'[q] = op[q]
  PROVE  \A q \in Procs : OpOK(q)'
<1>1. \A q \in Procs \ {p} : OpOK(q)'
  BY DEF OpOK
<1> QED BY <1>1

LEMMA MoreDeletions ==
  ASSUME NEW f, NEW D, NEW E, D \subseteq E, FileOK(f, D)
  PROVE  FileOK(f, E)
<1>1. \A k \in 1..Len(acked) : ShowsWith(f, acked[k], E)
  BY DEF FileOK, ShowsWith
<1> QED BY <1>1 DEF FileOK

\* What Decide does once m is loaded from f, which is not of version 1.
LEMMA DecideStep ==
  ASSUME TypeOK, NEW p \in Procs, NEW o \in Op, Asked(o),
         NEW f \in Store \cup {NoFile}, FileOK(f, deleted), ~IsLegacy(f),
         NEW m, m = Loaded(f), Decide(p, o, m)
  PROVE  /\ up' \subseteq Procs /\ lock' \in Procs \cup {NoProc}
         /\ op' \in [Procs -> Op] /\ \A q \in Procs \ {p} : op'[q] = op[q]
         /\ op'[p].pc # "idle" =>
              LET x == op'[p]
                  D == deleted \cup DeletedBy(x, m)
              IN  /\ lock' = p /\ Asked(x) /\ x.pc = "write"
                  /\ x.target = "candidate" /\ x.kind # "open" /\ x.data \in Mem
                  /\ FileOK(FileOf(x.data), D)
                  /\ Fresh(ChangeOf(x, m), FileOf(x.data), D)
<1>1. CASE op' = [op EXCEPT ![p] = NoOp] /\ lock' = NoProc /\ up' \in {up, up \cup {p}}
  BY <1>1, NoOpType DEF TypeOK
<1>2. CASE /\ o.kind # "open" /\ ~Refused(o, m) /\ Fits(o, m) /\ up' = up /\ lock' = p
           /\ op' = [op EXCEPT ![p] = [o EXCEPT !.pc = "write", !.target = "candidate",
                                                !.data = Candidate(o, m)]]
  <2>1. PICK N : N = Candidate(o, m)
    OBVIOUS
  <2>2. PICK x : x = [o EXCEPT !.pc = "write", !.target = "candidate", !.data = N]
    OBVIOUS
  <2>3. LET D == deleted \cup DeletedBy(o, m) IN
        N \in Mem /\ FileOK(FileOf(N), D) /\ Fresh(ChangeOf(o, m), FileOf(N), D)
    BY <1>2, <2>1, CandidateOK
  <2>4. /\ x \in Op /\ x.pc = "write" /\ x.target = "candidate" /\ x.data = N
        /\ x.kind = o.kind /\ x.id = o.id /\ x.rev = o.rev /\ x.val = o.val
    BY <2>2, <2>3 DEF Op
  <2>5. ChangeOf(x, m) = ChangeOf(o, m) /\ DeletedBy(x, m) = DeletedBy(o, m)
    BY <2>4 DEF ChangeOf, DeletedBy
  <2>6. Asked(x)
    BY <2>4 DEF Asked
  <2>7. op' = [op EXCEPT ![p] = x] /\ op'[p] = x
    BY <1>2, <2>1, <2>2 DEF TypeOK
  <2> QED BY <1>2, <2>3, <2>4, <2>5, <2>6, <2>7 DEF TypeOK
<1> QED BY <1>1, <1>2 DEF Decide, Return

LEMMA CallStep ==
  ASSUME RepositoryInv, NEW p \in Procs, NEW o \in Op, Asked(o), Call(p, o)
  PROVE  RepositoryInv'
<1>1. /\ lock = NoProc /\ mem' = [mem EXCEPT ![p] = Loaded(file)]
      /\ UNCHANGED <<dirVars, history>>
  BY DEF Call
<1>2. /\ TypeOK /\ DirInv /\ AckInv /\ file \in Store \cup {NoFile}
  BY DEF RepositoryInv, TypeOK
<1>3. Loaded(file) \in Mem /\ mem'[p] = Loaded(file)
  BY <1>1, <1>2, LoadedType DEF TypeOK
<1>4. DirInv' /\ AckInv'
  BY <1>1, <1>2 DEF DirInv, AckInv, FileOK, ShowsWith, WasFirst, OneAckPerRevision,
     dirVars, history
<1>5. ASSUME up' \subseteq Procs, lock' \in Procs \cup {NoProc}, op' \in [Procs -> Op]
      PROVE  TypeOK'
  BY <1>1, <1>2, <1>3, <1>5 DEF TypeOK, dirVars, history
<1>6. CASE IsLegacy(file)
  <2>1. PICK x : x = [o EXCEPT !.pc = "write", !.target = "backup"]
    OBVIOUS
  <2>2. op' = [op EXCEPT ![p] = x] /\ lock' = p /\ up' = up
    BY <1>6, <2>1 DEF Call
  <2>3. /\ x \in Op /\ x.pc = "write" /\ x.target = "backup"
        /\ x.kind = o.kind /\ x.id = o.id /\ x.rev = o.rev /\ x.val = o.val
    BY <2>1 DEF Op
  <2>4. Asked(x)
    BY <2>3 DEF Asked
  <2>5. op' \in [Procs -> Op] /\ op'[p] = x /\ \A q \in Procs \ {p} : op'[q] = op[q]
    BY <1>2, <2>2, <2>3 DEF TypeOK
  <2>6. TypeOK'
    BY <1>2, <1>5, <2>2, <2>5 DEF TypeOK
  <2>7. OpOK(p)'
    BY <1>1, <1>3, <1>6, <2>2, <2>3, <2>4, <2>5 DEF OpOK, dirVars
  <2> QED BY <1>1, <1>4, <2>5, <2>6, <2>7, OthersIdle, AllOps DEF RepositoryInv
<1>7. CASE ~IsLegacy(file)
  <2>1. PICK m : m = Loaded(file)
    OBVIOUS
  <2>2. Decide(p, o, m)
    BY <1>7, <2>1 DEF Call
  <2>3. /\ up' \subseteq Procs /\ lock' \in Procs \cup {NoProc}
        /\ op' \in [Procs -> Op] /\ \A q \in Procs \ {p} : op'[q] = op[q]
        /\ op'[p].pc # "idle" =>
             LET x == op'[p]
                 D == deleted \cup DeletedBy(x, m)
             IN  /\ lock' = p /\ Asked(x) /\ x.pc = "write"
                 /\ x.target = "candidate" /\ x.kind # "open" /\ x.data \in Mem
                 /\ FileOK(FileOf(x.data), D)
                 /\ Fresh(ChangeOf(x, m), FileOf(x.data), D)
    BY <1>2, <1>7, <2>1, <2>2, DecideStep DEF DirInv
  <2>4. TypeOK'
    BY <1>5, <2>3
  <2>5. IsLegacy(first) => backDisk
    BY <1>2, <1>7 DEF DirInv
  <2>6. OpOK(p)'
    BY <1>1, <1>3, <2>1, <2>3, <2>5 DEF OpOK, FileOK, Fresh, ShowsWith, WasFirst,
       dirVars, history
  <2> QED BY <1>1, <1>4, <2>3, <2>4, <2>6, OthersIdle, AllOps DEF RepositoryInv
<1> QED BY <1>6, <1>7

\* Change(p) and NewFile(p) in the terms used here.
LEMMA ChangeIs ==
  ASSUME NEW p \in Procs, op[p].kind \in {"create", "update", "delete"}
  PROVE  Change(p) = ChangeOf(op[p], mem[p])
  BY DEF Change, ChangeOf

LEMMA WriteAndRenameStep ==
  ASSUME RepositoryInv, NEW p \in Procs, WriteAndRename(p)
  PROVE  RepositoryInv'
<1>1. /\ op[p].pc = "write" /\ op' = [op EXCEPT ![p].pc = "sync"]
      /\ UNCHANGED <<disk, backDisk, lock, up, mem, acked, first>>
  BY DEF WriteAndRename
<1>2. TypeOK /\ DirInv /\ AckInv /\ OpOK(p) /\ op[p] \in Op /\ mem[p] \in Mem
  BY DEF RepositoryInv, TypeOK
<1>3. PICK o, x, m : o = op[p] /\ x = op'[p] /\ m = mem[p]
  OBVIOUS
<1>4. /\ x \in Op /\ x.pc = "sync" /\ x.target = o.target /\ x.data = o.data
      /\ x.kind = o.kind /\ x.id = o.id /\ x.rev = o.rev /\ x.val = o.val
  <2>1. x = [o EXCEPT !.pc = "sync"]
    BY <1>1, <1>2, <1>3 DEF TypeOK
  <2> QED BY <1>2, <1>3, <2>1 DEF Op
<1>5. op' \in [Procs -> Op] /\ \A q \in Procs \ {p} : op'[q] = op[q]
  BY <1>1, <1>2, <1>3, <1>4 DEF TypeOK
<1>6. /\ Asked(x) /\ ChangeOf(x, m) = ChangeOf(o, m)
      /\ DeletedBy(x, m) = DeletedBy(o, m)
  BY <1>1, <1>2, <1>3, <1>4 DEF Asked, ChangeOf, DeletedBy, OpOK
<1>7. lock = p /\ lock' = p /\ mem'[p] = m /\ mem' = mem
  BY <1>1, <1>2, <1>3 DEF OpOK
<1>8. \A q \in Procs \ {p} : op[q].pc = "idle" /\ op'[q] = op[q]
  BY <1>5, <1>7, OthersIdle
<1>9. AckInv'
  BY <1>1, <1>2 DEF AckInv, OneAckPerRevision, WasFirst
<1>10. ASSUME file' \in Store \cup {NoFile}, backup' \in BOOLEAN, deleted' \subseteq Ack
       PROVE  TypeOK'
  BY <1>1, <1>2, <1>5, <1>10 DEF TypeOK
<1>12. CASE o.target = "backup"
  <2>1. backup' = TRUE /\ file' = file /\ deleted' = deleted
    BY <1>3, <1>12 DEF WriteAndRename
  <2>2. TypeOK'
    BY <1>2, <1>10, <2>1 DEF TypeOK
  <2>3. DirInv'
    BY <1>1, <1>2, <2>1 DEF DirInv, FileOK, ShowsWith, WasFirst
  <2>4. OpOK(p)'
    BY <1>1, <1>2, <1>3, <1>4, <1>6, <1>7, <1>12, <2>1 DEF OpOK
  <2> QED BY <1>8, <1>9, <2>2, <2>3, <2>4, AllOps DEF RepositoryInv
<1>13. CASE o.target = "migrated"
  <2>1. backup' = backup /\ file' = FileOf(m) /\ deleted' = deleted
    BY <1>3, <1>13 DEF WriteAndRename, NewFile, FileOf
  <2>2. IsLegacy(first) /\ backDisk /\ m = Loaded(first) /\ acked = << >>
    BY <1>1, <1>2, <1>3, <1>13 DEF OpOK
  <2>3. m \in Mem /\ FileOK(FileOf(m), deleted) /\ FileOf(m) \in Store
    BY <1>2, <2>2, MigratedOK, FileOfType
  <2>4. TypeOK'
    BY <1>2, <1>10, <2>1, <2>3 DEF TypeOK
  <2>5. DirInv'
    BY <1>1, <1>2, <2>1, <2>2, <2>3 DEF DirInv, FileOK, ShowsWith, WasFirst
  <2>6. OpOK(p)'
    BY <1>1, <1>3, <1>4, <1>6, <1>7, <1>13, <2>1, <2>2 DEF OpOK
  <2> QED BY <1>8, <1>9, <2>4, <2>5, <2>6, AllOps DEF RepositoryInv
<1>14. CASE o.target = "candidate"
  <2> DEFINE E == deleted \cup DeletedBy(o, m)
  <2>1. /\ o.kind \in {"create", "update", "delete"} /\ o.data \in Mem
        /\ Fresh(ChangeOf(o, m), FileOf(o.data), E) /\ FileOK(FileOf(o.data), E)
        /\ IsLegacy(first) => backDisk
    BY <1>1, <1>2, <1>3, <1>14 DEF OpOK, Asked
  <2>2. backup' = backup /\ file' = FileOf(o.data)
    BY <1>3, <1>14 DEF WriteAndRename, NewFile, FileOf
  <2>3. deleted' = E
    <3>1. Change(p) = ChangeOf(o, m)
      BY <1>3, <2>1, ChangeIs
    <3> QED BY <1>3, <1>14, <3>1 DEF WriteAndRename, DeletedBy
  <2>4. ChangeOf(o, m) \in Ack
    BY <2>1 DEF Fresh
  <2>5. file' \in Store /\ E \subseteq Ack
    BY <1>2, <2>1, <2>2, <2>4, FileOfType DEF DeletedBy, TypeOK
  <2>6. TypeOK'
    BY <1>2, <1>10, <2>2, <2>3, <2>5 DEF TypeOK
  <2>7. FileOK(disk, E)
    BY <1>2, MoreDeletions DEF DirInv
  <2>8. PICK g, F : g = FileOf(o.data) /\ F = E
    OBVIOUS
  <2> HIDE DEF E
  <2>9. DirInv'
    BY <1>1, <1>2, <2>1, <2>2, <2>3, <2>7, <2>8
       DEF DirInv, FileOK, ShowsWith, WasFirst
  <2>10. /\ deleted' \cup DeletedBy(o, m) = deleted' /\ DeletedBy(o, m) \subseteq deleted'
    BY <2>3 DEF E
  <2>11. PICK c : c = ChangeOf(o, m)
    OBVIOUS
  <2>12. Fresh(c, g, F)'
    BY <1>1, <2>1, <2>8, <2>11 DEF Fresh, ShowsWith, WasFirst
  <2>13. OpOK(p)'
    BY <1>1, <1>3, <1>4, <1>6, <1>7, <1>14, <2>1, <2>2, <2>3, <2>8, <2>10, <2>11, <2>12
       DEF OpOK
  <2> QED BY <1>8, <1>9, <2>6, <2>9, <2>13, AllOps DEF RepositoryInv
<1> QED BY <1>1, <1>2, <1>3, <1>12, <1>13, <1>14 DEF OpOK

LEMMA WriteFailsStep ==
  ASSUME RepositoryInv, NEW p \in Procs, WriteFails(p)
  PROVE  RepositoryInv'
<1>1. /\ op[p].pc # "idle" /\ op' = [op EXCEPT ![p] = NoOp] /\ lock' = NoProc
      /\ UNCHANGED <<dirVars, up, mem, history>>
  BY DEF WriteFails, Return
<1>2. TypeOK /\ DirInv /\ AckInv /\ OpOK(p)
  BY DEF RepositoryInv
<1>3. op' \in [Procs -> Op] /\ op'[p].pc = "idle" /\ \A q \in Procs \ {p} : op'[q] = op[q]
  BY <1>1, <1>2, NoOpType DEF TypeOK
<1>4. TypeOK'
  BY <1>1, <1>2, <1>3 DEF TypeOK, dirVars, history
<1>5. DirInv' /\ AckInv'
  BY <1>1, <1>2 DEF DirInv, AckInv, FileOK, ShowsWith, WasFirst, OneAckPerRevision,
     dirVars, history
<1>6. OpOK(p)'
  BY <1>3 DEF OpOK
<1>7. lock = p
  BY <1>1, <1>2 DEF OpOK
<1> QED BY <1>3, <1>4, <1>5, <1>6, <1>7, OthersIdle, AllOps DEF RepositoryInv

\* A new change joins the successful ones, when the file shows it.
LEMMA AckStep ==
  ASSUME TypeOK, AckInv, FileOK(file, deleted), NEW c, Fresh(c, file, deleted),
         acked' = Append(acked, c), UNCHANGED <<file, deleted, first>>
  PROVE  AckInv' /\ FileOK(file, deleted)' /\ acked' \in Seq(Ack)
<1>1. acked \in Seq(Ack) /\ c \in Ack
  BY DEF TypeOK, Fresh
<1>2. /\ acked' \in Seq(Ack) /\ Len(acked') = Len(acked) + 1 /\ Len(acked) \in Nat
      /\ acked'[Len(acked) + 1] = c
      /\ \A k \in 1..Len(acked) : acked'[k] = acked[k]
  BY <1>1
<1>3. \A k \in 1..Len(acked') : k \in 1..Len(acked) \/ k = Len(acked) + 1
  BY <1>2
<1>4. ASSUME NEW k \in 1..Len(acked)
      PROVE  acked[k].id # c.id \/ acked[k].rev # c.rev
  BY <1>1 DEF Fresh, Ack
<1>5. OneAckPerRevision'
  <2> SUFFICES ASSUME NEW i \in 1..Len(acked'), NEW k \in 1..Len(acked'), i # k
               PROVE  acked'[i].id # acked'[k].id \/ acked'[i].rev # acked'[k].rev
    BY DEF OneAckPerRevision
  <2>1. CASE i \in 1..Len(acked) /\ k \in 1..Len(acked)
    BY <1>2, <2>1 DEF AckInv, OneAckPerRevision
  <2>2. CASE i = Len(acked) + 1 /\ k \in 1..Len(acked)
    BY <1>2, <1>4, <2>2
  <2>3. CASE i \in 1..Len(acked) /\ k = Len(acked) + 1
    BY <1>2, <1>4, <2>3
  <2> QED BY <1>3, <2>1, <2>2, <2>3
<1>6. \A k \in 1..Len(acked') : acked'[k].rev = 1 => ~WasFirst(acked'[k].id)
  BY <1>2, <1>3 DEF AckInv, Fresh
<1>7. \A k \in 1..Len(acked') : ShowsWith(file, acked'[k], deleted)
  BY <1>2, <1>3 DEF Fresh, FileOK
<1>8. AckInv'
  BY <1>5, <1>6 DEF AckInv, WasFirst
<1>9. FileOK(file, deleted)'
  BY <1>7 DEF FileOK, ShowsWith, WasFirst
<1> QED BY <1>2, <1>8, <1>9

LEMMA SyncDirStep ==
  ASSUME RepositoryInv, NEW p \in Procs, SyncDir(p)
  PROVE  RepositoryInv'
<1>1. /\ op[p].pc = "sync" /\ disk' = file /\ backDisk' = backup /\ Written(p)
      /\ UNCHANGED <<file, backup, deleted, first>>
  BY DEF SyncDir
<1>2. /\ TypeOK /\ DirInv /\ AckInv /\ OpOK(p) /\ op[p] \in Op /\ mem[p] \in Mem
      /\ file \in Store \cup {NoFile} /\ FileOK(file, deleted)
  BY DEF RepositoryInv, TypeOK, DirInv
<1>3. PICK o, m : o = op[p] /\ m = mem[p]
  OBVIOUS
<1>4. /\ lock = p /\ Asked(o) /\ o.target \in {"backup", "migrated", "candidate"}
      /\ \A q \in Procs \ {p} : op[q].pc = "idle"
  BY <1>1, <1>2, <1>3, OthersIdle DEF OpOK
<1>5. ASSUME FileOK(file, deleted)'
      PROVE  DirInv'
  <2>1. FileOK(disk, deleted)'
    BY <1>1, <1>5 DEF FileOK, ShowsWith, WasFirst
  <2>2. (IsLegacy(first) => \A f \in {file, disk} : ~IsLegacy(f) => backDisk)'
    BY <1>1, <1>2 DEF DirInv
  <2> QED BY <1>1, <1>5, <2>1, <2>2 DEF DirInv
<1>6. ASSUME acked' = acked
      PROVE  DirInv' /\ AckInv'
  <2>1. FileOK(file, deleted)'
    BY <1>1, <1>2, <1>6 DEF FileOK, ShowsWith, WasFirst
  <2>2. AckInv'
    BY <1>1, <1>2, <1>6 DEF AckInv, OneAckPerRevision, WasFirst
  <2> QED BY <1>5, <2>1, <2>2
<1>7. disk' \in Store \cup {NoFile} /\ backDisk' \in BOOLEAN /\ backup' \in BOOLEAN
  BY <1>1, <1>2 DEF TypeOK
<1>8. ASSUME op' \in [Procs -> Op], lock' \in Procs \cup {NoProc}, up' \subseteq Procs,
             mem' \in [Procs -> Mem], acked' \in Seq(Ack)
      PROVE  TypeOK'
  BY <1>1, <1>2, <1>7, <1>8 DEF TypeOK
<1>9. CASE o.target = "backup"
  <2>1. /\ op' = [op EXCEPT ![p].pc = "write", ![p].target = "migrated"]
        /\ UNCHANGED <<lock, up, mem, acked>>
    BY <1>1, <1>3, <1>9 DEF Written
  <2>2. IsLegacy(file) /\ m = Loaded(file) /\ backup
    BY <1>1, <1>2, <1>3, <1>9 DEF OpOK
  <2>3. file = first
    BY <1>2, <2>2 DEF FileOK
  <2>4. acked = << >>
    <3>1. \A k \in 1..Len(acked) : FALSE
      BY <1>2, <2>2 DEF FileOK, ShowsWith, IsLegacy
    <3>2. acked \in Seq(Ack) /\ Len(acked) \in Nat
      BY <1>2 DEF TypeOK
    <3>3. Len(acked) = 0
      BY <3>1, <3>2
    <3> QED BY <3>2, <3>3
  <2>5. PICK x : x = [o EXCEPT !.pc = "write", !.target = "migrated"]
    OBVIOUS
  <2>6. op'[p] = x /\ op' = [op EXCEPT ![p] = x]
    BY <1>2, <1>3, <2>1, <2>5 DEF TypeOK, Op
  <2>7. /\ x \in Op /\ x.pc = "write" /\ x.target = "migrated"
        /\ x.kind = o.kind /\ x.id = o.id /\ x.rev = o.rev /\ x.val = o.val
    BY <1>2, <1>3, <2>5 DEF Op
  <2>8. Asked(x)
    BY <1>4, <2>7 DEF Asked
  <2>9. op' \in [Procs -> Op] /\ \A q \in Procs \ {p} : op'[q] = op[q]
    BY <1>2, <2>6, <2>7 DEF TypeOK
  <2>10. TypeOK'
    BY <1>2, <1>8, <2>1, <2>9 DEF TypeOK
  <2>11. OpOK(p)'
    BY <1>1, <1>3, <1>4, <2>1, <2>2, <2>3, <2>4, <2>6, <2>7, <2>8 DEF OpOK
  <2> QED BY <1>4, <1>6, <2>1, <2>9, <2>10, <2>11, AllOps DEF RepositoryInv
<1>10. CASE o.target = "migrated"
  <2>1. Decide(p, o, m) /\ UNCHANGED <<mem, acked>>
    BY <1>1, <1>3, <1>10 DEF Written
  <2>2. /\ IsLegacy(first) /\ backDisk /\ m = Loaded(first) /\ acked = << >>
        /\ file = FileOf(m)
    BY <1>1, <1>2, <1>3, <1>10 DEF OpOK
  <2>3. m = Loaded(file) /\ ~IsLegacy(file)
    BY <1>2, <2>2, MigratedOK, FileOfType
  <2>4. /\ up' \subseteq Procs /\ lock' \in Procs \cup {NoProc}
        /\ op' \in [Procs -> Op] /\ \A q \in Procs \ {p} : op'[q] = op[q]
        /\ op'[p].pc # "idle" =>
             LET x == op'[p]
                 D == deleted \cup DeletedBy(x, m)
             IN  /\ lock' = p /\ Asked(x) /\ x.pc = "write"
                 /\ x.target = "candidate" /\ x.kind # "open" /\ x.data \in Mem
                 /\ FileOK(FileOf(x.data), D)
                 /\ Fresh(ChangeOf(x, m), FileOf(x.data), D)
    BY <1>2, <1>3, <1>4, <2>1, <2>3, DecideStep
  <2>5. TypeOK'
    BY <1>2, <1>8, <2>1, <2>4 DEF TypeOK
  <2>6. backDisk'
    BY <1>1, <1>2, <2>2 DEF DirInv
  <2>7. OpOK(p)'
    BY <1>1, <1>3, <2>1, <2>4, <2>6 DEF OpOK, FileOK, Fresh, ShowsWith, WasFirst
  <2> QED BY <1>4, <1>6, <2>1, <2>4, <2>5, <2>7, AllOps DEF RepositoryInv
<1>11. CASE o.target = "candidate"
  <2>1. /\ mem' = [mem EXCEPT ![p] = o.data] /\ acked' = Append(acked, Change(p))
        /\ op' = [op EXCEPT ![p] = NoOp] /\ lock' = NoProc /\ up' = up
    BY <1>1, <1>3, <1>11 DEF Written, Return
  <2>2. /\ o.kind \in {"create", "update", "delete"} /\ o.data \in Mem
        /\ Fresh(ChangeOf(o, m), FileOf(o.data), deleted \cup DeletedBy(o, m))
        /\ file = FileOf(o.data) /\ DeletedBy(o, m) \subseteq deleted
    BY <1>1, <1>2, <1>3, <1>4, <1>11 DEF OpOK, Asked
  <2>3. PICK c : c = Change(p)
    OBVIOUS
  <2>4. Fresh(c, file, deleted)
    <3>1. deleted \cup DeletedBy(o, m) = deleted
      BY <2>2
    <3>2. c = ChangeOf(o, m)
      BY <1>3, <2>2, <2>3, ChangeIs
    <3> QED BY <2>2, <3>1, <3>2
  <2>5. AckInv' /\ FileOK(file, deleted)' /\ acked' \in Seq(Ack)
    BY <1>1, <1>2, <2>1, <2>3, <2>4, AckStep
  <2>6. /\ op' \in [Procs -> Op] /\ op'[p].pc = "idle"
        /\ \A q \in Procs \ {p} : op'[q] = op[q]
    BY <1>2, <2>1, NoOpType DEF TypeOK
  <2>7. TypeOK'
    BY <1>2, <1>8, <2>1, <2>2, <2>5, <2>6 DEF TypeOK
  <2>8. OpOK(p)'
    BY <2>6 DEF OpOK
  <2> QED BY <1>4, <1>5, <2>5, <2>6, <2>7, <2>8, AllOps DEF RepositoryInv
<1> QED BY <1>4, <1>9, <1>10, <1>11

LEMMA KillStep ==
  ASSUME RepositoryInv, NEW p \in Procs, Kill(p)
  PROVE  RepositoryInv'
<1>1. /\ up' = up \ {p}
      /\ mem' = [q \in Procs |-> IF q = p THEN Empty ELSE mem[q]]
      /\ op' = [q \in Procs |-> IF q = p THEN NoOp ELSE op[q]]
      /\ lock' = IF lock = p THEN NoProc ELSE lock
      /\ UNCHANGED <<dirVars, history>>
  BY DEF Kill, Down
<1>2. TypeOK /\ DirInv /\ AckInv /\ \A q \in Procs : OpOK(q)
  BY DEF RepositoryInv
<1>3. Empty \in Mem
  BY RepositoryAssumption DEF Empty, Mem, Ids
<1>4. TypeOK'
  BY <1>1, <1>2, <1>3, NoOpType DEF TypeOK, dirVars, history
<1>5. DirInv' /\ AckInv'
  BY <1>1, <1>2 DEF DirInv, AckInv, FileOK, ShowsWith, WasFirst, OneAckPerRevision,
     dirVars, history
<1>6. OpOK(p)'
  BY <1>1, NoOpType DEF OpOK
<1>7. ASSUME NEW q \in Procs \ {p}
      PROVE  OpOK(q)'
  <2>1. op'[q] = op[q] /\ mem'[q] = mem[q] /\ (lock = q => lock' = q)
    BY <1>1
  <2> QED BY <1>1, <1>2, <2>1 DEF OpOK, FileOK, Fresh, ShowsWith, WasFirst, dirVars,
             history
<1> QED BY <1>4, <1>5, <1>6, <1>7 DEF RepositoryInv

LEMMA PowerLossStep ==
  ASSUME RepositoryInv, PowerLoss
  PROVE  RepositoryInv'
<1>1. /\ up' = up \ Procs
      /\ mem' = [p \in Procs |-> Empty] /\ op' = [p \in Procs |-> NoOp]
      /\ lock' = IF lock \in Procs THEN NoProc ELSE lock
      /\ file' \in {file, disk} /\ backup' \in {backup, backDisk}
      /\ disk' = file' /\ backDisk' = backup'
      /\ UNCHANGED history
  BY DEF PowerLoss, Down
<1>2. TypeOK /\ DirInv /\ AckInv
  BY DEF RepositoryInv
<1>3. TypeOK'
  <2>1. Empty \in Mem
    BY RepositoryAssumption DEF Empty, Mem, Ids
  <2>2. backup' \in BOOLEAN /\ backDisk' \in BOOLEAN
    BY <1>1, <1>2 DEF TypeOK
  <2>3. file' \in Store \cup {NoFile} /\ disk' \in Store \cup {NoFile}
    BY <1>1, <1>2 DEF TypeOK
  <2> QED BY <1>1, <1>2, <2>1, <2>2, <2>3, NoOpType DEF TypeOK, history
<1>4. DirInv'
  <2>1. FileOK(file, deleted)' /\ FileOK(disk, deleted)'
    BY <1>1, <1>2 DEF DirInv, FileOK, ShowsWith, WasFirst, history
  <2>2. backDisk => backDisk'
    BY <1>1, <1>2 DEF DirInv
  <2> QED BY <1>1, <1>2, <2>1, <2>2 DEF DirInv, history
<1>5. AckInv'
  BY <1>1, <1>2 DEF AckInv, OneAckPerRevision, WasFirst, history
<1>6. \A p \in Procs : OpOK(p)'
  BY <1>1, NoOpType DEF OpOK
<1> QED BY <1>3, <1>4, <1>5, <1>6 DEF RepositoryInv
-----------------------------------------------------------------------------
LEMMA RequestStep ==
  ASSUME RepositoryInv, NEW p \in Procs, OpenJobRepository(p) \/ Requests(p)
  PROVE  RepositoryInv'
<1> SUFFICES \E o \in Op : Asked(o) /\ Call(p, o)
  BY CallStep
<1>1. CASE OpenJobRepository(p)
  <2>1. PICK o : o = [NoOp EXCEPT !.kind = "open"]
    OBVIOUS
  <2>2. o \in Op /\ o.kind = "open"
    BY <2>1, NoOpType DEF Op
  <2> QED BY <1>1, <2>1, <2>2 DEF OpenJobRepository, Asked
<1>2. ASSUME NEW v \in Values, Create(p, v)
      PROVE  \E o \in Op : Asked(o) /\ Call(p, o)
  <2>1. PICK o : o = [NoOp EXCEPT !.kind = "create", !.val = v]
    OBVIOUS
  <2>2. o \in Op /\ o.kind = "create" /\ o.val = v
    BY <2>1, NoOpType DEF Op
  <2> QED BY <1>2, <2>1, <2>2 DEF Create, Asked
<1>3. ASSUME NEW i \in Ids, NEW r \in 1..MaxRev, Delete(p, i, r)
      PROVE  \E o \in Op : Asked(o) /\ Call(p, o)
  <2>1. PICK o : o = [NoOp EXCEPT !.kind = "delete", !.id = i, !.rev = r]
    OBVIOUS
  <2>0. i \in 0..MaxId /\ r \in 0..MaxRev
    BY RepositoryAssumption DEF Ids
  <2>2. o \in Op /\ o.kind = "delete" /\ o.id = i /\ o.rev = r /\ o.val = NoOp.val
    BY <2>0, <2>1, NoOpType DEF Op
  <2>3. NoOp.val = Gone
    BY DEF NoOp
  <2> QED BY <1>3, <2>1, <2>2, <2>3 DEF Delete, Asked
<1>4. ASSUME NEW i \in Ids, NEW r \in 1..(MaxRev - 1), NEW v \in Values,
             Update(p, i, r, v)
      PROVE  \E o \in Op : Asked(o) /\ Call(p, o)
  <2>1. PICK o : o = [NoOp EXCEPT !.kind = "update", !.id = i, !.rev = r, !.val = v]
    OBVIOUS
  <2>0. i \in 0..MaxId /\ r \in 0..MaxRev
    BY RepositoryAssumption DEF Ids
  <2>2. o \in Op /\ o.kind = "update" /\ o.id = i /\ o.rev = r /\ o.val = v
    BY <2>0, <2>1, NoOpType DEF Op
  <2> QED BY <1>4, <2>1, <2>2 DEF Update, Asked
<1> QED BY <1>1, <1>2, <1>3, <1>4 DEF Requests

LEMMA RepositoryStep ==
  ASSUME RepositoryInv, [Next]_vars
  PROVE  RepositoryInv'
<1>1. CASE UNCHANGED vars
  <2> USE <1>1 DEF vars, RepositoryInv
  <2>1. TypeOK'
    BY DEF TypeOK
  <2>2. DirInv' /\ AckInv'
    BY DEF DirInv, AckInv, FileOK, ShowsWith, WasFirst, OneAckPerRevision
  <2>3. \A p \in Procs : OpOK(p)'
    BY DEF OpOK, FileOK, Fresh, ShowsWith, WasFirst
  <2> QED BY <2>1, <2>2, <2>3
<1>2. ASSUME NEW p \in Procs, OpenJobRepository(p) \/ Requests(p) \/ Progress(p) \/ Kill(p)
      PROVE  RepositoryInv'
  BY <1>2, RequestStep, WriteAndRenameStep, WriteFailsStep, SyncDirStep, KillStep
     DEF Progress
<1>3. CASE PowerLoss
  BY <1>3, PowerLossStep
<1> QED BY <1>1, <1>2, <1>3 DEF Next

LEMMA RepositoryInvariant == Spec => []RepositoryInv
<1>1. Init => RepositoryInv
  BY InitRepository
<1>2. RepositoryInv /\ [Next]_vars => RepositoryInv'
  BY RepositoryStep
<1> QED BY <1>1, <1>2, PTL DEF Spec

\* jobs.json, its copy on disk, the memory of every process and every call keep
\* their types: in particular the next id is never zero.
THEOREM RepositoryTypeCorrect == Spec => []TypeOK
<1>1. RepositoryInv => TypeOK
  BY DEF RepositoryInv
<1> QED BY <1>1, RepositoryInvariant, PTL

\* However many processes share jobs.json and whatever of them is killed, and
\* through any power loss, two successful calls never produced the same revision
\* of a job, nor gave an id away twice.
THEOREM RevisionsAreUnique == Spec => []OneAckPerRevision
<1>1. RepositoryInv => OneAckPerRevision
  BY DEF RepositoryInv, AckInv
<1> QED BY <1>1, RepositoryInvariant, PTL

\* For any processes and any first file: what was acknowledged, the backup of a
\* version 1 file and the jobs of the first file survive failed calls, killed
\* processes and power loss.
THEOREM RepositoryIsDurable == Spec => []NothingIsLost
<1>1. RepositoryInv => NothingIsLost
  <2> SUFFICES ASSUME RepositoryInv
               PROVE  NothingIsLost
    OBVIOUS
  <2>1. \A i \in 1..Len(acked) : Shows(file, acked[i]) /\ Shows(disk, acked[i])
    BY DEF RepositoryInv, DirInv, FileOK, ShowsWith, Shows
  <2>2. IsLegacy(first) => \A f \in {file, disk} : ~IsLegacy(f) => backDisk
    BY DEF RepositoryInv, DirInv
  <2>3. \A f \in {file, disk}, i \in Ids :
          first # NoFile /\ first.jobs[i] # NoJob =>
            /\ f # NoFile
            /\ f.jobs[i] = NoJob => \E d \in deleted : d.id = i
            /\ f.jobs[i] # NoJob /\ f.jobs[i].rev <= 1 =>
                 f.jobs[i].val = first.jobs[i].val
    BY DEF RepositoryInv, DirInv, FileOK, WasFirst
  <2>4. \A k \in 1..Len(acked) : acked[k].rev = 1 =>
          first = NoFile \/ first.jobs[acked[k].id] = NoJob
    BY DEF RepositoryInv, AckInv, WasFirst
  <2> QED BY <2>1, <2>2, <2>3, <2>4 DEF NothingIsLost
<1> QED BY <1>1, RepositoryInvariant, PTL
=============================================================================
