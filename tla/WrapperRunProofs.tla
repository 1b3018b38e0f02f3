-------------------------- MODULE WrapperRunProofs --------------------------
(***************************************************************************)
(* Proofs about WrapperRun for any processes, jobs, files, accounts and    *)
(* number of changes of the host.                                          *)
(***************************************************************************)
EXTENDS WrapperRun, FiniteSetTheorems, SequenceTheorems, WellFoundedInduction, TLAPS

PlansOf(j) == {PlanOf(j, TRUE), PlanOf(j, FALSE)}

\* What a process has, depending on its step.
PhaseOK(me) ==
  /\ me.step \in {"new", "compile", "install", "launch", "done", "failed", "killed"} =>
       me.plan = NoPlan
  /\ me.step \in {"guards", "running", "glob", "retain", "remove"} =>
       me.plan \in PlansOf(job)
  /\ me.step = "glob" => me.plan.keep = job.keep
  /\ me.step = "new" => ~me.run
  /\ me.step \in {"compile", "install", "launch", "hook", "rotate"} => me.run
  /\ me.step \in {"new", "compile", "install"} => ~me.mine
  /\ me.run /\ me.dry /\ me.mine =>
       /\ me.step \notin {"glob", "retain", "remove", "rotate"}
       /\ me.step # "launch" => me.plan = PlanOf(job, TRUE)
  /\ me.step = "rotate" => ~me.dry
  /\ me.step = "remove" => me.todo # {}
  /\ me.clean => me.step = "guards"

\* Runs exclude each other until their wrapper ends, so that the text a run has
\* installed is there until it is launched.
Busy(me) == me.run /\ me.step \in Occupied
RunInv ==
  /\ \A v \in Processes : \A w \in Processes : Busy(proc[v]) /\ Busy(proc[w]) => v = w
  /\ \A w \in Processes :
       At(w, "launch") /\ proc[w].mine => text = PlanOf(job, proc[w].dry)

\* Enough newer backups are there.
Newer(b, names) == {c \in names : Older(b, c)}
Spare(b) == Cardinality(Newer(b, backups)) >= job.keep

\* What is gone, and what a list says is to go, can be spared; and a list is
\* stale only if somebody else has removed something.
OthersRemoved(w) == \E v \in Processes \ {w} : proc[v].removed # {}
RetentionInv ==
  /\ IsFiniteSet(backups)
  /\ \A b \in made \ backups : Spare(b)
  /\ \A w \in Processes :
       /\ \A b \in proc[w].todo : Spare(b)
       /\ \A b \in proc[w].todo : b \in backups \/ OthersRemoved(w)
       /\ proc[w].why = "candidate" => OthersRemoved(w)

\* What a look of the final guards shows.
Shows(snap, l) ==
  /\ l.do = "canonical" => l.at \in canonical
  /\ l.do = "same"      => Snapshot(node[l.at]) = snap[l.at]
  /\ l.do = "dir"       => IsKind(l.at, {"dir"})
  /\ l.do = "exec"      => IsKind(l.at, {"script", "file"})
  /\ l.do = "entry"     => IsKind(l.at, {"dir"}) /\ node[l.at].id \in filled

\* The wrapper's looks are the rest of Render, and once the identity has been
\* looked up it is that of the script's first snapshot.
LooksOK(me) ==
  LET all   == Render(me.plan)
      final == Ending(me.plan)
      n     == Len(all) - Len(me.looks)
  IN
  me.step = "guards" =>
    /\ n \in Nat
    /\ \A i \in 1..Len(me.looks) : me.looks[i] = all[n + i]
    /\ /\ me.plan.identity = "owner"
       /\ Len(me.looks) <= Len(RenderNonEmptySourceCheck(me.plan)) + Len(final)
       =>
         /\ me.uid # Root /\ me.snap["script"] # Missing
         /\ me.uid = me.snap["script"].uid
    /\ me.clean => Len(me.looks) < Len(final)

\* As long as nothing has changed since the final guards began, what they have
\* shown still holds.
GuardsOK(me) ==
  me.clean => \A i \in 1..(Len(Ending(me.plan)) - Len(me.looks)) :
                Shows(me.snap, Ending(me.plan)[i])

WrapperInv ==
  /\ TypeOK /\ RunInv /\ RetentionInv
  /\ \A w \in Processes : PhaseOK(proc[w]) /\ LooksOK(proc[w]) /\ GuardsOK(proc[w])
-----------------------------------------------------------------------------
(***************************************************************************)
(* The wrapper's text.                                                     *)
(***************************************************************************)
\* What Render does before it looks up the identity.
Prologue(p) ==
  ValidationPaths(p) \o <<See("dir", "work")>>
    \o (CASE p.action = "script" -> RenderScriptValidation
          [] p.action = "sync"   -> RenderSyncValidation
          [] OTHER               -> << >>)

\* Looks before and after the one at the identity.
Early == {l \in LookType : l.do \notin {"owner", "fixed"}}
Late  == {l \in LookType : l.do \notin {"owner", "fixed", "snap"}}

LEMMA PlanType == ASSUME NEW j \in Job PROVE PlansOf(j) \subseteq Plan
  BY DEF PlansOf, PlanOf, Plan, Job, Destructive

LEMMA LateLooks ==
  ASSUME NEW p \in Plan
  PROVE  /\ RenderNonEmptySourceCheck(p) \in Seq(Late)
         /\ RenderFinalGuards(p) \in Seq(Late) /\ RenderRuntimeBackup(p) \in Seq(Late)
<1>1. \A d \in {"canonical", "dir", "dirAsSeen", "exec", "entry", "same", "stamp"} :
        \A at \in Paths : See(d, at) \in Late
  BY DEF See, Late, LookType
<1>2. {"script", "src", "dst", "work"} \subseteq Paths
  BY DEF Paths
<1> HIDE DEF Late
<1>3. RenderNonEmptySourceCheck(p) \in Seq(Late)
  BY <1>1, <1>2 DEF RenderNonEmptySourceCheck
<1>4. RenderRuntimeBackup(p) \in Seq(Late)
  BY <1>1, <1>2 DEF RenderRuntimeBackup
<1>5. RenderFinalGuards(p) \in Seq(Late)
  <2>1. CASE p.action = "script"
    BY <1>1, <1>2, <2>1 DEF RenderFinalGuards
  <2>2. CASE p.action = "sync"
    <3> DEFINE s == <<See("canonical", "src"), See("canonical", "dst"), See("same", "src"),
                      See("same", "dst"), See("dir", "src"), See("dirAsSeen", "dst")>>
    <3>1. s \in Seq(Late)
      BY <1>1, <1>2
    <3>2. RenderFinalGuards(p) = s \o RenderNonEmptySourceCheck(p)
      BY <2>2 DEF RenderFinalGuards
    <3> QED BY <1>3, <3>1, <3>2, ConcatProperties
  <2>3. CASE p.action = "command"
    BY <2>3 DEF RenderFinalGuards
  <2> QED BY <2>1, <2>2, <2>3 DEF Plan
<1> QED BY <1>3, <1>4, <1>5

LEMMA EarlyLooks == ASSUME NEW p \in Plan PROVE Prologue(p) \in Seq(Early)
<1>1. \A d \in {"canonical", "dir", "dirIfAny", "script", "snap"} :
        \A at \in Paths : See(d, at) \in Early
  BY DEF See, Early, LookType
<1>2. {"script", "src", "dst", "work"} \subseteq Paths
  BY DEF Paths
<1> HIDE DEF Early
<1> DEFINE t == CASE p.action = "script" -> <<See("canonical", "script")>>
                  [] p.action = "sync" -> <<See("canonical", "src"), See("canonical", "dst")>>
                  [] OTHER -> << >>
           c == CASE p.action = "script" -> RenderScriptValidation
                  [] p.action = "sync"   -> RenderSyncValidation
                  [] OTHER               -> << >>
<1>3. p.action \in {"script", "sync", "command"}
  BY DEF Plan
<1>4. t \in Seq(Early)
  BY <1>1, <1>2, <1>3
<1>5. c \in Seq(Early)
  BY <1>1, <1>2, <1>3 DEF RenderScriptValidation, RenderSyncValidation
<1>6. <<See("canonical", "work")>> \in Seq(Early) /\ <<See("dir", "work")>> \in Seq(Early)
  BY <1>1, <1>2
<1>7. ValidationPaths(p) = <<See("canonical", "work")>> \o t
  BY DEF ValidationPaths
<1>8. Prologue(p) = ValidationPaths(p) \o <<See("dir", "work")>> \o c
  BY DEF Prologue
<1> HIDE DEF t, c
<1>9. ValidationPaths(p) \in Seq(Early)
  BY <1>4, <1>6, <1>7, ConcatProperties
<1>10. ValidationPaths(p) \o <<See("dir", "work")>> \in Seq(Early)
  BY <1>6, <1>9, ConcatProperties
<1> QED BY <1>5, <1>8, <1>10, ConcatProperties

LEMMA Concat ==
  ASSUME NEW S, NEW s \in Seq(S), NEW t \in Seq(S)
  PROVE  /\ s \o t \in Seq(S) /\ Len(s \o t) = Len(s) + Len(t)
         /\ \A i \in 1..Len(s) : (s \o t)[i] = s[i]
         /\ \A i \in (Len(s) + 1)..(Len(s) + Len(t)) : (s \o t)[i] = t[i - Len(s)]
<1>1. Len(s) \in Nat /\ Len(t) \in Nat
  BY LenProperties
<1>2. /\ s \o t \in Seq(S) /\ Len(s \o t) = Len(s) + Len(t)
      /\ \A i \in 1 .. Len(s) + Len(t) :
           (s \o t)[i] = IF i <= Len(s) THEN s[i] ELSE t[i - Len(s)]
  BY ConcatProperties
<1>3. \A i \in 1..Len(s) : (s \o t)[i] = s[i]
  BY <1>1, <1>2
<1>4. \A i \in (Len(s) + 1)..(Len(s) + Len(t)) : (s \o t)[i] = t[i - Len(s)]
  BY <1>1, <1>2
<1> QED BY <1>2, <1>3, <1>4

\* Where the identity is looked up, what comes before and after it, and that the
\* text ends with the final guards.
LEMMA RenderShape ==
  ASSUME NEW p \in Plan
  PROVE  LET all == Render(p)
             final == Ending(p)
             e == Len(Prologue(p))
         IN
         /\ all \in Seq(LookType) /\ final \in Seq(Late) /\ e \in Nat
         /\ Len(RenderNonEmptySourceCheck(p)) \in Nat
         /\ Len(all) = e + 1 + Len(RenderNonEmptySourceCheck(p)) + Len(final)
         /\ \A i \in 1..e : all[i] \in Early
         /\ all[e + 1] = See(p.identity, "work")
         /\ \A i \in (e + 2)..Len(all) : all[i] \in Late
         /\ \A i \in 1..Len(final) : all[Len(all) - Len(final) + i] = final[i]
<1> DEFINE a == Prologue(p)
           b == <<See(p.identity, "work")>>
           n == RenderNonEmptySourceCheck(p)
           f == Ending(p)
           e == Len(a)
<1>1. Early \subseteq LookType /\ Late \subseteq LookType
  BY DEF Early, Late
<1>2. a \in Seq(Early) /\ n \in Seq(Late)
  BY EarlyLooks, LateLooks
<1>3. f \in Seq(Late)
  BY LateLooks, ConcatProperties DEF Ending
<1>4. See(p.identity, "work") \in LookType
  BY DEF See, LookType, Plan, Paths
<1>5. b \in Seq(LookType) /\ Len(b) = 1 /\ b[1] = See(p.identity, "work")
  BY <1>4
<1>6. Render(p) = ((a \o b) \o n) \o f
  BY DEF Render, Prologue
<1>7. a \in Seq(LookType) /\ n \in Seq(LookType) /\ f \in Seq(LookType)
  BY <1>1, <1>2, <1>3
<1>8. e \in Nat /\ Len(n) \in Nat /\ Len(f) \in Nat
  BY <1>7, LenProperties
<1> HIDE DEF a, b, n, f
<1> DEFINE c == a \o b
<1>9. /\ c \in Seq(LookType) /\ Len(c) = e + 1
      /\ \A i \in 1..e : c[i] = a[i]
      /\ c[e + 1] = b[1]
  <2>1. /\ a \o b \in Seq(LookType) /\ Len(a \o b) = Len(a) + Len(b)
        /\ \A i \in 1..Len(a) : (a \o b)[i] = a[i]
        /\ \A i \in (Len(a) + 1)..(Len(a) + Len(b)) : (a \o b)[i] = b[i - Len(a)]
    BY <1>5, <1>7, Concat
  <2>2. e + 1 \in (Len(a) + 1)..(Len(a) + Len(b)) /\ (e + 1) - Len(a) = 1
    BY <1>5, <1>8
  <2> QED BY <1>5, <2>1, <2>2
<1>16. Render(p) = (c \o n) \o f
  BY <1>6
<1> HIDE DEF c
<1> DEFINE g == c \o n
           m == e + 1 + Len(n)
<1>10. /\ g \in Seq(LookType) /\ Len(g) = m
       /\ \A i \in 1..(e + 1) : g[i] = c[i]
       /\ \A i \in (e + 2)..m : g[i] = n[i - (e + 1)]
  <2>1. /\ c \o n \in Seq(LookType) /\ Len(c \o n) = Len(c) + Len(n)
        /\ \A i \in 1..Len(c) : (c \o n)[i] = c[i]
        /\ \A i \in (Len(c) + 1)..(Len(c) + Len(n)) : (c \o n)[i] = n[i - Len(c)]
    BY <1>7, <1>9, Concat
  <2>2. (e + 1) + 1 = e + 2
    BY <1>8
  <2> QED BY <1>9, <2>1, <2>2
<1>11. /\ g \o f \in Seq(LookType) /\ Len(g \o f) = m + Len(f)
       /\ \A i \in 1..m : (g \o f)[i] = g[i]
       /\ \A i \in (m + 1)..(m + Len(f)) : (g \o f)[i] = f[i - m]
  <2>1. g \in Seq(LookType) /\ Len(g) = m
    BY <1>10
  <2> HIDE DEF g
  <2>2. /\ g \o f \in Seq(LookType) /\ Len(g \o f) = Len(g) + Len(f)
        /\ \A i \in 1..Len(g) : (g \o f)[i] = g[i]
        /\ \A i \in (Len(g) + 1)..(Len(g) + Len(f)) : (g \o f)[i] = f[i - Len(g)]
    <3>1. g \in Seq(LookType) /\ f \in Seq(LookType)
      BY <1>7, <2>1
    <3> QED BY <3>1, Concat, Zenon
  <2> QED BY <2>1, <2>2
<1>12. \A i \in 1..e : (g \o f)[i] \in Early
  <2>1. \A i \in 1..e : a[i] \in Early
    BY <1>2, ElementOfSeq
  <2>2. \A i \in 1..e : i \in 1..(e + 1) /\ i \in 1..m
    BY <1>8
  <2> HIDE DEF g
  <2>3. \A i \in 1..e : (g \o f)[i] = a[i]
    BY <1>9, <1>10, <1>11, <2>2
  <2> QED BY <2>1, <2>3, Zenon
<1>13. (g \o f)[e + 1] = See(p.identity, "work")
  BY <1>5, <1>8, <1>9, <1>10, <1>11
<1>14. \A i \in (e + 2)..(m + Len(f)) : (g \o f)[i] \in Late
  <2>1. /\ \A i \in 1..Len(n) : n[i] \in Late
        /\ \A i \in 1..Len(f) : f[i] \in Late
    BY <1>2, <1>3, ElementOfSeq
  <2>2. \A i \in (e + 2)..m : (g \o f)[i] = n[i - (e + 1)] /\ i - (e + 1) \in 1..Len(n)
    BY <1>8, <1>10, <1>11
  <2>3. \A i \in (m + 1)..(m + Len(f)) : i - m \in 1..Len(f)
    BY <1>8
  <2> QED BY <1>8, <1>11, <2>1, <2>2, <2>3
<1>15. \A i \in 1..Len(f) : (g \o f)[Len(g \o f) - Len(f) + i] = f[i]
  BY <1>8, <1>11
<1> QED BY <1>3, <1>16, <1>8, <1>11, <1>12, <1>13, <1>14, <1>15 DEF a, n, f
LEMMA CompileType == ASSUME NEW j \in Job PROVE Compile(j) \in Seq(LookType)
<1>1. \A d \in {"canonical", "dir", "dirIfAny", "script", "entry", "ownerNow", "fixed"} :
        \A at \in Paths : See(d, at) \in LookType
  BY DEF See, LookType
<1>2. {"script", "src", "dst", "work"} \subseteq Paths
  BY DEF Paths
<1>3. j.action \in {"script", "sync", "command"}
  BY DEF Job
<1> HIDE DEF LookType
<1>4. ValidateIdentity(j) \in Seq(LookType)
  BY <1>1, <1>2 DEF ValidateIdentity
<1>5. CompileSync(j) \in Seq(LookType)
  <2> DEFINE s == <<See("canonical", "src"), See("dir", "src")>>
             t == IF Destructive(j) THEN <<See("entry", "src")>> ELSE << >>
             u == <<See("canonical", "dst"), See("dirIfAny", "dst")>>
  <2>1. s \in Seq(LookType) /\ t \in Seq(LookType) /\ u \in Seq(LookType)
    BY <1>1, <1>2
  <2>2. CompileSync(j) = (s \o t) \o u
    BY DEF CompileSync
  <2> HIDE DEF s, t, u
  <2>3. s \o t \in Seq(LookType)
    BY <2>1, ConcatProperties
  <2> QED BY <2>1, <2>2, <2>3, ConcatProperties
<1>6. CompileAction(j) \in Seq(LookType)
  BY <1>1, <1>2, <1>3, <1>5 DEF CompileAction
<1> DEFINE w == <<See("canonical", "work"), See("dir", "work")>>
<1>7. w \in Seq(LookType)
  BY <1>1, <1>2
<1>8. Compile(j) = (w \o ValidateIdentity(j)) \o CompileAction(j)
  BY DEF Compile
<1> HIDE DEF w
<1>9. w \o ValidateIdentity(j) \in Seq(LookType)
  BY <1>4, <1>7, ConcatProperties
<1> QED BY <1>6, <1>8, <1>9, ConcatProperties
-----------------------------------------------------------------------------
(***************************************************************************)
(* Backups.                                                                *)
(***************************************************************************)
LEMMA OlderOrder ==
  ASSUME NEW a \in Names, NEW b \in Names
  PROVE  /\ ~Older(a, a) /\ (a # b => Older(a, b) \/ Older(b, a))
         /\ \A c \in Names : Older(a, b) /\ Older(b, c) => Older(a, c)
<1>1. \A n \in Processes \cup {0} : n \in Nat
  BY WrapperAssumption
<1>2. \A x \in Names : x[1] \in Nat /\ x[2] \in Nat /\ x = <<x[1], x[2]>>
  BY <1>1 DEF Names
<1>3. \A x \in Names, y \in Names : x # y => x[1] # y[1] \/ x[2] # y[2]
  BY <1>2
<1> QED BY <1>2, <1>3 DEF Older

LEMMA Least ==
  ASSUME NEW S, S \subseteq Nat, S # {}
  PROVE  \E m \in S : \A n \in S : m <= n
<1> DEFINE R == OpToRel(<, Nat)
<1>1. \A m, n \in Nat : m < n => <<m, n>> \in R
  BY DEF OpToRel
<1>2. IsWellFoundedOn(R, Nat)
  BY NatLessThanWellFounded
<1> HIDE DEF R
<1>3. PICK m \in S : \A n \in S : ~(<<n, m>> \in R)
  BY <1>2, WFMin
<1>4. \A n \in S : ~(n < m)
  BY <1>1, <1>3
<1> QED BY <1>3, <1>4

LEMMA OldestIn ==
  ASSUME NEW S, S \subseteq Names, S # {}
  PROVE  Oldest(S) \in S
<1>1. \A x \in S : x[1] \in Nat /\ x[2] \in Nat /\ x = <<x[1], x[2]>>
  <2>1. \A n \in Processes \cup {0} : n \in Nat
    BY WrapperAssumption
  <2> QED BY <2>1 DEF Names
<1> DEFINE First == {x[1] : x \in S}
<1>2. First \subseteq Nat /\ First # {}
  BY <1>1
<1>3. PICK m \in First : \A n \in First : m <= n
  <2> HIDE DEF First
  <2> QED BY <1>2, Least
<1> DEFINE Second == {x[2] : x \in {y \in S : y[1] = m}}
<1>4. Second \subseteq Nat /\ Second # {}
  BY <1>1, <1>3
<1>5. PICK k \in Second : \A n \in Second : k <= n
  <2> HIDE DEF Second
  <2> QED BY <1>4, Least
<1>6. PICK b \in S : b[1] = m /\ b[2] = k
  BY <1>5
<1>7. \A c \in S \ {b} : Older(b, c)
  <2> TAKE c \in S \ {b}
  <2>1. m <= c[1] /\ (c[1] = m => k <= c[2])
    BY <1>3, <1>5
  <2>2. c[1] # m \/ c[2] # k
    BY <1>1, <1>6
  <2> QED BY <1>1, <1>6, <2>1, <2>2 DEF Older
<1> QED BY <1>7 DEF Oldest

\* A backup with enough newer ones may go: whatever could be spared before still
\* can, since what is newer than the backup remains.
LEMMA RemoveSpare ==
  ASSUME backups \subseteq Names, IsFiniteSet(backups), job.keep \in Nat,
         NEW b \in Names, Spare(b), backups' = backups \ {b}, UNCHANGED job,
         NEW t \in Names, Spare(t)
  PROVE  Spare(t)'
<1> DEFINE new == Newer(t, backups \ {b})
<1>1. IsFiniteSet(new) /\ IsFiniteSet(Newer(b, backups))
  BY FS_Subset DEF Newer
<1>2. CASE Older(t, b)
  <2>1. Newer(b, backups) \subseteq new
    BY <1>2, OlderOrder DEF Newer
  <2>2. Cardinality(Newer(b, backups)) <= Cardinality(new)
    BY <1>1, <2>1, FS_Subset
  <2>3. Cardinality(Newer(b, backups)) \in Nat /\ Cardinality(new) \in Nat
    BY <1>1, FS_CardinalityType
  <2> HIDE DEF new
  <2>4. Cardinality(new) >= job.keep
    BY <2>2, <2>3 DEF Spare
  <2> QED BY <2>4 DEF Spare, new
<1>3. CASE ~Older(t, b)
  <2>1. new = Newer(t, backups)
    BY <1>3 DEF Newer
  <2> QED BY <2>1 DEF Spare
<1> QED BY <1>2, <1>3

\* More backups spare no less.
LEMMA AddSpare ==
  ASSUME backups \subseteq Names, IsFiniteSet(backups), job.keep \in Nat,
         NEW b, backups' = backups \cup {b}, UNCHANGED job, NEW t, Spare(t)
  PROVE  Spare(t)'
<1> DEFINE new == Newer(t, backups \cup {b})
<1>1. IsFiniteSet(backups \cup {b})
  BY FS_AddElement
<1>2. IsFiniteSet(new)
  BY <1>1, FS_Subset DEF Newer
<1>3. Newer(t, backups) \subseteq new
  BY DEF Newer
<1>4. Cardinality(Newer(t, backups)) <= Cardinality(new) /\ IsFiniteSet(Newer(t, backups))
  BY <1>2, <1>3, FS_Subset
<1>5. Cardinality(Newer(t, backups)) \in Nat /\ Cardinality(new) \in Nat
  BY <1>2, <1>4, FS_CardinalityType
<1> HIDE DEF new
<1>6. Cardinality(new) >= job.keep
  BY <1>4, <1>5 DEF Spare
<1> QED BY <1>6 DEF Spare, new
-----------------------------------------------------------------------------
(***************************************************************************)
(* Steps.                                                                  *)
(***************************************************************************)
LEMMA JobType == ASSUME TypeOK PROVE job \in Job /\ job.keep \in Nat /\ job.uid \in Uids
  BY WrapperAssumption DEF TypeOK, Job

\* Process w becomes q and the rest of the host stays.
LEMMA OneProcess ==
  ASSUME WrapperInv, NEW w \in Processes, NEW q \in Proc, proc' = [proc EXCEPT ![w] = q],
         UNCHANGED <<job, hostVars, backupVars>>, clock' \in Nat,
         text' \in {NoPlan} \cup PlansOf(job),
         \A v \in Processes \ {w} : At(v, "launch") /\ proc[v].mine => text' = text,
         q.step = "launch" /\ q.mine => text' = PlanOf(job, q.dry),
         Busy(q) => Busy(proc[w]) \/ \A v \in Processes \ {w} : ~Busy(proc[v]),
         q.removed = proc[w].removed,
         \A b \in q.todo : Spare(b) /\ (b \in backups \/ OthersRemoved(w)),
         q.why = "candidate" => OthersRemoved(w),
         PhaseOK(q), LooksOK(q), GuardsOK(q)
  PROVE  WrapperInv'
<1>1. /\ proc'[w] = q /\ \A v \in Processes : v # w => proc'[v] = proc[v]
      /\ proc' \in [Processes -> Proc]
  BY DEF WrapperInv, TypeOK
<1>2. TypeOK'
  BY <1>1 DEF WrapperInv, TypeOK, hostVars, backupVars, PlansOf
<1>3. RunInv'
  <2>1. \A v \in Processes : At(v, "launch")' /\ proc'[v].mine =>
          text' = PlanOf(job', proc'[v].dry)
    BY <1>1 DEF WrapperInv, RunInv, At
  <2>2. \A v \in Processes : v # w => Busy(proc'[v]) = Busy(proc[v])
    BY <1>1
  <2>3. \A u \in Processes : \A v \in Processes :
          Busy(proc'[u]) /\ Busy(proc'[v]) => u = v
    BY <1>1, <2>2 DEF WrapperInv, RunInv
  <2> QED BY <2>1, <2>3 DEF RunInv
<1>4. RetentionInv'
  <2>1. \A v \in Processes : proc'[v].removed = proc[v].removed
    BY <1>1
  <2>2. \A v \in Processes : OthersRemoved(v) => OthersRemoved(v)'
    BY <2>1 DEF OthersRemoved
  <2>3. \A b : Spare(b) => Spare(b)'
    BY DEF Spare, backupVars
  <2>4. backups' = backups /\ made' = made
    BY DEF backupVars
  <2>5. \A v \in Processes :
          /\ \A b \in proc'[v].todo : Spare(b)
          /\ \A b \in proc'[v].todo : b \in backups \/ OthersRemoved(v)
          /\ proc'[v].why = "candidate" => OthersRemoved(v)
    BY <1>1 DEF WrapperInv, RetentionInv
  <2> QED BY <2>2, <2>3, <2>4, <2>5 DEF WrapperInv, RetentionInv
<1>5. \A v \in Processes : PhaseOK(proc[v])'
  <2>1. \A v \in Processes : PhaseOK(proc'[v])
    BY <1>1 DEF WrapperInv
  <2> QED BY <2>1 DEF PhaseOK
<1>6. \A v \in Processes : LooksOK(proc[v])'
  <2>1. \A v \in Processes : LooksOK(proc'[v])
    BY <1>1 DEF WrapperInv
  <2> QED BY <2>1
<1>7. \A v \in Processes : GuardsOK(proc[v])'
  <2>1. \A v \in Processes : GuardsOK(proc'[v])
    BY <1>1 DEF WrapperInv
  <2>2. node' = node /\ canonical' = canonical /\ filled' = filled
    BY DEF hostVars
  <2> QED BY <2>1, <2>2 DEF GuardsOK, Shows, IsKind
<1> QED BY <1>2, <1>3, <1>4, <1>5, <1>6, <1>7 DEF WrapperInv

LEMMA NewProcessType == NewProcess \in Proc
<1> DEFINE s == [p \in Paths |-> Missing]
<1>1. s \in [Paths -> Seen \cup {Missing}]
  OBVIOUS
<1>2. NewProcess =
        [step |-> "new", run |-> FALSE, dry |-> FALSE, plan |-> NoPlan, looks |-> << >>,
         snap |-> s, uid |-> Root, stamp |-> 0, todo |-> {},
         clean |-> FALSE, mine |-> FALSE, removed |-> {}, why |-> "none"]
  BY DEF NewProcess
<1> HIDE DEF s
<1>3. "new" \in Steps /\ << >> \in Seq(LookType)
  BY DEF Steps
<1> QED BY <1>1, <1>2, <1>3, WrapperAssumption DEF Proc

LEMMA EndProcess ==
  ASSUME WrapperInv, NEW w \in Processes, NEW st \in {"done", "failed", "killed"},
         NEW why \in {"none", "compile", "install", "guards", "command", "candidate", "rm"},
         why = "candidate" => OthersRemoved(w),
         End(w, st, why), UNCHANGED <<job, hostVars, text, clock, backupVars>>
  PROVE  WrapperInv'
<1> DEFINE q == [NewProcess EXCEPT !.step = st, !.why = why, !.removed = proc[w].removed]
<1>1. proc' = [proc EXCEPT ![w] = q]
  BY DEF End
<1>2. proc[w].removed \in SUBSET Names
  BY DEF WrapperInv, TypeOK, Proc
<1>3. /\ q.step = st /\ q.run = FALSE /\ q.plan = NoPlan /\ q.todo = {}
      /\ q.clean = FALSE /\ q.mine = FALSE /\ q.removed = proc[w].removed /\ q.why = why
  BY DEF NewProcess
<1>4. q \in Proc
  <2>1. st \in Steps
    BY DEF Steps
  <2> QED BY <1>2, <2>1, NewProcessType DEF Proc
<1>5. PhaseOK(q) /\ LooksOK(q) /\ GuardsOK(q) /\ ~Busy(q)
  BY <1>3 DEF PhaseOK, LooksOK, GuardsOK, Busy
<1>6. clock' \in Nat /\ text' \in {NoPlan} \cup PlansOf(job)
  BY DEF WrapperInv, TypeOK, PlansOf
<1>7. q.removed = proc[w].removed /\ q.todo = {} /\ q.why = why /\ q.step = st
  BY <1>3
<1> HIDE DEF q
<1> QED BY <1>1, <1>4, <1>5, <1>6, <1>7, OneProcess
\* Process w goes on without lists, texts or backups being concerned.
LEMMA Advance ==
  ASSUME WrapperInv, NEW w \in Processes, NEW q \in Proc, proc' = [proc EXCEPT ![w] = q],
         UNCHANGED <<job, hostVars, text, backupVars>>, clock' \in Nat,
         q.step # "launch", q.removed = proc[w].removed, q.todo = proc[w].todo,
         q.why = proc[w].why, Busy(q) => Busy(proc[w]),
         PhaseOK(q), LooksOK(q), GuardsOK(q)
  PROVE  WrapperInv'
<1>1. text' \in {NoPlan} \cup PlansOf(job)
  BY DEF WrapperInv, TypeOK, PlansOf
<1>2. /\ \A b \in q.todo : Spare(b) /\ (b \in backups \/ OthersRemoved(w))
      /\ q.why = "candidate" => OthersRemoved(w)
  BY DEF WrapperInv, RetentionInv
<1> QED BY <1>1, <1>2, OneProcess

LEMMA InitWrapper == Init => WrapperInv
<1> SUFFICES ASSUME Init PROVE WrapperInv
  OBVIOUS
<1>1. proc \in [Processes -> Proc] /\ \A w \in Processes : proc[w] = NewProcess
  BY NewProcessType DEF Init
<1>2. TypeOK
  <2>1. job \in Jobs /\ job \in Job
    BY WrapperAssumption DEF Init
  <2>2. node \in [Paths -> Node \cup {Missing}]
    <3>1. PICK i \in Ids : node = [p \in Paths |->
             IF p = "script" THEN [id |-> i, kind |-> "script", uid |-> job.uid]
             ELSE [id |-> i, kind |-> "dir", uid |-> Root]]
      BY DEF Init
    <3>2. /\ [id |-> i, kind |-> "script", uid |-> job.uid] \in Node
          /\ [id |-> i, kind |-> "dir", uid |-> Root] \in Node
      BY <2>1, WrapperAssumption DEF Node, Job
    <3> QED BY <3>1, <3>2
  <2>3. <<0, 0>> \in Names
    BY DEF Names
  <2>4. /\ canonical \subseteq Paths /\ filled \subseteq Ids /\ accounts \subseteq Uids
        /\ changes \in 0..MaxChanges /\ clock \in Nat
    BY WrapperAssumption DEF Init
  <2>5. text \in {NoPlan, PlanOf(job, TRUE), PlanOf(job, FALSE)}
    BY DEF Init
  <2> QED BY <1>1, <2>1, <2>2, <2>3, <2>4, <2>5 DEF Init, TypeOK
<1>3. /\ NewProcess.step = "new" /\ ~NewProcess.run /\ NewProcess.plan = NoPlan
      /\ ~NewProcess.mine /\ ~NewProcess.clean /\ NewProcess.todo = {}
      /\ NewProcess.why = "none"
  BY DEF NewProcess
<1>4. RunInv
  BY <1>1, <1>3 DEF RunInv, Busy, At
<1>5. RetentionInv
  <2>1. IsFiniteSet({<<0, 0>>})
    BY FS_Singleton
  <2> QED BY <1>1, <1>3, <2>1 DEF RetentionInv, Init
<1>6. \A w \in Processes : PhaseOK(proc[w]) /\ LooksOK(proc[w]) /\ GuardsOK(proc[w])
  BY <1>1, <1>3 DEF PhaseOK, LooksOK, GuardsOK
<1> QED BY <1>2, <1>4, <1>5, <1>6 DEF WrapperInv

\* A process whose guards no longer count, or whose text was replaced, is as good
\* as before.
Calm(me)   == [me EXCEPT !.clean = FALSE]
Robbed(me) == [me EXCEPT !.mine = FALSE]

LEMMA CalmProcess ==
  ASSUME NEW me \in Proc, PhaseOK(me), LooksOK(me)
  PROVE  LET q == Calm(me) IN
         /\ q \in Proc /\ PhaseOK(q) /\ LooksOK(q) /\ ~q.clean
         /\ q.step = me.step /\ (Busy(q) <=> Busy(me)) /\ q.dry = me.dry
         /\ (q.mine <=> me.mine) /\ q.todo = me.todo
         /\ q.removed = me.removed /\ q.why = me.why
<1> DEFINE q == Calm(me)
<1>1. q \in Proc
  BY DEF Proc, Calm
<1>2. /\ q.step = me.step /\ (q.run <=> me.run) /\ q.dry = me.dry /\ (q.dry <=> me.dry)
      /\ q.plan = me.plan
      /\ q.looks = me.looks /\ q.snap = me.snap /\ q.uid = me.uid /\ q.todo = me.todo
      /\ q.removed = me.removed /\ q.why = me.why /\ (q.mine <=> me.mine) /\ ~q.clean
  BY DEF Proc, Calm
<1> HIDE DEF q
<1>3. PhaseOK(q)
  BY <1>2 DEF PhaseOK
<1>4. LooksOK(q)
  BY <1>2 DEF LooksOK
<1>5. Busy(q) <=> Busy(me)
  BY <1>2 DEF Busy
<1> QED BY <1>1, <1>2, <1>3, <1>4, <1>5 DEF q

LEMMA RobbedProcess ==
  ASSUME NEW me \in Proc, PhaseOK(me), LooksOK(me), GuardsOK(me)
  PROVE  LET q == Robbed(me) IN
         /\ q \in Proc /\ PhaseOK(q) /\ LooksOK(q) /\ GuardsOK(q) /\ ~q.mine
         /\ q.step = me.step /\ (Busy(q) <=> Busy(me))
         /\ q.todo = me.todo /\ q.removed = me.removed /\ q.why = me.why
<1> DEFINE q == Robbed(me)
<1>1. q \in Proc
  BY DEF Proc, Robbed
<1>2. /\ q.step = me.step /\ (q.run <=> me.run) /\ (q.dry <=> me.dry)
      /\ q.plan = me.plan
      /\ q.looks = me.looks /\ q.snap = me.snap /\ q.uid = me.uid /\ q.todo = me.todo
      /\ q.removed = me.removed /\ q.why = me.why /\ ~q.mine /\ (q.clean <=> me.clean)
  BY DEF Proc, Robbed
<1> HIDE DEF q
<1>3. PhaseOK(q)
  BY <1>2 DEF PhaseOK
<1>4. LooksOK(q)
  BY <1>2 DEF LooksOK
<1>5. GuardsOK(q)
  BY <1>2 DEF GuardsOK
<1>6. Busy(q) <=> Busy(me)
  BY <1>2 DEF Busy
<1> QED BY <1>1, <1>2, <1>3, <1>4, <1>5, <1>6 DEF q

\* Others change the host: no process relies on what its guards have shown.
LEMMA DisturbedProcs ==
  ASSUME WrapperInv, NEW v \in Processes
  PROVE  LET q == Disturbed[v] IN
         /\ q \in Proc /\ PhaseOK(q) /\ LooksOK(q) /\ ~q.clean
         /\ q.step = proc[v].step /\ (Busy(q) <=> Busy(proc[v])) /\ q.dry = proc[v].dry
         /\ (q.mine <=> proc[v].mine) /\ q.todo = proc[v].todo
         /\ q.removed = proc[v].removed /\ q.why = proc[v].why
<1>1. proc[v] \in Proc
  BY DEF WrapperInv, TypeOK
<1>2. Disturbed[v] = Calm(proc[v])
  BY DEF Disturbed, Calm
<1>3. PhaseOK(proc[v]) /\ LooksOK(proc[v])
  BY DEF WrapperInv
<1> QED BY <1>1, <1>2, <1>3, CalmProcess

LEMMA DisturbedType == ASSUME WrapperInv PROVE Disturbed \in [Processes -> Proc]
  BY DisturbedProcs DEF Disturbed

LEMMA HostStep ==
  ASSUME WrapperInv, proc' = Disturbed, TypeOK',
         UNCHANGED <<job, text, backupVars>>
  PROVE  WrapperInv'
<1>1. \A v \in Processes :
        /\ PhaseOK(proc'[v]) /\ LooksOK(proc'[v]) /\ ~proc'[v].clean
        /\ proc'[v].step = proc[v].step /\ (Busy(proc'[v]) <=> Busy(proc[v]))
        /\ proc'[v].dry = proc[v].dry
        /\ (proc'[v].mine <=> proc[v].mine) /\ proc'[v].todo = proc[v].todo
        /\ proc'[v].removed = proc[v].removed /\ proc'[v].why = proc[v].why
  BY DisturbedProcs
<1>2. RunInv'
  BY <1>1 DEF WrapperInv, RunInv, At
<1>3. RetentionInv'
  BY <1>1 DEF WrapperInv, RetentionInv, Spare, OthersRemoved, backupVars
<1>4. \A v \in Processes : PhaseOK(proc[v])'
  BY <1>1 DEF PhaseOK
<1>5. \A v \in Processes : LooksOK(proc[v])'
  BY <1>1
<1>6. \A v \in Processes : GuardsOK(proc[v])'
  BY <1>1 DEF GuardsOK
<1> QED BY <1>2, <1>3, <1>4, <1>5, <1>6 DEF WrapperInv

LEMMA NodesType == ASSUME NEW p \in Paths PROVE NodesAt(p) \subseteq Node
  BY WrapperAssumption DEF NodesAt, Node, Paths

LEMMA HostChangesStep == WrapperInv /\ HostChanges => WrapperInv'
<1> SUFFICES ASSUME WrapperInv, HostChanges PROVE WrapperInv'
  OBVIOUS
<1>1. node' \in [Paths -> Node \cup {Missing}]
  <2>1. CASE UNCHANGED node
    BY <2>1 DEF WrapperInv, TypeOK
  <2>2. CASE \E p \in PathsOf(job) : \E n \in (NodesAt(p) \cup {Missing}) \ {node[p]} :
               node' = [node EXCEPT ![p] = n]
    <3>1. PathsOf(job) \subseteq Paths
      BY DEF PathsOf, Paths
    <3>2. PICK p \in Paths : \E n \in Node \cup {Missing} : node' = [node EXCEPT ![p] = n]
      BY <2>2, <3>1, NodesType
    <3> QED BY <3>2 DEF WrapperInv, TypeOK
  <2> QED BY <2>1, <2>2 DEF HostChanges
<1>2. canonical' \subseteq Paths /\ filled' \subseteq Ids /\ accounts' \subseteq Uids
  BY DEF HostChanges, WrapperInv, TypeOK, PathsOf, Paths
<1>3. changes' \in 0..MaxChanges
  BY WrapperAssumption DEF HostChanges, WrapperInv, TypeOK
<1>4. UNCHANGED <<job, text, clock, backupVars>> /\ proc' = Disturbed
  BY DEF HostChanges
<1>5. TypeOK'
  BY <1>1, <1>2, <1>3, <1>4, DisturbedType DEF WrapperInv, TypeOK, backupVars
<1> QED BY <1>4, <1>5, HostStep

LEMMA EffectStep ==
  ASSUME WrapperInv, NEW w \in Processes, MakeDestination(w) \/ EmptySource(w)
  PROVE  WrapperInv'
<1>1. UNCHANGED <<job, canonical, accounts, changes, text, clock, backupVars>>
      /\ proc' = Disturbed
  BY DEF MakeDestination, EmptySource
<1>2. node' \in [Paths -> Node \cup {Missing}]
  BY WrapperAssumption
     DEF MakeDestination, EmptySource, WrapperInv, TypeOK, Node, Paths
<1>3. filled' \subseteq Ids
  BY DEF MakeDestination, EmptySource, WrapperInv, TypeOK
<1>4. TypeOK'
  BY <1>1, <1>2, <1>3, DisturbedType DEF WrapperInv, TypeOK, backupVars
<1> QED BY <1>1, <1>4, HostStep

LEMMA ReconcileStep == WrapperInv /\ Reconcile => WrapperInv'
<1> SUFFICES ASSUME WrapperInv, Reconcile PROVE WrapperInv'
  OBVIOUS
<1>1. UNCHANGED <<job, hostVars, clock, backupVars>> /\ text' = PlanOf(job, FALSE)
  BY DEF Reconcile
<1>2. \A v \in Processes :
        /\ proc'[v] \in Proc /\ PhaseOK(proc'[v]) /\ LooksOK(proc'[v])
        /\ GuardsOK(proc'[v])
        /\ proc'[v].step = proc[v].step /\ (Busy(proc'[v]) <=> Busy(proc[v]))
        /\ (At(v, "launch") => ~proc'[v].mine) /\ proc'[v].todo = proc[v].todo
        /\ proc'[v].removed = proc[v].removed /\ proc'[v].why = proc[v].why
  <2> TAKE v \in Processes
  <2>1. /\ proc[v] \in Proc /\ PhaseOK(proc[v]) /\ LooksOK(proc[v])
        /\ GuardsOK(proc[v])
    BY DEF WrapperInv, TypeOK
  <2>2. CASE At(v, "launch")
    <3>1. proc'[v] = Robbed(proc[v])
      BY <2>1, <2>2 DEF Reconcile, Robbed, Proc
    <3> QED BY <2>1, <3>1, RobbedProcess
  <2>3. CASE ~At(v, "launch")
    <3>1. proc'[v] = proc[v]
      BY <2>1, <2>3 DEF Reconcile, Proc
    <3> QED BY <2>1, <2>3, <3>1
  <2> QED BY <2>2, <2>3
<1>3. TypeOK'
  <2>1. proc' \in [Processes -> Proc]
    BY <1>2 DEF Reconcile
  <2> QED BY <1>1, <2>1 DEF WrapperInv, TypeOK, hostVars, backupVars
<1>4. RunInv'
  BY <1>2 DEF WrapperInv, RunInv, At
<1>5. RetentionInv'
  BY <1>1, <1>2 DEF WrapperInv, RetentionInv, Spare, OthersRemoved, backupVars
<1>6. \A v \in Processes : PhaseOK(proc[v])'
  BY <1>1, <1>2 DEF PhaseOK
<1>7. \A v \in Processes : LooksOK(proc[v])'
  BY <1>2
<1>8. \A v \in Processes : GuardsOK(proc[v])'
  <2>1. \A v \in Processes : GuardsOK(proc'[v])
    BY <1>2
  <2>2. node' = node /\ canonical' = canonical /\ filled' = filled
    BY <1>1 DEF hostVars
  <2> QED BY <2>1, <2>2 DEF GuardsOK, Shows, IsKind
<1> QED BY <1>3, <1>4, <1>5, <1>6, <1>7, <1>8 DEF WrapperInv
-----------------------------------------------------------------------------
(***************************************************************************)
(* A run up to the start of its wrapper.                                   *)
(***************************************************************************)
LEMMA RequestStep ==
  ASSUME WrapperInv, NEW w \in Processes, Request(w)
  PROVE  WrapperInv'
<1>1. UNCHANGED <<job, hostVars, text, clock, backupVars>> /\ At(w, "new")
  BY DEF Request
<1>2. PICK dry \in BOOLEAN :
        IF Compilable(job, dry)
        THEN proc' = [proc EXCEPT ![w].step = "compile", ![w].run = TRUE,
                                  ![w].dry = dry, ![w].looks = Compile(job)]
        ELSE End(w, "failed", "compile")
  BY DEF Request
<1>3. CASE ~Compilable(job, dry)
  BY <1>1, <1>2, <1>3, EndProcess
<1>4. CASE Compilable(job, dry)
  <2> DEFINE q == [proc[w] EXCEPT !.step = "compile", !.run = TRUE, !.dry = dry,
                                  !.looks = Compile(job)]
  <2>1. proc[w] \in Proc /\ PhaseOK(proc[w]) /\ proc[w].step = "new"
    BY <1>1 DEF WrapperInv, TypeOK, At
  <2>2. proc' = [proc EXCEPT ![w] = q]
    BY <1>2, <1>4 DEF WrapperInv, TypeOK
  <2>3. q \in Proc
    <3>1. Compile(job) \in Seq(LookType) /\ "compile" \in Steps
      BY JobType, CompileType DEF WrapperInv, Steps
    <3> QED BY <2>1, <3>1 DEF Proc
  <2>4. /\ q.step = "compile" /\ q.run /\ q.plan = proc[w].plan /\ q.todo = proc[w].todo
        /\ (q.mine <=> proc[w].mine) /\ (q.clean <=> proc[w].clean)
        /\ q.removed = proc[w].removed /\ q.why = proc[w].why
    BY <2>1 DEF Proc
  <2> HIDE DEF q
  <2>5. PhaseOK(q) /\ LooksOK(q) /\ GuardsOK(q)
    BY <2>1, <2>4 DEF PhaseOK, LooksOK, GuardsOK
  <2>6. \A v \in Processes \ {w} : ~Busy(proc[v])
    BY DEF Request, Busy
  <2>7. /\ \A b \in q.todo : Spare(b) /\ (b \in backups \/ OthersRemoved(w))
        /\ q.why = "candidate" => OthersRemoved(w)
    BY <2>4 DEF WrapperInv, RetentionInv
  <2>8. text' \in {NoPlan} \cup PlansOf(job) /\ clock' \in Nat
    BY <1>1 DEF WrapperInv, TypeOK, PlansOf
  <2> QED BY <1>1, <2>2, <2>3, <2>4, <2>5, <2>6, <2>7, <2>8, OneProcess
<1> QED BY <1>3, <1>4

LEMMA InstallStep ==
  ASSUME WrapperInv, NEW w \in Processes, Install(w)
  PROVE  WrapperInv'
<1>1. UNCHANGED <<job, hostVars, clock, backupVars>> /\ At(w, "install")
  BY DEF Install
<1>2. CASE End(w, "failed", "install") /\ UNCHANGED text
  BY <1>1, <1>2, EndProcess
<1>3. CASE /\ text' = PlanOf(job, proc[w].dry)
           /\ proc' = [proc EXCEPT ![w].step = "launch", ![w].mine = TRUE]
  <2> DEFINE q == [proc[w] EXCEPT !.step = "launch", !.mine = TRUE]
  <2>1. proc[w] \in Proc /\ PhaseOK(proc[w]) /\ proc[w].step = "install"
    BY <1>1 DEF WrapperInv, TypeOK, At
  <2>2. proc' = [proc EXCEPT ![w] = q]
    BY <1>3 DEF WrapperInv, TypeOK
  <2>3. q \in Proc
    BY <2>1 DEF Proc, Steps
  <2>4. /\ q.step = "launch" /\ (q.run <=> proc[w].run) /\ q.plan = proc[w].plan
        /\ q.todo = proc[w].todo /\ q.mine /\ (q.clean <=> proc[w].clean)
        /\ q.removed = proc[w].removed /\ q.why = proc[w].why /\ q.dry = proc[w].dry
    BY <2>1 DEF Proc
  <2> HIDE DEF q
  <2>5. PhaseOK(q) /\ LooksOK(q) /\ GuardsOK(q) /\ Busy(proc[w])
    BY <2>1, <2>4 DEF PhaseOK, LooksOK, GuardsOK, Busy, Occupied
  <2>6. \A v \in Processes \ {w} : ~At(v, "launch")
    <3>1. \A v \in Processes : At(v, "launch") => Busy(proc[v])
      BY DEF WrapperInv, PhaseOK, At, Busy, Occupied
    <3> QED BY <2>5, <3>1 DEF WrapperInv, RunInv
  <2>7. /\ \A b \in q.todo : Spare(b) /\ (b \in backups \/ OthersRemoved(w))
        /\ q.why = "candidate" => OthersRemoved(w)
    BY <2>4 DEF WrapperInv, RetentionInv
  <2>8. proc[w].dry \in BOOLEAN
    BY <2>1 DEF Proc
  <2>9. text' \in {NoPlan} \cup PlansOf(job) /\ clock' \in Nat
    BY <1>1, <1>3, <2>8 DEF WrapperInv, TypeOK, PlansOf
  <2> QED BY <1>1, <1>3, <2>2, <2>3, <2>4, <2>5, <2>6, <2>7, <2>9, OneProcess
<1> QED BY <1>2, <1>3 DEF Install

\* A dry run finds the text it has installed.
LEMMA LaunchStep ==
  ASSUME WrapperInv, NEW w \in Processes, Launch(w)
  PROVE  WrapperInv'
<1> DEFINE q == [proc[w] EXCEPT !.step = "guards", !.plan = text, !.looks = Render(text)]
<1>1. /\ UNCHANGED <<job, hostVars, text, clock, backupVars>> /\ text # NoPlan
      /\ proc[w].step \in {"launch", "new"}
  BY DEF Launch, At
<1>2. proc[w] \in Proc /\ PhaseOK(proc[w])
  BY DEF WrapperInv, TypeOK
<1>3. proc' = [proc EXCEPT ![w] = q]
  BY DEF Launch, WrapperInv, TypeOK
<1>4. text \in PlansOf(job) /\ text \in Plan
  <2>1. text \in PlansOf(job)
    BY <1>1 DEF WrapperInv, TypeOK, PlansOf
  <2> QED BY <2>1, JobType, PlanType DEF WrapperInv
<1>5. q \in Proc
  <2>1. Render(text) \in Seq(LookType) /\ "guards" \in Steps
    BY <1>4, RenderShape DEF Steps
  <2> QED BY <1>2, <1>4, <2>1 DEF Proc
<1>6. /\ q.step = "guards" /\ (q.run <=> proc[w].run) /\ q.plan = text
      /\ q.looks = Render(text) /\ (q.dry <=> proc[w].dry)
      /\ q.todo = proc[w].todo /\ (q.mine <=> proc[w].mine) /\ (q.clean <=> proc[w].clean)
      /\ q.removed = proc[w].removed /\ q.why = proc[w].why
  BY <1>2 DEF Proc
<1> HIDE DEF q
<1>7. proc[w].mine /\ proc[w].dry => text = PlanOf(job, TRUE)
  <2>1. proc[w].mine => At(w, "launch")
    BY <1>1, <1>2 DEF PhaseOK, At
  <2>2. proc[w].dry \in BOOLEAN
    BY <1>2 DEF Proc
  <2>3. proc[w].mine /\ proc[w].dry => text = PlanOf(job, proc[w].dry) /\ proc[w].dry = TRUE
    BY <2>1, <2>2 DEF WrapperInv, RunInv
  <2> QED BY <2>3
<1>8. PhaseOK(q) /\ ~q.clean
  BY <1>1, <1>2, <1>4, <1>6, <1>7 DEF PhaseOK
<1>9. LooksOK(q)
  <2> DEFINE all == Render(text)
             n == Len(RenderNonEmptySourceCheck(text))
             f == Len(Ending(text))
             e == Len(Prologue(text))
  <2>1. /\ all \in Seq(LookType) /\ e \in Nat /\ n \in Nat /\ Ending(text) \in Seq(Late)
        /\ Len(all) = e + 1 + n + f
    BY <1>4, RenderShape
  <2>2. f \in Nat /\ Len(all) \in Nat
    BY <2>1, LenProperties
  <2> HIDE DEF all, n, f, e
  <2>3. /\ Len(all) - Len(all) = 0 /\ ~(Len(all) <= n + f)
        /\ \A i \in 1..Len(all) : 0 + i = i
    BY <2>1, <2>2
  <2>4. /\ Len(all) - Len(all) \in Nat
        /\ \A i \in 1..Len(all) : all[i] = all[(Len(all) - Len(all)) + i]
    BY <2>3
  <2> QED BY <1>6, <1>8, <2>3, <2>4 DEF LooksOK, all, n, f
<1>10. GuardsOK(q)
  BY <1>8 DEF GuardsOK
<1>11. clock' \in Nat
  BY <1>1 DEF WrapperInv, TypeOK
<1>12. Busy(q) => Busy(proc[w])
  BY <1>1, <1>2, <1>6 DEF Busy, PhaseOK, Occupied
<1> QED BY <1>1, <1>3, <1>5, <1>6, <1>8, <1>9, <1>10, <1>11, <1>12, Advance
-----------------------------------------------------------------------------
(***************************************************************************)
(* Looks.                                                                  *)
(***************************************************************************)
LEMMA PassesShows ==
  ASSUME NEW w \in Processes, NEW l \in LookType, Passes(w, l)
  PROVE  Shows(proc[w].snap, l)
  BY DEF Passes, Shows, LookType

LEMMA SnapField ==
  ASSUME NEW me \in Proc, NEW s \in [Paths -> Seen \cup {Missing}]
  PROVE  LET q == [me EXCEPT !.snap = s] IN
         /\ q \in Proc
         /\ q.step = me.step /\ (q.run <=> me.run) /\ (q.dry <=> me.dry)
         /\ q.plan = me.plan /\ q.looks = me.looks /\ q.todo = me.todo
         /\ (q.clean <=> me.clean) /\ (q.mine <=> me.mine)
         /\ q.removed = me.removed /\ q.why = me.why
  BY DEF Proc

LEMMA UidField ==
  ASSUME NEW me \in Proc, NEW u \in Uids
  PROVE  LET q == [me EXCEPT !.uid = u] IN
         /\ q \in Proc
         /\ q.step = me.step /\ (q.run <=> me.run) /\ (q.dry <=> me.dry)
         /\ q.plan = me.plan /\ q.looks = me.looks /\ q.todo = me.todo
         /\ (q.clean <=> me.clean) /\ (q.mine <=> me.mine)
         /\ q.removed = me.removed /\ q.why = me.why
         /\ q.snap = me.snap /\ q.uid = u
  BY DEF Proc

LEMMA NotedFields ==
  ASSUME TypeOK, NEW w \in Processes, NEW l \in LookType, Passes(w, l), clock' \in Nat
  PROVE  LET q == Noted(w, l)
             me == proc[w]
         IN
         /\ q \in Proc
         /\ q.step = me.step /\ (q.run <=> me.run) /\ (q.dry <=> me.dry)
         /\ q.plan = me.plan /\ q.looks = me.looks /\ q.todo = me.todo
         /\ (q.clean <=> me.clean) /\ (q.mine <=> me.mine)
         /\ q.removed = me.removed /\ q.why = me.why
         /\ l \in Late => q.snap = me.snap /\ q.uid = me.uid
         /\ l.do = "owner" =>
              /\ q.snap = me.snap /\ me.snap["script"] # Missing
              /\ q.uid = me.snap["script"].uid /\ q.uid # Root
<1> DEFINE me == proc[w]
<1>1. me \in Proc
  BY DEF TypeOK
<1>2. l.at \in Paths
  BY DEF LookType
<1>3. CASE l.do = "snap"
  <2>1. node[l.at] \in Node \cup {Missing}
    BY <1>2 DEF TypeOK
  <2>2. Snapshot(node[l.at]) \in Seen \cup {Missing}
    BY <2>1 DEF Snapshot, Seen, Node
  <2>3. Noted(w, l) = [me EXCEPT !.snap[l.at] = Snapshot(node[l.at])]
    BY <1>3 DEF Noted
  <2>4. l \notin Late
    BY <1>3 DEF Late
  <2> DEFINE s == [me.snap EXCEPT ![l.at] = Snapshot(node[l.at])]
  <2>5. s \in [Paths -> Seen \cup {Missing}]
    BY <1>1, <2>2 DEF Proc
  <2>6. Noted(w, l) = [me EXCEPT !.snap = s]
    BY <1>1, <2>3 DEF Proc
  <2> HIDE DEF s, me
  <2>7. l.do # "owner"
    BY <1>3
  <2>8. /\ Noted(w, l) \in Proc
        /\ Noted(w, l).step = me.step /\ (Noted(w, l).run <=> me.run)
        /\ (Noted(w, l).dry <=> me.dry)
        /\ Noted(w, l).plan = me.plan /\ Noted(w, l).looks = me.looks
        /\ Noted(w, l).todo = me.todo
        /\ (Noted(w, l).clean <=> me.clean) /\ (Noted(w, l).mine <=> me.mine)
        /\ Noted(w, l).removed = me.removed /\ Noted(w, l).why = me.why
    BY <1>1, <2>5, <2>6, SnapField
  <2> QED BY <2>4, <2>7, <2>8 DEF me
<1>4. CASE l.do = "owner"
  <2>1. /\ me.snap["script"] # Missing /\ me.snap["script"].uid # Root
        /\ Noted(w, l) = [me EXCEPT !.uid = me.snap["script"].uid]
    BY <1>4 DEF Passes, Owner, Noted
  <2>2. me.snap["script"].uid \in Uids
    <3>1. me.snap["script"] \in Seen
      BY <1>1, <2>1 DEF Proc, Paths
    <3> QED BY <3>1 DEF Seen
  <2>3. l \notin Late
    BY <1>4 DEF Late
  <2> DEFINE u == me.snap["script"].uid
  <2> HIDE DEF u, me
  <2>4. LET q == [me EXCEPT !.uid = u] IN
        /\ q \in Proc
        /\ q.step = me.step /\ (q.run <=> me.run) /\ (q.dry <=> me.dry)
        /\ q.plan = me.plan /\ q.looks = me.looks /\ q.todo = me.todo
        /\ (q.clean <=> me.clean) /\ (q.mine <=> me.mine)
        /\ q.removed = me.removed /\ q.why = me.why
        /\ q.snap = me.snap /\ q.uid = u
    BY <1>1, <2>2, UidField DEF u
  <2> QED BY <2>1, <2>3, <2>4 DEF u, me
<1>5. CASE l.do = "fixed"
  <2>1. Noted(w, l) = [me EXCEPT !.uid = job.uid] /\ l \notin Late
    BY <1>5 DEF Noted, Late
  <2>2. job.uid \in Uids
    BY JobType
  <2> QED BY <1>1, <1>5, <2>1, <2>2 DEF Proc
<1>6. CASE l.do = "stamp"
  <2>1. Noted(w, l) = [me EXCEPT !.stamp = clock']
    BY <1>6 DEF Noted
  <2> QED BY <1>1, <1>6, <2>1 DEF Proc
<1>7. CASE l.do \notin {"snap", "owner", "fixed", "stamp"}
  <2>1. Noted(w, l) = me
    BY <1>7 DEF Noted
  <2> QED BY <1>1, <1>7, <2>1
<1> QED BY <1>3, <1>4, <1>5, <1>6, <1>7

\* What the head of the rest of Render is, and that the tail is a rest too.
LEMMA RestOfRender ==
  ASSUME NEW p \in Plan, NEW looks \in Seq(LookType), looks # << >>,
         Len(Render(p)) - Len(looks) \in Nat,
         \A i \in 1..Len(looks) : looks[i] = Render(p)[Len(Render(p)) - Len(looks) + i]
  PROVE  LET all == Render(p)
             final == Ending(p)
             k == Len(RenderNonEmptySourceCheck(p)) + Len(final)
             rest == Tail(looks)
         IN
         /\ Len(rest) = Len(looks) - 1 /\ Len(looks) \in Nat \ {0}
         /\ Len(final) \in Nat /\ rest \in Seq(LookType) /\ Head(looks) \in LookType
         /\ Len(all) - Len(rest) \in Nat
         /\ \A i \in 1..Len(rest) : rest[i] = all[Len(all) - Len(rest) + i]
         /\ Len(looks) <= k => Head(looks) \in Late
         /\ Len(looks) <= Len(final) => Len(looks) <= k
         /\ Len(rest) <= k /\ ~(Len(looks) <= k) => Head(looks).do = p.identity
         /\ Len(looks) <= Len(final) => Head(looks) = final[Len(final) - Len(looks) + 1]
<1> DEFINE all == Render(p)
           final == Ending(p)
           e == Len(Prologue(p))
           m == Len(all)
           f == Len(final)
           g == Len(RenderNonEmptySourceCheck(p))
           h == Len(looks)
           rest == Tail(looks)
<1>1. /\ e \in Nat /\ g \in Nat /\ f \in Nat /\ m = e + 1 + g + f
      /\ all[e + 1] = See(p.identity, "work")
      /\ \A i \in (e + 2)..m : all[i] \in Late
      /\ \A i \in 1..f : all[m - f + i] = final[i]
  <2>1. final \in Seq(Late)
    BY RenderShape
  <2> QED BY <2>1, RenderShape, LenProperties
<1>2. /\ Head(looks) \in LookType /\ rest \in Seq(LookType) /\ Len(rest) = h - 1
      /\ h \in Nat \ {0} /\ Head(looks) = looks[1]
      /\ \A i \in 1..Len(rest) : rest[i] = looks[i + 1]
  BY HeadTailProperties, EmptySeq
<1>3. m - h \in Nat /\ \A i \in 1..h : looks[i] = all[m - h + i]
  OBVIOUS
<1> HIDE DEF all, final, e, m, f, g, h, rest
<1>4. Head(looks) = all[m - h + 1]
  BY <1>2, <1>3
<1>5. m - Len(rest) = m - h + 1 /\ m \in Nat
  BY <1>1, <1>2
<1>6. \A i \in 1..Len(rest) : rest[i] = all[m - Len(rest) + i]
  <2>1. \A i \in 1..Len(rest) : i + 1 \in 1..h /\ m - h + (i + 1) = (m - h + 1) + i
    BY <1>2, <1>5
  <2>2. \A i \in 1..Len(rest) : rest[i] = all[m - h + (i + 1)]
    BY <1>2, <1>3, <2>1
  <2> QED BY <1>5, <2>1, <2>2
<1>7. h <= g + f => Head(looks) \in Late
  <2>1. h <= g + f => m - h + 1 \in (e + 2)..m
    BY <1>1, <1>2
  <2> QED BY <1>1, <1>4, <2>1
<1>8. h <= f => h <= g + f
  BY <1>1, <1>2
<1>9. h - 1 <= g + f /\ ~(h <= g + f) => Head(looks).do = p.identity
  <2>1. h - 1 <= g + f /\ ~(h <= g + f) => m - h + 1 = e + 1
    BY <1>1, <1>2
  <2> QED BY <1>1, <1>4, <2>1 DEF See
<1>10. h <= f => Head(looks) = final[f - h + 1]
  <2>1. h <= f => f - h + 1 \in 1..f /\ m - f + (f - h + 1) = m - h + 1
    BY <1>1, <1>2
  <2> QED BY <1>1, <1>4, <2>1
<1>11. m - Len(rest) \in Nat
  BY <1>3, <1>5
<1> QED BY <1>1, <1>2, <1>6, <1>7, <1>8, <1>9, <1>10, <1>11 DEF all, final, m, f, g, h, rest

LEMMA LookStep ==
  ASSUME WrapperInv, NEW w \in Processes, Look(w)
  PROVE  WrapperInv'
<1> DEFINE me == proc[w]
           l == Head(me.looks)
           b == me.clean \/ Begins(w)
           q == [Noted(w, l) EXCEPT !.looks = Tail(me.looks), !.clean = b]
<1>1. /\ me.step \in {"compile", "guards"} /\ me.looks # << >> /\ Passes(w, l)
      /\ UNCHANGED <<job, hostVars, text, backupVars>>
  BY DEF Look
<1>2. me \in Proc /\ PhaseOK(me) /\ LooksOK(me) /\ GuardsOK(me) /\ TypeOK
  BY DEF WrapperInv, TypeOK
<1>3. me.looks \in Seq(LookType)
  BY <1>2 DEF Proc
<1>4. /\ l \in LookType /\ Tail(me.looks) \in Seq(LookType)
      /\ Len(Tail(me.looks)) = Len(me.looks) - 1 /\ Len(me.looks) \in Nat \ {0}
      /\ l = me.looks[1]
      /\ \A i \in 1..Len(Tail(me.looks)) : Tail(me.looks)[i] = me.looks[i + 1]
  BY <1>1, <1>3, HeadTailProperties, EmptySeq
<1>5. clock' \in Nat
  BY <1>2 DEF Look, TypeOK
<1>6. /\ Noted(w, l) \in Proc
      /\ Noted(w, l).step = me.step /\ (Noted(w, l).run <=> me.run)
      /\ (Noted(w, l).dry <=> me.dry) /\ Noted(w, l).plan = me.plan
      /\ Noted(w, l).looks = me.looks /\ Noted(w, l).todo = me.todo
      /\ (Noted(w, l).clean <=> me.clean) /\ (Noted(w, l).mine <=> me.mine)
      /\ Noted(w, l).removed = me.removed /\ Noted(w, l).why = me.why
      /\ l \in Late => Noted(w, l).snap = me.snap /\ Noted(w, l).uid = me.uid
      /\ l.do = "owner" =>
           /\ Noted(w, l).snap = me.snap /\ me.snap["script"] # Missing
           /\ Noted(w, l).uid = me.snap["script"].uid /\ Noted(w, l).uid # Root
  BY <1>1, <1>2, <1>4, <1>5, NotedFields
<1>7. proc' = [proc EXCEPT ![w] = q]
  <2>1. proc' = [proc EXCEPT ![w] =
          [Noted(w, l) EXCEPT !.looks = Tail(Noted(w, l).looks),
                              !.clean = Noted(w, l).clean \/ Begins(w)]]
    BY DEF Look
  <2>2. (Noted(w, l).clean \/ Begins(w)) = b
    BY <1>6
  <2> QED BY <1>6, <2>1, <2>2
<1> HIDE DEF l
<1>8. /\ q \in Proc
      /\ q.step = me.step /\ (q.run <=> me.run) /\ (q.dry <=> me.dry) /\ q.plan = me.plan
      /\ q.looks = Tail(me.looks) /\ q.todo = me.todo
      /\ (q.clean <=> me.clean \/ Begins(w)) /\ (q.mine <=> me.mine)
      /\ q.removed = me.removed /\ q.why = me.why
      /\ q.snap = Noted(w, l).snap /\ q.uid = Noted(w, l).uid
  <2> DEFINE r == Noted(w, l)
  <2>1. r \in Proc /\ b \in BOOLEAN
    BY <1>6
  <2> HIDE DEF r, b
  <2>2. LET x == [r EXCEPT !.looks = Tail(me.looks), !.clean = b] IN
        /\ x \in Proc
        /\ x.step = r.step /\ (x.run <=> r.run) /\ (x.dry <=> r.dry) /\ x.plan = r.plan
        /\ x.looks = Tail(me.looks) /\ x.todo = r.todo
        /\ (x.clean <=> b) /\ (x.mine <=> r.mine)
        /\ x.removed = r.removed /\ x.why = r.why /\ x.snap = r.snap /\ x.uid = r.uid
    BY <1>4, <2>1 DEF Proc
  <2> QED BY <1>6, <2>2 DEF r, b
<1> HIDE DEF q
<1>9. PhaseOK(q)
  BY <1>1, <1>2, <1>8 DEF PhaseOK, Begins, At
<1>10. ASSUME me.step = "compile" PROVE LooksOK(q) /\ GuardsOK(q)
  <2>1. ~q.clean
    BY <1>2, <1>8, <1>10 DEF PhaseOK, Begins, At
  <2> QED BY <1>8, <1>10, <2>1 DEF LooksOK, GuardsOK
<1>11. ASSUME me.step = "guards" PROVE LooksOK(q) /\ GuardsOK(q)
  <2> DEFINE all == Render(me.plan)
             final == Ending(me.plan)
             k == Len(RenderNonEmptySourceCheck(me.plan)) + Len(final)
             h == Len(me.looks)
  <2>1. me.plan \in Plan
    BY <1>2, <1>11, JobType, PlanType DEF PhaseOK
  <2>2. /\ Len(all) - h \in Nat /\ \A i \in 1..h : me.looks[i] = all[Len(all) - h + i]
        /\ me.plan.identity = "owner" /\ h <= k =>
             /\ me.uid # Root /\ me.snap["script"] # Missing
             /\ me.uid = me.snap["script"].uid
        /\ me.clean => h < Len(final)
    BY <1>2, <1>11 DEF LooksOK
  <2>3. /\ Len(q.looks) = h - 1 /\ h \in Nat \ {0} /\ Len(final) \in Nat
        /\ Len(all) - Len(q.looks) \in Nat
        /\ \A i \in 1..Len(q.looks) : q.looks[i] = all[Len(all) - Len(q.looks) + i]
        /\ h <= k => l \in Late
        /\ h <= Len(final) => h <= k
        /\ Len(q.looks) <= k /\ ~(h <= k) => l.do = me.plan.identity
        /\ h <= Len(final) => l = final[Len(final) - h + 1]
    <3> DEFINE rest == Tail(me.looks)
    <3>1. /\ Len(rest) = h - 1 /\ h \in Nat \ {0} /\ Len(final) \in Nat
          /\ Len(all) - Len(rest) \in Nat
          /\ \A i \in 1..Len(rest) : rest[i] = all[Len(all) - Len(rest) + i]
          /\ h <= k => Head(me.looks) \in Late
          /\ h <= Len(final) => h <= k
          /\ Len(rest) <= k /\ ~(h <= k) => Head(me.looks).do = me.plan.identity
          /\ h <= Len(final) => Head(me.looks) = final[Len(final) - h + 1]
      BY <1>1, <1>3, <2>1, <2>2, RestOfRender
    <3> QED BY <1>8, <3>1 DEF l
  <2>4. Begins(w) => h = Len(final)
    BY DEF Begins
  <2> HIDE DEF all, final, k, h
  <2>5. h <= k => q.snap = me.snap /\ q.uid = me.uid
    BY <1>6, <1>8, <2>3
  <2>6. me.plan.identity = "owner" /\ Len(q.looks) <= k =>
          /\ q.uid # Root /\ q.snap["script"] # Missing
          /\ q.uid = q.snap["script"].uid
    <3>1. CASE h <= k
      BY <2>2, <2>5, <3>1
    <3>2. CASE ~(h <= k)
      BY <1>6, <1>8, <2>3, <3>2
    <3> QED BY <3>1, <3>2
  <2>7. q.clean => h <= Len(final) /\ (me.clean \/ h = Len(final))
    BY <1>8, <2>2, <2>3, <2>4
  <2>8. q.clean => Len(q.looks) < Len(final)
    BY <2>3, <2>7
  <2>9. LooksOK(q)
    BY <1>8, <2>3, <2>6, <2>8 DEF LooksOK, all, final, k
  <2>10. ASSUME q.clean, NEW i \in 1..(Len(final) - Len(q.looks))
         PROVE  Shows(q.snap, final[i])
    <3>1. h <= Len(final) /\ q.snap = me.snap
      BY <2>3, <2>5, <2>7, <2>10
    <3>2. CASE i = Len(final) - h + 1
      <4>1. Shows(me.snap, l)
        BY <1>1, <1>4, PassesShows
      <4> QED BY <2>3, <3>1, <3>2, <4>1
    <3>3. CASE i # Len(final) - h + 1
      <4>1. i \in 1..(Len(final) - h)
        BY <2>3, <2>10, <3>3
      <4>2. me.clean
        BY <2>3, <2>7, <2>10, <4>1
      <4> QED BY <1>2, <3>1, <4>1, <4>2 DEF GuardsOK, final, h
    <3> QED BY <3>2, <3>3
  <2>11. GuardsOK(q)
    BY <1>8, <2>10 DEF GuardsOK, final
  <2> QED BY <2>9, <2>11
<1>12. Busy(q) => Busy(me)
  BY <1>8 DEF Busy
<1>13. q.step # "launch"
  BY <1>1, <1>8
<1>14. LooksOK(q) /\ GuardsOK(q)
  BY <1>1, <1>10, <1>11
<1> QED BY <1>1, <1>5, <1>7, <1>8, <1>9, <1>12, <1>13, <1>14, Advance

LEMMA LookFailsStep ==
  ASSUME WrapperInv, NEW w \in Processes, LookFails(w)
  PROVE  WrapperInv'
<1> DEFINE why == proc[w].step
<1>1. why \in {"compile", "guards"} /\ End(w, "failed", why)
  BY DEF LookFails
<1>2. UNCHANGED <<job, hostVars, text, clock, backupVars>>
  BY DEF LookFails
<1> HIDE DEF why
<1> QED BY <1>1, <1>2, EndProcess

\* A process that only takes a step.
LEMMA StepField ==
  ASSUME NEW me \in Proc, NEW st \in Steps
  PROVE  LET q == [me EXCEPT !.step = st] IN
         /\ q \in Proc
         /\ q.step = st /\ (q.run <=> me.run) /\ (q.dry <=> me.dry)
         /\ q.plan = me.plan /\ q.todo = me.todo
         /\ (q.clean <=> me.clean) /\ (q.mine <=> me.mine)
         /\ q.removed = me.removed /\ q.why = me.why
  BY DEF Proc

LEMMA GotoStep ==
  ASSUME WrapperInv, NEW w \in Processes, NEW st \in {"install", "glob", "remove", "hook"},
         Goto(w, st), UNCHANGED <<job, hostVars, text, clock, backupVars>>,
         proc[w].step \in Occupied \ {"guards"},
         st = "install" => proc[w].step = "compile",
         st = "hook" => proc[w].run /\ proc[w].step \in {"running", "retain"},
         st = "glob" =>
           /\ proc[w].step = "running"
           /\ proc[w].plan.keep = job.keep /\ proc[w].plan # PlanOf(job, TRUE),
         st = "remove" => proc[w].step = "retain" /\ proc[w].todo # {}
  PROVE  WrapperInv'
<1> DEFINE me == proc[w]
           q == [me EXCEPT !.step = st]
<1>1. me \in Proc /\ PhaseOK(me)
  BY DEF WrapperInv, TypeOK
<1>2. proc' = [proc EXCEPT ![w] = q]
  BY DEF Goto, WrapperInv, TypeOK
<1>3. st \in Steps
  BY DEF Steps
<1>4. /\ q \in Proc
      /\ q.step = st /\ (q.run <=> me.run) /\ (q.dry <=> me.dry)
      /\ q.plan = me.plan /\ q.todo = me.todo
      /\ (q.clean <=> me.clean) /\ (q.mine <=> me.mine)
      /\ q.removed = me.removed /\ q.why = me.why
  BY <1>1, <1>3, StepField
<1> HIDE DEF q
<1>5. PhaseOK(q) /\ ~q.clean
  BY <1>1, <1>4 DEF PhaseOK
<1>6. LooksOK(q) /\ GuardsOK(q)
  BY <1>4, <1>5 DEF LooksOK, GuardsOK
<1>7. Busy(q) => Busy(me)
  BY <1>4 DEF Busy
<1>8. clock' \in Nat
  BY DEF WrapperInv, TypeOK
<1> QED BY <1>2, <1>4, <1>5, <1>6, <1>7, <1>8, Advance

LEMMA CompiledStep ==
  ASSUME WrapperInv, NEW w \in Processes, Compiled(w)
  PROVE  WrapperInv'
  BY GotoStep DEF Compiled, At, Occupied

LEMMA SucceedsStep ==
  ASSUME WrapperInv, NEW w \in Processes, Succeeds(w),
         proc[w].step \in {"running", "retain"},
         UNCHANGED <<job, hostVars, text, clock, backupVars>>
  PROVE  WrapperInv'
<1>1. CASE proc[w].run
  BY <1>1, GotoStep DEF Succeeds, Occupied
<1>2. CASE ~proc[w].run
  BY <1>2, EndProcess DEF Succeeds
<1> QED BY <1>1, <1>2
-----------------------------------------------------------------------------
(***************************************************************************)
(* The action and the retention.                                           *)
(***************************************************************************)
LEMMA ExecStep ==
  ASSUME WrapperInv, NEW w \in Processes, Exec(w)
  PROVE  WrapperInv'
<1> DEFINE me == proc[w]
           s == NewProcess.snap
           q == [me EXCEPT !.step = "running", !.snap = s, !.clean = FALSE]
<1>1. me \in Proc /\ PhaseOK(me)
  BY DEF WrapperInv, TypeOK
<1>2. me.step = "guards" /\ UNCHANGED <<job, hostVars, text, clock, backupVars>>
  BY DEF Exec, At
<1>3. s \in [Paths -> Seen \cup {Missing}]
  BY NewProcessType DEF Proc
<1>4. proc' = [proc EXCEPT ![w] = q]
  BY DEF Exec, WrapperInv, TypeOK
<1> HIDE DEF s
<1>5. q \in Proc
  BY <1>1, <1>3 DEF Proc, Steps
<1>6. /\ q.step = "running" /\ (q.run <=> me.run) /\ (q.dry <=> me.dry)
      /\ q.plan = me.plan /\ q.todo = me.todo /\ ~q.clean /\ (q.mine <=> me.mine)
      /\ q.removed = me.removed /\ q.why = me.why
  BY <1>1 DEF Proc
<1> HIDE DEF q
<1>7. PhaseOK(q)
  BY <1>1, <1>2, <1>6 DEF PhaseOK
<1>8. LooksOK(q) /\ GuardsOK(q)
  BY <1>6 DEF LooksOK, GuardsOK
<1>9. Busy(q) => Busy(me)
  BY <1>2, <1>6 DEF Busy, Occupied
<1>10. clock' \in Nat
  BY <1>2 DEF WrapperInv, TypeOK
<1> QED BY <1>2, <1>4, <1>5, <1>6, <1>7, <1>8, <1>9, <1>10, Advance

LEMMA CommandEndsStep ==
  ASSUME WrapperInv, NEW w \in Processes, CommandEnds(w)
  PROVE  WrapperInv'
<1> DEFINE p == proc[w].plan
<1>1. proc[w].step = "running" /\ UNCHANGED <<job, hostVars, text, clock, backupVars>>
  BY DEF CommandEnds, At
<1>2. CASE End(w, "failed", "command")
  BY <1>1, <1>2, EndProcess
<1>3. CASE Succeeds(w)
  BY <1>1, <1>3, SucceedsStep
<1>4. CASE p.keep > 0 /\ Goto(w, "glob")
  <2>1. p \in PlansOf(job)
    BY <1>1 DEF WrapperInv, PhaseOK
  <2> DEFINE d == PlanOf(job, TRUE)
             e == PlanOf(job, FALSE)
  <2>2. d.keep = 0 /\ e.keep = job.keep
    BY DEF PlanOf
  <2>5. p \in {d, e}
    BY <2>1 DEF PlansOf
  <2> HIDE DEF d, e
  <2>3. p # d
    BY <1>4, <2>2
  <2>4. p.keep = job.keep
    BY <2>2, <2>3, <2>5
  <2> QED BY <1>1, <1>4, <2>3, <2>4, GotoStep DEF Occupied, d
<1> QED BY <1>2, <1>3, <1>4 DEF CommandEnds

\* A process that takes a step with a list.
Listing(me, st, t, r) == [me EXCEPT !.step = st, !.todo = t, !.removed = r]
LEMMA TodoField ==
  ASSUME NEW me \in Proc, NEW st \in Steps, NEW t \in SUBSET Names,
         NEW r \in SUBSET Names
  PROVE  LET q == Listing(me, st, t, r) IN
         /\ q \in Proc
         /\ q.step = st /\ (q.run <=> me.run) /\ (q.dry <=> me.dry)
         /\ q.plan = me.plan /\ q.todo = t
         /\ (q.clean <=> me.clean) /\ (q.mine <=> me.mine)
         /\ q.removed = r /\ q.why = me.why
  BY DEF Proc, Listing

\* A list made now names backups that are there and can be spared.
LEMMA ListStep ==
  ASSUME WrapperInv, NEW w \in Processes, NEW st \in {"retain", "rotate"},
         proc' = [proc EXCEPT ![w].step = st, ![w].todo = Excess(backups, job.keep)],
         st = "retain" => proc[w].step = "glob",
         st = "rotate" => proc[w].step = "hook" /\ ~proc[w].dry,
         UNCHANGED <<job, hostVars, text, clock, backupVars>>
  PROVE  WrapperInv'
<1> DEFINE me == proc[w]
           t == Excess(backups, job.keep)
           r == me.removed
           q == Listing(me, st, t, r)
<1>1. me \in Proc /\ PhaseOK(me) /\ r \in SUBSET Names
  BY DEF WrapperInv, TypeOK, Proc
<1>2. proc' = [proc EXCEPT ![w] = q]
  BY <1>1 DEF WrapperInv, TypeOK, Proc, Listing
<1>3. \A b \in t : b \in backups /\ Spare(b)
  BY DEF Excess, Spare, Newer
<1>4. t \in SUBSET Names /\ st \in Steps
  BY <1>3 DEF WrapperInv, TypeOK, Steps
<1> HIDE DEF t, r
<1>5. /\ q \in Proc
      /\ q.step = st /\ (q.run <=> me.run) /\ (q.dry <=> me.dry)
      /\ q.plan = me.plan /\ q.todo = t
      /\ (q.clean <=> me.clean) /\ (q.mine <=> me.mine)
      /\ q.removed = r /\ q.why = me.why
  BY <1>1, <1>4, TodoField
<1> HIDE DEF q
<1>6. PhaseOK(q) /\ ~q.clean
  BY <1>1, <1>5 DEF PhaseOK
<1>7. LooksOK(q) /\ GuardsOK(q)
  BY <1>5, <1>6 DEF LooksOK, GuardsOK
<1>8. Busy(q) => Busy(me)
  BY <1>5 DEF Busy, Occupied
<1>9. clock' \in Nat /\ text' \in {NoPlan} \cup PlansOf(job)
  BY DEF WrapperInv, TypeOK, PlansOf
<1>10. q.why = "candidate" => OthersRemoved(w)
  BY <1>5 DEF WrapperInv, RetentionInv
<1>11. q.removed = proc[w].removed
  BY <1>5 DEF r
<1> QED BY <1>2, <1>3, <1>5, <1>6, <1>7, <1>8, <1>9, <1>10, <1>11, OneProcess

LEMMA GlobStep ==
  ASSUME WrapperInv, NEW w \in Processes, Glob(w)
  PROVE  WrapperInv'
<1>1. proc[w].step = "glob" /\ proc[w].plan.keep = job.keep
  BY DEF Glob, At, WrapperInv, PhaseOK
<1> QED BY <1>1, ListStep DEF Glob

LEMMA HookStep ==
  ASSUME WrapperInv, NEW w \in Processes, Hook(w)
  PROVE  WrapperInv'
<1>1. proc[w].step = "hook" /\ UNCHANGED <<job, hostVars, text, clock, backupVars>>
  BY DEF Hook, At
<1>2. CASE /\ ~proc[w].dry
           /\ proc' = [proc EXCEPT ![w].step = "rotate",
                                   ![w].todo = Excess(backups, job.keep)]
  BY <1>1, <1>2, ListStep
<1>3. CASE End(w, "done", "none")
  BY <1>1, <1>3, EndProcess
<1> QED BY <1>2, <1>3 DEF Hook

\* A candidate that has vanished was removed by somebody else.
LEMMA RetainStep ==
  ASSUME WrapperInv, NEW w \in Processes, Retain(w)
  PROVE  WrapperInv'
<1> DEFINE t == proc[w].todo
<1>1. proc[w].step = "retain" /\ UNCHANGED <<job, hostVars, text, clock, backupVars>>
  BY DEF Retain, At
<1>2. t \subseteq Names
  BY DEF WrapperInv, TypeOK, Proc
<1>3. CASE Succeeds(w)
  BY <1>1, <1>3, SucceedsStep
<1>4. CASE t # {} /\ Goto(w, "remove")
  BY <1>1, <1>4, GotoStep DEF Occupied
<1>5. CASE t # {} /\ Oldest(t) \notin backups /\ End(w, "failed", "candidate")
  <2>1. Oldest(t) \in t
    BY <1>2, <1>5, OldestIn
  <2>2. OthersRemoved(w)
    BY <1>5, <2>1 DEF WrapperInv, RetentionInv
  <2> QED BY <1>1, <1>5, <2>2, EndProcess
<1> QED BY <1>3, <1>4, <1>5 DEF Retain

LEMMA MakeBackupStep ==
  ASSUME WrapperInv, NEW w \in Processes, MakeBackup(w)
  PROVE  WrapperInv'
<1>1. /\ UNCHANGED <<job, hostVars, text, clock, proc>>
      /\ backups' = backups \cup {Name(w)} /\ made' = made \cup {Name(w)}
  BY DEF MakeBackup
<1>2. Name(w) \in Names
  BY DEF WrapperInv, TypeOK, Proc, Name, Names
<1>3. TypeOK'
  BY <1>1, <1>2 DEF WrapperInv, TypeOK, hostVars
<1>4. RunInv'
  BY <1>1 DEF WrapperInv, RunInv, At
<1>5. RetentionInv'
  <2>1. backups \subseteq Names /\ IsFiniteSet(backups) /\ job.keep \in Nat
    BY JobType DEF WrapperInv, TypeOK, RetentionInv
  <2>2. \A b : Spare(b) => Spare(b)'
    BY <1>1, <2>1, AddSpare
  <2>3. IsFiniteSet(backups')
    BY <1>1, <2>1, FS_AddElement
  <2>4. made' \ backups' \subseteq made \ backups
    BY <1>1
  <2>5. \A v \in Processes : OthersRemoved(v)' <=> OthersRemoved(v)
    BY <1>1 DEF OthersRemoved
  <2> QED BY <1>1, <2>2, <2>3, <2>4, <2>5 DEF WrapperInv, RetentionInv
<1>6. \A v \in Processes : (PhaseOK(proc[v]) /\ LooksOK(proc[v]) /\ GuardsOK(proc[v]))'
  <2>1. node' = node /\ canonical' = canonical /\ filled' = filled /\ job' = job
        /\ proc' = proc
    BY <1>1 DEF hostVars
  <2>2. \A v \in Processes : PhaseOK(proc[v])'
    BY <2>1 DEF WrapperInv, PhaseOK
  <2>3. \A v \in Processes : LooksOK(proc[v])'
    BY <2>1 DEF WrapperInv
  <2>4. \A v \in Processes : GuardsOK(proc[v])'
    BY <2>1 DEF WrapperInv, GuardsOK, Shows, IsKind
  <2> QED BY <2>2, <2>3, <2>4
<1> QED BY <1>3, <1>4, <1>5, <1>6 DEF WrapperInv

\* The oldest of a list goes: what is on other lists can still be spared, and
\* if it was on one of them, the list's owner can tell.
LEMMA RemoveStep ==
  ASSUME WrapperInv, NEW w \in Processes, NEW st \in {"retain", "rotate"}, Remove(w, st),
         st = "retain" => proc[w].step = "remove",
         st = "rotate" => proc[w].step = "rotate" /\ proc[w].todo # {},
         UNCHANGED <<job, hostVars, text, clock>>
  PROVE  WrapperInv'
<1> DEFINE me == proc[w]
           b == Oldest(me.todo)
           t == me.todo \ {b}
           r == me.removed \cup {b}
           q == Listing(me, st, t, r)
<1>1. me \in Proc /\ PhaseOK(me) /\ me.todo \subseteq Names /\ me.removed \subseteq Names
  BY DEF WrapperInv, TypeOK, Proc
<1>2. me.todo # {}
  BY <1>1 DEF PhaseOK
<1>3. b \in me.todo /\ b \in Names
  BY <1>1, <1>2, OldestIn
<1>4. backups' = backups \ {b} /\ made' = made
  BY DEF Remove
<1>5. proc' = [proc EXCEPT ![w] = q]
  BY DEF Remove, WrapperInv, TypeOK, Listing
<1>6. t \in SUBSET Names /\ r \in SUBSET Names /\ st \in Steps
  BY <1>1, <1>3 DEF Steps
<1>7. t \subseteq me.todo /\ b \notin t /\ r # {}
  OBVIOUS
<1> HIDE DEF t, r, b
<1>8. /\ q \in Proc
      /\ q.step = st /\ (q.run <=> me.run) /\ (q.dry <=> me.dry)
      /\ q.plan = me.plan /\ q.todo = t
      /\ (q.clean <=> me.clean) /\ (q.mine <=> me.mine)
      /\ q.removed = r /\ q.why = me.why
  BY <1>1, <1>6, TodoField
<1> HIDE DEF q
<1>9. /\ proc'[w] = q /\ \A v \in Processes : v # w => proc'[v] = proc[v]
      /\ proc' \in [Processes -> Proc]
  BY <1>5, <1>8 DEF WrapperInv, TypeOK
<1>10. TypeOK'
  BY <1>4, <1>9 DEF WrapperInv, TypeOK, hostVars
<1>11. RunInv'
  <2>1. \A v \in Processes : At(v, "launch")' /\ proc'[v].mine =>
          text' = PlanOf(job', proc'[v].dry)
    BY <1>8, <1>9 DEF WrapperInv, RunInv, At
  <2>2. \A v \in Processes : Busy(proc'[v]) => Busy(proc[v])
    BY <1>8, <1>9 DEF Busy, Occupied
  <2> QED BY <2>1, <2>2 DEF WrapperInv, RunInv
<1>12. RetentionInv'
  <2>1. backups \subseteq Names /\ made \subseteq Names /\ IsFiniteSet(backups)
        /\ job.keep \in Nat
    BY JobType DEF WrapperInv, TypeOK, RetentionInv
  <2>2. Spare(b)
    BY <1>3 DEF WrapperInv, RetentionInv
  <2>3. \A c \in Names : Spare(c) => Spare(c)'
    BY <1>3, <1>4, <2>1, <2>2, RemoveSpare
  <2>4. IsFiniteSet(backups')
    BY <1>4, <2>1, FS_Subset
  <2>5. \A c \in made' \ backups' : Spare(c)'
    BY <1>3, <1>4, <2>1, <2>2, <2>3 DEF WrapperInv, RetentionInv
  <2>6. \A v \in Processes : proc'[v].todo \subseteq proc[v].todo
    BY <1>7, <1>8, <1>9
  <2>7. \A v \in Processes : proc[v].todo \subseteq Names
    BY DEF WrapperInv, TypeOK, Proc
  <2>8. \A v \in Processes : \A c \in proc'[v].todo : Spare(c)'
    BY <2>3, <2>6, <2>7 DEF WrapperInv, RetentionInv
  <2>9. \A v \in Processes : OthersRemoved(v) => OthersRemoved(v)'
    BY <1>7, <1>8, <1>9 DEF OthersRemoved
  <2>10. \A v \in Processes : v # w => OthersRemoved(v)'
    BY <1>7, <1>8, <1>9 DEF OthersRemoved
  <2>11. \A v \in Processes : \A c \in proc'[v].todo : c \in backups' \/ OthersRemoved(v)'
    <3> TAKE v \in Processes
    <3> TAKE c \in proc'[v].todo
    <3>1. c \in backups \/ OthersRemoved(v)
      BY <2>6 DEF WrapperInv, RetentionInv
    <3>2. v = w => c # b
      BY <1>7, <1>8, <1>9
    <3> QED BY <1>4, <2>9, <2>10, <3>1, <3>2
  <2>12. \A v \in Processes : proc'[v].why = "candidate" => OthersRemoved(v)'
    BY <1>8, <1>9, <2>9 DEF WrapperInv, RetentionInv
  <2> QED BY <2>4, <2>5, <2>8, <2>11, <2>12 DEF RetentionInv
<1>13. PhaseOK(q) /\ ~q.clean
  BY <1>1, <1>8 DEF PhaseOK
<1>14. LooksOK(q) /\ GuardsOK(q)
  BY <1>8, <1>13 DEF LooksOK, GuardsOK
<1>15. \A v \in Processes : (PhaseOK(proc[v]) /\ LooksOK(proc[v]) /\ GuardsOK(proc[v]))'
  <2>1. node' = node /\ canonical' = canonical /\ filled' = filled /\ job' = job
    BY DEF hostVars
  <2>2. \A v \in Processes :
          PhaseOK(proc'[v]) /\ LooksOK(proc'[v]) /\ GuardsOK(proc'[v])
    BY <1>9, <1>13, <1>14 DEF WrapperInv
  <2>3. \A v \in Processes : PhaseOK(proc[v])'
    BY <2>1, <2>2 DEF PhaseOK
  <2>4. \A v \in Processes : LooksOK(proc[v])'
    BY <2>2
  <2>5. \A v \in Processes : GuardsOK(proc[v])'
    BY <2>1, <2>2 DEF GuardsOK, Shows, IsKind
  <2> QED BY <2>3, <2>4, <2>5
<1> QED BY <1>10, <1>11, <1>12, <1>15 DEF WrapperInv

LEMMA RetainRemoveStep ==
  ASSUME WrapperInv, NEW w \in Processes, RetainRemove(w)
  PROVE  WrapperInv'
<1>1. proc[w].step = "remove" /\ UNCHANGED <<job, hostVars, text, clock>>
  BY DEF RetainRemove, At
<1>2. CASE Remove(w, "retain")
  BY <1>1, <1>2, RemoveStep
<1>3. CASE End(w, "failed", "rm") /\ UNCHANGED backupVars
  BY <1>1, <1>3, EndProcess
<1> QED BY <1>2, <1>3 DEF RetainRemove

LEMMA RotateStep ==
  ASSUME WrapperInv, NEW w \in Processes, Rotate(w)
  PROVE  WrapperInv'
<1>1. proc[w].step = "rotate" /\ UNCHANGED <<job, hostVars, text, clock>>
  BY DEF Rotate, At
<1>2. CASE proc[w].todo # {} /\ Remove(w, "rotate")
  BY <1>1, <1>2, RemoveStep
<1>3. CASE End(w, "done", "none") /\ UNCHANGED backupVars
  BY <1>1, <1>3, EndProcess
<1> QED BY <1>2, <1>3 DEF Rotate

LEMMA KillStep ==
  ASSUME WrapperInv, NEW w \in Processes, Kill(w)
  PROVE  WrapperInv'
  BY EndProcess DEF Kill

LEMMA WrapperStep == WrapperInv /\ [Next]_vars => WrapperInv'
<1> SUFFICES ASSUME WrapperInv, [Next]_vars PROVE WrapperInv'
  OBVIOUS
<1>1. ASSUME NEW w \in Processes, Process(w) PROVE WrapperInv'
  BY <1>1, RequestStep, InstallStep, LaunchStep, LookStep, LookFailsStep, CompiledStep,
     ExecStep, MakeBackupStep, EffectStep, CommandEndsStep, GlobStep, RetainStep,
     RetainRemoveStep, HookStep, RotateStep, KillStep DEF Process
<1>2. CASE UNCHANGED vars
  <2>1. /\ job' = job /\ node' = node /\ canonical' = canonical /\ filled' = filled
        /\ accounts' = accounts /\ changes' = changes /\ text' = text /\ clock' = clock
        /\ backups' = backups /\ made' = made /\ proc' = proc
    BY <1>2 DEF vars, hostVars, backupVars
  <2>2. TypeOK' /\ RunInv'
    BY <2>1 DEF WrapperInv, TypeOK, RunInv, At
  <2>3. RetentionInv'
    BY <2>1 DEF WrapperInv, RetentionInv, Spare, OthersRemoved
  <2>4. \A v \in Processes : PhaseOK(proc[v])'
    BY <2>1 DEF WrapperInv, PhaseOK
  <2>5. \A v \in Processes : LooksOK(proc[v])'
    BY <2>1 DEF WrapperInv
  <2>6. \A v \in Processes : GuardsOK(proc[v])'
    BY <2>1 DEF WrapperInv, GuardsOK, Shows, IsKind
  <2> QED BY <2>2, <2>3, <2>4, <2>5, <2>6 DEF WrapperInv
<1> QED BY <1>1, <1>2, HostChangesStep, ReconcileStep DEF Next

\* WrapperInv holds in every reachable state, for any processes, jobs and hosts.
THEOREM WrapperInvariant == Spec => []WrapperInv
  BY InitWrapper, WrapperStep, PTL DEF Spec
-----------------------------------------------------------------------------
(***************************************************************************)
(* The properties.                                                         *)
(***************************************************************************)
\* What processes, host and installed text hold keeps its type; in particular the
\* installed text is always one of the job's two plans.
THEOREM WrapperTypeCorrect == Spec => []TypeOK
  BY WrapperInvariant, PTL DEF WrapperInv

\* A run requested as dry executes the text of a dry run and removes no backup,
\* unless its text was replaced between its Install and its Launch.
\* (execute, WrapperStore.Install, handleRunTerminalEffects)
THEOREM DryRunsStayDry == Spec => []DryStaysDry
<1>1. WrapperInv => DryStaysDry
  <2> SUFFICES ASSUME WrapperInv, NEW w \in Processes,
                      proc[w].run, proc[w].dry, proc[w].mine
               PROVE  /\ proc[w].plan # NoPlan => proc[w].plan.dry
                      /\ proc[w].step \notin {"glob", "retain", "remove", "rotate"}
    BY DEF DryStaysDry
  <2>1. PhaseOK(proc[w])
    BY DEF WrapperInv
  <2>2. /\ proc[w].step \notin {"glob", "retain", "remove", "rotate"}
        /\ proc[w].plan \in {NoPlan, PlanOf(job, TRUE)}
    BY <2>1 DEF PhaseOK
  <2>3. PlanOf(job, TRUE).dry
    BY DEF PlanOf
  <2> QED BY <2>2, <2>3
<1> QED BY <1>1, WrapperInvariant, PTL

\* However retentions of wrappers and hooks interleave, a backup is gone only if
\* as many newer ones as are to be kept are there, and a wrapper fails over a
\* vanished candidate only if another process removes backups.
\* (renderBackupRetention, rotateBackupsHost)
THEOREM RetentionNeverTakesTooMany == Spec => []RetentionIsSound
<1>1. WrapperInv => RetentionIsSound
  BY DEF WrapperInv, RetentionInv, RetentionIsSound, Spare, Newer, OthersRemoved
<1> QED BY <1>1, WrapperInvariant, PTL

\* Only the end of the guards starts the command.
LEMMA OnlyExec ==
  ASSUME WrapperInv, Next, NEW w \in Processes, At(w, "guards"),
         proc'[w].step = "running"
  PROVE  proc[w].looks = << >>
<1>1. proc[w].step = "guards" /\ proc \in [Processes -> Proc]
  BY DEF At, WrapperInv, TypeOK
<1>2. proc' # Disturbed
  BY <1>1, DisturbedProcs
<1>3. ~HostChanges
  BY <1>2 DEF HostChanges
<1>4. ~Reconcile
  <2> SUFFICES ASSUME Reconcile PROVE FALSE
    OBVIOUS
  <2>1. proc[w] \in Proc
    BY <1>1
  <2>2. proc'[w] = proc[w]
    BY <1>1, <2>1 DEF Reconcile, At, Proc
  <2> QED BY <1>1, <2>2
<1>5. PICK v \in Processes : Process(v)
  BY <1>3, <1>4 DEF Next
<1>6. proc' # proc
  BY <1>1
<1>7. ~MakeBackup(v) /\ ~MakeDestination(v) /\ ~EmptySource(v)
  BY <1>2, <1>6 DEF MakeBackup, MakeDestination, EmptySource
<1>8. \A q : proc' = [proc EXCEPT ![v] = q] => v = w
  BY <1>1
<1>9. \A q : proc' = [proc EXCEPT ![w] = q] => q.step = "running"
  BY <1>1
<1>10. \A st, why : End(v, st, why) => v = w /\ st = "running"
  <2> SUFFICES ASSUME NEW st, NEW why, End(v, st, why) PROVE v = w /\ st = "running"
    OBVIOUS
  <2> DEFINE q == [NewProcess EXCEPT !.step = st, !.why = why, !.removed = proc[v].removed]
  <2>1. proc' = [proc EXCEPT ![v] = q]
    BY DEF End
  <2>2. q.step = st
    BY DEF NewProcess
  <2> HIDE DEF q
  <2> QED BY <1>8, <1>9, <2>1, <2>2
<1>11. \A st : Goto(v, st) => v = w /\ st = "running"
  BY <1>1 DEF Goto, Proc
<1>12. CASE Exec(v)
  <2>1. v = w
    BY <1>1, <1>12 DEF Exec
  <2> QED BY <1>12, <2>1 DEF Exec
<1>13. ~Look(v)
  <2> SUFFICES ASSUME Look(v) PROVE FALSE
    OBVIOUS
  <2> DEFINE l == Head(proc[v].looks)
             q == [Noted(v, l) EXCEPT !.looks = Tail(@), !.clean = @ \/ Begins(v)]
  <2>1. proc' = [proc EXCEPT ![v] = q] /\ Passes(v, l) /\ proc[v].looks # << >>
    BY DEF Look
  <2>2. l \in LookType /\ clock' \in Nat /\ TypeOK
    <3>1. proc[v].looks \in Seq(LookType)
      BY <1>1 DEF Proc
    <3>2. l \in LookType
      BY <2>1, <3>1, HeadTailProperties
    <3>3. TypeOK
      BY DEF WrapperInv
    <3>4. clock' \in {clock, clock + 1}
      BY DEF Look
    <3>5. clock \in Nat
      BY <3>3 DEF TypeOK
    <3> QED BY <3>2, <3>3, <3>4, <3>5
  <2>3. Noted(v, l) \in Proc /\ Noted(v, l).step = proc[v].step
    BY <2>1, <2>2, NotedFields
  <2>4. q.step = Noted(v, l).step
    BY <2>3 DEF Proc
  <2>5. v = w
    <3> HIDE DEF q
    <3> QED BY <1>8, <2>1
  <2>6. q.step = "running"
    <3> HIDE DEF q
    <3> QED BY <1>9, <2>1, <2>5
  <2> QED BY <1>1, <2>3, <2>4, <2>5, <2>6
<1>14. ~Request(v) /\ ~Install(v) /\ ~Launch(v)
  <2>1. ~Request(v)
    BY <1>1, <1>10 DEF Request, At
  <2>2. ~Install(v)
    BY <1>1, <1>10 DEF Install, At
  <2>3. ~Launch(v)
    BY <1>1 DEF Launch, At
  <2> QED BY <2>1, <2>2, <2>3
<1>15. ~LookFails(v) /\ ~Compiled(v) /\ ~Kill(v)
  BY <1>10, <1>11 DEF LookFails, Compiled, Kill
<1>16. ~Succeeds(v)
  BY <1>10, <1>11 DEF Succeeds
<1>17. ~CommandEnds(v) /\ ~Retain(v)
  BY <1>10, <1>11, <1>16 DEF CommandEnds, Retain
<1>18. ~Glob(v) /\ ~Hook(v)
  BY <1>1, <1>10 DEF Glob, Hook, At
<1>19. \A st : Remove(v, st) => v = w /\ st = "running"
  BY <1>1 DEF Remove, Proc
<1>20. ~RetainRemove(v) /\ ~Rotate(v)
  BY <1>10, <1>19 DEF RetainRemove, Rotate
<1> QED BY <1>5, <1>7, <1>12, <1>13, <1>14, <1>15, <1>17, <1>18, <1>20 DEF Process

LEMMA PlanGuard ==
  ASSUME NEW j, NEW p \in PlansOf(j), p.action = "sync", p.mode \in {"mirror", "move"}
  PROVE  p.guard
<1>1. CASE p = PlanOf(j, TRUE)
  BY <1>1 DEF PlanOf, Destructive
<1>2. CASE p = PlanOf(j, FALSE)
  BY <1>2 DEF PlanOf, Destructive
<1> QED BY <1>1, <1>2 DEF PlansOf

\* Undisturbed guards that are through have shown all that Checked asks for.
LEMMA GuardsShowAll ==
  ASSUME WrapperInv, NEW w \in Processes, At(w, "guards"), proc[w].clean,
         proc[w].looks = << >>
  PROVE  Checked(w)
<1> DEFINE me == proc[w]
           p == me.plan
           f == RenderFinalGuards(p)
           s == RenderRuntimeBackup(p)
           c == RenderNonEmptySourceCheck(p)
<1>1. me \in Proc /\ PhaseOK(me) /\ LooksOK(me) /\ GuardsOK(me) /\ me.step = "guards"
  BY DEF WrapperInv, TypeOK, At
<1>2. p \in PlansOf(job) /\ p \in Plan
  BY <1>1, JobType, PlanType DEF PhaseOK, WrapperInv
<1>3. f \in Seq(Late) /\ s \in Seq(Late) /\ c \in Seq(Late)
  BY <1>2, LateLooks
<1>4. Len(me.looks) = 0 /\ Len(f) \in Nat /\ Len(s) \in Nat /\ Len(c) \in Nat
  BY <1>3, LenProperties
<1> HIDE DEF f, s, c
<1>5. /\ Ending(p) = f \o s /\ Len(f \o s) = Len(f) + Len(s)
      /\ \A i \in 1..Len(f) : (f \o s)[i] = f[i]
  <2>1. Ending(p) = f \o s
    BY DEF Ending, f, s
  <2> QED BY <1>3, <2>1, Concat
<1>6. \A i \in 1..Len(f) : Shows(me.snap, f[i])
  <2>1. \A i \in 1..(Len(Ending(p)) - Len(me.looks)) : Shows(me.snap, Ending(p)[i])
    BY <1>1 DEF GuardsOK
  <2>2. \A i \in 1..Len(f) : i \in 1..(Len(Ending(p)) - Len(me.looks))
    BY <1>4, <1>5
  <2> QED BY <1>5, <2>1, <2>2
<1>7. p.identity = "owner" =>
        me.uid # Root /\ me.snap["script"] # Missing /\ me.uid = me.snap["script"].uid
  <2>1. Len(me.looks) <= Len(c) + Len(Ending(p))
    BY <1>4, <1>5
  <2> QED BY <1>1, <2>1 DEF LooksOK, c
<1>8. ASSUME p.action = "script"
      PROVE  /\ "script" \in canonical /\ Snapshot(node["script"]) = me.snap["script"]
             /\ IsKind("script", {"script", "file"})
             /\ p.identity = "owner" => node["script"].uid = me.uid /\ me.uid # Root
  <2>1. f = <<See("canonical", "script"), See("same", "script"), See("exec", "script")>>
    BY <1>8 DEF f, RenderFinalGuards
  <2>2. /\ Shows(me.snap, See("canonical", "script"))
        /\ Shows(me.snap, See("same", "script"))
        /\ Shows(me.snap, See("exec", "script"))
    BY <1>6, <2>1
  <2>3. /\ "script" \in canonical /\ Snapshot(node["script"]) = me.snap["script"]
        /\ IsKind("script", {"script", "file"})
    BY <2>2 DEF Shows, See
  <2>4. Snapshot(node["script"]).uid = node["script"].uid
    BY <2>3 DEF Snapshot, IsKind
  <2> QED BY <1>7, <2>3, <2>4
<1>9. ASSUME p.action = "sync"
      PROVE  /\ {"src", "dst"} \subseteq canonical /\ IsKind("src", {"dir"})
             /\ \A x \in {"src", "dst"} : Snapshot(node[x]) = me.snap[x]
             /\ p.mode \in {"mirror", "move"} => node["src"].id \in filled
  <2> DEFINE g == <<See("canonical", "src"), See("canonical", "dst"), See("same", "src"),
                    See("same", "dst"), See("dir", "src"), See("dirAsSeen", "dst")>>
  <2>1. f = g \o c
    BY <1>9 DEF f, c, RenderFinalGuards
  <2>2. g \in Seq(Late) /\ Len(g) = 6
    BY DEF See, Late, LookType, Paths
  <2>3. /\ g[1] = See("canonical", "src") /\ g[2] = See("canonical", "dst")
        /\ g[3] = See("same", "src") /\ g[4] = See("same", "dst")
        /\ g[5] = See("dir", "src")
    OBVIOUS
  <2> HIDE DEF g
  <2>4. /\ Len(f) = 6 + Len(c) /\ \A i \in 1..6 : f[i] = g[i]
        /\ \A i \in 7..(6 + Len(c)) : f[i] = c[i - 6]
    <3>1. /\ Len(g \o c) = Len(g) + Len(c)
          /\ \A i \in 1..Len(g) : (g \o c)[i] = g[i]
          /\ \A i \in (Len(g) + 1)..(Len(g) + Len(c)) : (g \o c)[i] = c[i - Len(g)]
      <4>1. g \in Seq(Late) /\ c \in Seq(Late)
        BY <1>3, <2>2
      <4> QED BY <4>1, Concat, Zenon
    <3> QED BY <2>1, <2>2, <3>1
  <2>5. \A i \in 1..6 : Shows(me.snap, g[i])
    BY <1>4, <1>6, <2>4
  <2>6. /\ Shows(me.snap, See("canonical", "src")) /\ Shows(me.snap, See("canonical", "dst"))
        /\ Shows(me.snap, See("same", "src")) /\ Shows(me.snap, See("same", "dst"))
        /\ Shows(me.snap, See("dir", "src"))
    BY <2>3, <2>5
  <2>7. p.mode \in {"mirror", "move"} => node["src"].id \in filled
    <3> SUFFICES ASSUME p.mode \in {"mirror", "move"} PROVE node["src"].id \in filled
      OBVIOUS
    <3>1. p.guard
      BY <1>2, <1>9, PlanGuard
    <3>2. c = <<See("dir", "src"), See("entry", "src")>>
      BY <3>1 DEF c, RenderNonEmptySourceCheck
    <3>3. Len(c) = 2 /\ c[2] = See("entry", "src")
      BY <3>2
    <3>4. 8 \in 1..Len(f) /\ f[8] = c[2]
      BY <2>4, <3>3
    <3>5. Shows(me.snap, See("entry", "src"))
      BY <1>6, <3>3, <3>4
    <3> QED BY <3>5 DEF Shows, See
  <2> QED BY <2>6, <2>7 DEF Shows, See
<1> QED BY <1>8, <1>9 DEF Checked

\* When nothing has changed since the final guards began, the command starts on
\* exactly what they looked at: a source that was emptied, unmounted or replaced
\* before never reaches a mirror or a move, and a script of another owner is
\* never run with the first one's rights.  (wrapper.go Render and its parts)
THEOREM GuardsDecide == Spec => FinalGuardsDecide
<1>1. WrapperInv /\ [Next]_vars =>
        [\A w \in Processes :
           At(w, "guards") /\ proc[w].clean /\ proc'[w].step = "running" => Checked(w)]_vars
  BY OnlyExec, GuardsShowAll
<1> QED BY <1>1, WrapperInvariant, PTL DEF Spec, FinalGuardsDecide
=============================================================================
