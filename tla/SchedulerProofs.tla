-------------------------- MODULE SchedulerProofs --------------------------
(***************************************************************************)
(* Proofs about Scheduler for any jobs, specifications, concurrent         *)
(* requests, callbacks and revisions.                                      *)
(***************************************************************************)
EXTENDS Scheduler, FiniteSetTheorems, TLAPS

\* What every registration looks like, present or about to be published.
EntryOK(j, e) ==
  /\ e.job = j /\ e.gen <= nextGen
  /\ e.spec \notin {Absent, "off", "malformed"}

\* RegistryFollowsList, for any registry E and list L.
Follows(E, L) ==
  \A j \in Jobs :
    IF j \in Invalid(L)
    THEN E[j] # NoEntry => E[j].rev # L[j].rev
    ELSE /\ E[j] # NoEntry <=> j \in Desired(L)
         /\ E[j] # NoEntry => E[j].rev = L[j].rev /\ E[j].spec = L[j].cron

RegistryInv ==
  /\ \A j \in Jobs : entries[j] # NoEntry => EntryOK(j, entries[j])
  /\ ~closed => Follows(entries, applied)
  /\ closed => rec.pc = "idle" /\ \A j \in Jobs : entries[j] = NoEntry

\* The registry that is being installed.
NextRegistryInv ==
  rec.pc # "idle" =>
    /\ rec.list \in [Jobs -> Job]
    /\ \A j \in Jobs : rec.next[j] # NoEntry =>
         EntryOK(j, rec.next[j]) /\ j \in rec.desired \cup rec.invalid
    /\ Follows(rec.next, rec.list)
    /\ rec.pc = "rollback" => rec.bad \in Jobs

\* What the engine holds beside the registrations: additions of a reconciliation
\* under way, or what it has still to remove.
EngineInv ==
  /\ \A j \in Jobs : entries[j] # NoEntry => entries[j] \in cron
  /\ rec.pc = "idle" /\ ~closed => \A e \in cron : entries[e.job] = e
  /\ rec.pc = "add" =>
       /\ \A e \in cron : \/ entries[e.job] = e
                          \/ rec.next[e.job] = e /\ e.job \notin rec.todo
       /\ \A j \in Jobs \ rec.todo : rec.next[j] # NoEntry => rec.next[j] \in cron
       /\ \A j \in rec.todo : rec.next[j] # NoEntry
       /\ \A e \in rec.drop : entries[e.job] = e /\ rec.next[e.job] # e
       /\ \A j \in Jobs : entries[j] # NoEntry /\ rec.next[j] # entries[j] =>
                          entries[j] \in rec.drop
  /\ rec.pc \in {"rollback", "remove"} =>
       /\ \A e \in cron : entries[e.job] = e \/ e \in rec.drop
       /\ \A e \in rec.drop : entries[e.job] # e

\* A revision of a job has one cron field: H says which.  Everything that was
\* copied from the repository agrees with H.
Agrees(H, j, rev, kind) == rev <= repo[j].rev /\ kind = H[j][rev]

AllAgree(H) ==
  \A j \in Jobs :
    /\ Agrees(H, j, repo[j].rev, repo[j].cron)
    /\ Agrees(H, j, applied[j].rev, applied[j].cron)
    /\ entries[j] # NoEntry => Agrees(H, j, entries[j].rev, entries[j].spec)
    /\ \A c \in Callers : caller[c] \in {"reconcile", "inside"} =>
         Agrees(H, j, listed[c][j].rev, listed[c][j].cron)
    /\ rec.pc # "idle" =>
         /\ Agrees(H, j, rec.list[j].rev, rec.list[j].cron)
         /\ rec.next[j] # NoEntry =>
              Agrees(H, j, rec.next[j].rev, rec.next[j].spec)

RevisionInv == \E H \in [Jobs -> [Nat -> Crons]] : AllAgree(H)

SchedulerInv ==
  /\ TypeOK /\ RegistryInv /\ NextRegistryInv /\ EngineInv /\ RevisionInv
  /\ ErrorsAreCurrent

LEMMA InitScheduler == Init => SchedulerInv
<1> SUFFICES ASSUME Init
             PROVE  SchedulerInv
  OBVIOUS
<1> USE EntryAssumption DEF Init
<1>1. TypeOK
  BY DEF TypeOK, IdleRec, IdleCall, NoFailure, Job, Crons, Failure, Rec, Call
<1>2. RegistryInv
  BY DEF RegistryInv, Follows, Invalid, Desired, IdleRec
<1>3. NextRegistryInv
  BY DEF NextRegistryInv, IdleRec
<1>4. EngineInv
  BY DEF EngineInv, IdleRec
<1>5. RevisionInv
  <2> DEFINE H == [j \in Jobs |-> [n \in Nat |-> Absent]]
  <2>1. H \in [Jobs -> [Nat -> Crons]]
    BY DEF Crons
  <2>2. AllAgree(H)
    BY DEF AllAgree, Agrees, IdleRec
  <2> QED BY <2>1, <2>2 DEF RevisionInv
<1>6. ErrorsAreCurrent
  BY DEF ErrorsAreCurrent, Registered
<1> QED BY <1>1, <1>2, <1>3, <1>4, <1>5, <1>6 DEF SchedulerInv
-----------------------------------------------------------------------------
(***************************************************************************)
(* Requests.                                                               *)
(***************************************************************************)
\* Nothing but the repository and the callers changes.
LEMMA FrameRegistry ==
  ASSUME SchedulerInv, UNCHANGED <<entries, errs, nextGen, closed, applied, rec, cron>>
  PROVE  RegistryInv' /\ NextRegistryInv' /\ EngineInv' /\ ErrorsAreCurrent'
  BY DEF SchedulerInv, RegistryInv, NextRegistryInv, EngineInv, ErrorsAreCurrent,
     EntryOK, Registered

LEMMA MutateScheduler ==
  ASSUME SchedulerInv, NEW c \in Callers, NEW j \in Jobs, NEW kind \in Kinds,
         Mutate(c, j, kind)
  PROVE  SchedulerInv'
<1>1. /\ caller[c] = "idle" /\ caller' = [caller EXCEPT ![c] = "list"]
      /\ repo' = [repo EXCEPT ![j] = [rev |-> @.rev + 1, cron |-> kind]]
      /\ UNCHANGED <<listed, registryVars, rec, closer, cron, cronStopped, calls>>
  BY DEF Mutate
<1>2. kind \in Crons
  BY KindsAssumption
<1> USE <1>1, <1>2 DEF registryVars
<1>3. TypeOK'
  BY DEF SchedulerInv, TypeOK, Job
<1>4. RevisionInv'
  <2>1. PICK H \in [Jobs -> [Nat -> Crons]] : AllAgree(H)
    BY DEF SchedulerInv, RevisionInv
  <2>2. PICK n \in Nat : n = repo[j].rev + 1
    BY DEF SchedulerInv, TypeOK, Job
  <2>3. /\ repo[j].rev \in Nat
        /\ repo'[j].rev = n /\ repo'[j].cron = kind
        /\ \A k \in Jobs : k # j => repo'[k] = repo[k]
    BY <2>2 DEF SchedulerInv, TypeOK, Job
  <2>4. PICK G \in [Jobs -> [Nat -> Crons]] :
          G = [H EXCEPT ![j] = [H[j] EXCEPT ![n] = kind]]
    BY <2>1
  <2>5. ASSUME NEW k \in Jobs, NEW rev \in Nat, NEW cr, Agrees(H, k, rev, cr)
        PROVE  rev <= repo'[k].rev /\ cr = G[k][rev]
    <3>1. CASE k # j
      BY <2>1, <2>3, <2>4, <2>5, <3>1 DEF Agrees
    <3>2. CASE k = j
      <4>1. rev <= repo[j].rev /\ rev # n /\ rev <= n
        BY <2>2, <2>3, <2>5, <3>2 DEF Agrees
      <4>2. G[j][rev] = H[j][rev]
        BY <2>1, <2>4, <4>1
      <4> QED BY <2>3, <2>5, <3>2, <4>1, <4>2 DEF Agrees
    <3> QED BY <3>1, <3>2
  <2>6. n <= repo'[j].rev /\ kind = G[j][n]
    BY <2>1, <2>3, <2>4
  <2>7. \A k \in Jobs : repo[k].rev \in Nat /\ applied[k].rev \in Nat
    BY DEF SchedulerInv, TypeOK, Job
  <2>8. \A k \in Jobs : entries[k] # NoEntry => entries[k].rev \in Nat
    BY DEF SchedulerInv, TypeOK, Entry
  <2>9. \A k \in Jobs, d \in Callers : caller[d] \in {"reconcile", "inside"} =>
          listed[d][k].rev \in Nat
    BY DEF SchedulerInv, TypeOK, Job
  <2>10. \A k \in Jobs : rec.pc # "idle" =>
          /\ rec.list[k].rev \in Nat
          /\ rec.next[k] # NoEntry => rec.next[k].rev \in Nat
    BY DEF SchedulerInv, TypeOK, NextRegistryInv, Rec, Entry, Job
  <2>11. \A d \in Callers : caller'[d] \in {"reconcile", "inside"} =>
          caller[d] \in {"reconcile", "inside"}
    BY DEF SchedulerInv, TypeOK
  <2>12. ASSUME NEW k \in Jobs
         PROVE  repo'[k].rev <= repo'[k].rev /\ repo'[k].cron = G[k][repo'[k].rev]
    <3>1. CASE k = j
      BY <2>3, <2>6, <3>1
    <3>2. CASE k # j
      BY <2>1, <2>3, <2>5, <2>7, <3>2 DEF AllAgree
    <3> QED BY <3>1, <3>2
  <2>13. \A k \in Jobs :
           /\ applied[k].rev <= repo'[k].rev /\ applied[k].cron = G[k][applied[k].rev]
           /\ entries[k] # NoEntry =>
                entries[k].rev <= repo'[k].rev /\ entries[k].spec = G[k][entries[k].rev]
    BY <2>1, <2>5, <2>7, <2>8 DEF AllAgree
  <2>14. \A k \in Jobs, d \in Callers : caller'[d] \in {"reconcile", "inside"} =>
           /\ listed[d][k].rev <= repo'[k].rev
           /\ listed[d][k].cron = G[k][listed[d][k].rev]
    BY <2>1, <2>5, <2>9, <2>11 DEF AllAgree
  <2>15. \A k \in Jobs : rec.pc # "idle" =>
           /\ rec.list[k].rev <= repo'[k].rev
           /\ rec.list[k].cron = G[k][rec.list[k].rev]
           /\ rec.next[k] # NoEntry =>
                /\ rec.next[k].rev <= repo'[k].rev
                /\ rec.next[k].spec = G[k][rec.next[k].rev]
    BY <2>1, <2>5, <2>10 DEF AllAgree
  <2>16. AllAgree(G)'
    BY ONLY <1>1, <2>12, <2>13, <2>14, <2>15 DEF AllAgree, Agrees, registryVars
  <2> QED BY <2>4, <2>16 DEF RevisionInv
<1> QED BY <1>3, <1>4, FrameRegistry DEF SchedulerInv

LEMMA ListScheduler ==
  ASSUME SchedulerInv, NEW c \in Callers, List(c)
  PROVE  SchedulerInv'
<1>1. /\ listed' = [listed EXCEPT ![c] = repo]
      /\ caller' = [caller EXCEPT ![c] = "reconcile"]
      /\ UNCHANGED <<repo, registryVars, rec, closer, cron, cronStopped, calls>>
  BY DEF List
<1> USE <1>1 DEF registryVars
<1>2. TypeOK'
  BY DEF SchedulerInv, TypeOK
<1>3. RevisionInv'
  <2>1. PICK H \in [Jobs -> [Nat -> Crons]] : AllAgree(H)
    BY DEF SchedulerInv, RevisionInv
  <2>2. AllAgree(H)'
    BY <2>1 DEF AllAgree, Agrees, SchedulerInv, TypeOK
  <2> QED BY <2>2 DEF RevisionInv
<1> QED BY <1>2, <1>3, FrameRegistry DEF SchedulerInv

\* A request returns: its list is gone, and nothing else depends on it.
LEMMA ReturnRevision ==
  ASSUME SchedulerInv, NEW c \in Callers, Return(c), UNCHANGED <<applied, entries>>,
         rec' = rec \/ rec' = IdleRec
  PROVE  RevisionInv'
<1>1. PICK H \in [Jobs -> [Nat -> Crons]] : AllAgree(H)
  BY DEF SchedulerInv, RevisionInv
<1>2. \A d \in Callers : caller'[d] \in {"reconcile", "inside"} =>
        caller[d] \in {"reconcile", "inside"} /\ listed'[d] = listed[d]
  BY DEF SchedulerInv, TypeOK, Return
<1>3. rec'.pc # "idle" => rec' = rec
  BY DEF IdleRec
<1>4. AllAgree(H)'
  BY <1>1, <1>2, <1>3 DEF AllAgree, Agrees, Return
<1> QED BY <1>4 DEF RevisionInv

LEMMA ReconcileClosedScheduler ==
  ASSUME SchedulerInv, NEW c \in Callers, ReconcileClosed(c)
  PROVE  SchedulerInv'
<1>1. /\ Return(c)
      /\ UNCHANGED <<registryVars, rec, closer, cron, cronStopped, calls>>
  BY DEF ReconcileClosed
<1> USE <1>1 DEF registryVars
<1>2. TypeOK'
  BY DEF SchedulerInv, TypeOK, Return
<1> QED BY <1>2, FrameRegistry, ReturnRevision DEF SchedulerInv
-----------------------------------------------------------------------------
(***************************************************************************)
(* Reconciliations.                                                        *)
(***************************************************************************)
LEMMA ReconcileBeginScheduler ==
  ASSUME SchedulerInv, NEW c \in Callers, ReconcileBegin(c)
  PROVE  SchedulerInv'
<1>1. PICK L, A, K : L = listed[c] /\ K = Kept(L) /\ A = Desired(L) \ K
  OBVIOUS
<1>2. /\ caller[c] = "reconcile" /\ rec.pc = "idle" /\ ~closed
      /\ nextGen' = nextGen + Cardinality(A)
      /\ caller' = [caller EXCEPT ![c] = "inside"]
      /\ UNCHANGED <<repo, listed, entries, errs, closed, applied, closer, cron,
                     cronStopped, calls>>
  BY <1>1 DEF ReconcileBegin, MutexFree
<1>3. PICK gen \in Bijection(A, nextGen + 1 .. nextGen + Cardinality(A)) :
        rec' = [pc |-> "add",
                next |-> [j \in Jobs |->
                            IF j \in A
                            THEN [job |-> j, rev |-> L[j].rev,
                                  spec |-> L[j].cron, gen |-> gen[j]]
                            ELSE IF j \in K THEN entries[j] ELSE NoEntry],
                desired |-> Desired(L), invalid |-> Invalid(L), todo |-> A,
                drop |-> Dropped(L), list |-> L, bad |-> NoEntry]
  BY <1>1 DEF ReconcileBegin
<1>4. PICK N : N = rec'.next
  OBVIOUS
<1>5. /\ TypeOK /\ RegistryInv /\ EngineInv /\ ErrorsAreCurrent
      /\ L \in [Jobs -> Job] /\ nextGen \in Nat
  BY <1>1, <1>2 DEF SchedulerInv, TypeOK
<1>6. A \subseteq Jobs /\ K \subseteq Jobs
  BY <1>1 DEF Desired, Kept, Registered
<1>7. Cardinality(A) \in Nat
  BY <1>6, SchedulerAssumption, FS_Subset, FS_CardinalityType
<1>8. nextGen' \in Nat /\ nextGen <= nextGen'
  BY <1>2, <1>5, <1>7
<1>9. \A j \in A : gen[j] \in Nat /\ nextGen < gen[j] /\ gen[j] <= nextGen'
  <2>1. gen \in [A -> nextGen + 1 .. nextGen + Cardinality(A)]
    BY <1>3 DEF Bijection, Injection, Surjection
  <2> QED BY <1>2, <1>5, <1>7, <2>1
<1>10. /\ rec'.pc = "add" /\ rec'.desired = Desired(L) /\ rec'.invalid = Invalid(L)
       /\ rec'.todo = A /\ rec'.drop = Dropped(L) /\ rec'.list = L
       /\ rec'.bad = NoEntry
  BY <1>3
\* What the new registry says of a job.
<1>11. N = [j \in Jobs |->
              IF j \in A
              THEN [job |-> j, rev |-> L[j].rev, spec |-> L[j].cron, gen |-> gen[j]]
              ELSE IF j \in K THEN entries[j] ELSE NoEntry]
  BY <1>3, <1>4
<1>12. ASSUME NEW j \in Jobs, j \in A
       PROVE  /\ N[j].job = j /\ N[j].rev = L[j].rev /\ N[j].spec = L[j].cron
              /\ N[j].gen = gen[j] /\ N[j] \in Entry /\ N[j] # NoEntry
  <2>1. N[j] = [job |-> j, rev |-> L[j].rev, spec |-> L[j].cron, gen |-> gen[j]]
    BY <1>11, <1>12
  <2>2. L[j].rev \in Nat /\ L[j].cron \in Crons /\ gen[j] \in Nat
    BY <1>5, <1>9, <1>12 DEF Job
  <2>3. N[j] \in Entry
    BY <2>1, <2>2 DEF Entry
  <2> QED BY <2>1, <2>3, EntryAssumption
<1>13. ASSUME NEW j \in Jobs, j \in K
       PROVE  N[j] = entries[j] /\ entries[j] # NoEntry /\ entries[j] \in Entry
  <2>1. entries[j] # NoEntry /\ entries[j] \in Entry
    BY <1>1, <1>5, <1>13 DEF Kept, Registered, TypeOK
  <2>2. j \notin A
    BY <1>1, <1>13
  <2> QED BY <1>11, <1>13, <2>1, <2>2
<1>14. \A j \in Jobs : j \notin A /\ j \notin K => N[j] = NoEntry
  BY <1>11
<1>15. TypeOK'
  <2>1. Dropped(L) \subseteq Entry
    BY <1>5 DEF Dropped, Registered, TypeOK
  <2>2. N \in [Jobs -> Entry \cup {NoEntry}]
    <3>1. \A j \in Jobs : N[j] \in Entry \cup {NoEntry}
      BY <1>12, <1>13, <1>14
    <3>2. N = [j \in Jobs |-> N[j]]
      BY <1>11
    <3> QED BY <3>1, <3>2
  <2>3. rec' = [pc |-> "add", next |-> N, desired |-> Desired(L),
                invalid |-> Invalid(L), todo |-> A, drop |-> Dropped(L), list |-> L,
                bad |-> NoEntry]
    BY <1>3, <1>4
  <2>4. rec' \in Rec
    <3>1. Desired(L) \subseteq Jobs /\ Invalid(L) \subseteq Jobs
      BY DEF Desired, Invalid
    <3> QED BY <1>5, <1>6, <2>1, <2>2, <2>3, <3>1 DEF Rec
  <2> QED BY <1>2, <1>5, <1>8, <2>4 DEF TypeOK
<1>16. ASSUME NEW j \in Jobs, N[j] # NoEntry
       PROVE  /\ N[j].job = j /\ N[j].gen <= nextGen'
              /\ N[j].spec \notin {Absent, "off", "malformed"}
              /\ j \in Desired(L) \cup Invalid(L)
  <2>1. CASE j \in A
    BY <1>1, <1>9, <1>12, <2>1 DEF Desired
  <2>2. CASE j \in K
    <3>1. entries[j].gen \in Nat /\ entries[j].gen <= nextGen
      BY <1>5, <1>13, <2>2 DEF Entry, RegistryInv, EntryOK
    <3>2. entries[j].gen <= nextGen'
      BY <1>5, <1>8, <3>1
    <3>3. entries[j].job = j /\ entries[j].spec \notin {Absent, "off", "malformed"}
      BY <1>5, <1>13, <2>2 DEF RegistryInv, EntryOK
    <3>4. j \in Desired(L) \cup Invalid(L)
      BY <1>1, <2>2 DEF Kept
    <3> QED BY <1>13, <2>2, <3>2, <3>3, <3>4
  <2> QED BY <1>14, <1>16, <2>1, <2>2
<1>17. Follows(N, L)
  <2>1. PICK H \in [Jobs -> [Nat -> Crons]] : AllAgree(H)
    BY DEF SchedulerInv, RevisionInv
  <2>2. ASSUME NEW j \in Jobs, j \in Invalid(L), N[j] # NoEntry
        PROVE  N[j].rev # L[j].rev
    <3>1. j \notin A
      BY <1>1, <2>2 DEF Invalid, Desired
    <3>2. j \in K /\ N[j] = entries[j] /\ entries[j] # NoEntry
      BY <1>13, <1>14, <2>2, <3>1
    <3>3. entries[j].spec # "malformed" /\ entries[j].spec = H[j][entries[j].rev]
      BY <1>5, <2>1, <3>2 DEF RegistryInv, EntryOK, AllAgree, Agrees
    <3>4. "malformed" = H[j][L[j].rev]
      BY <1>1, <1>2, <2>1, <2>2 DEF Invalid, AllAgree, Agrees
    <3> QED BY <3>2, <3>3, <3>4
  <2>3. ASSUME NEW j \in Jobs, j \notin Invalid(L)
        PROVE  /\ N[j] # NoEntry <=> j \in Desired(L)
               /\ N[j] # NoEntry => N[j].rev = L[j].rev /\ N[j].spec = L[j].cron
    <3>1. CASE j \in A
      BY <1>1, <1>12, <3>1
    <3>2. CASE j \in K
      <4>1. /\ j \in Desired(L) /\ entries[j].rev = L[j].rev
            /\ entries[j].spec = L[j].cron
        BY <1>1, <2>3, <3>2 DEF Kept
      <4> QED BY <1>13, <3>2, <4>1
    <3>3. CASE j \notin A /\ j \notin K
      BY <1>1, <1>14, <3>3
    <3> QED BY <3>1, <3>2, <3>3
  <2> QED BY <2>2, <2>3 DEF Follows
<1>18. RegistryInv'
  <2>1. \A j \in Jobs : entries[j] # NoEntry => entries[j].gen \in Nat
    BY <1>5 DEF TypeOK, Entry
  <2> QED BY <1>2, <1>5, <1>8, <2>1 DEF RegistryInv, EntryOK
<1>19. NextRegistryInv'
  BY <1>4, <1>5, <1>10, <1>16, <1>17 DEF NextRegistryInv, EntryOK
<1>20. EngineInv'
  <2>1. \A e \in cron : entries[e.job] = e
    BY <1>2, <1>5 DEF EngineInv
  <2>2. ASSUME NEW j \in Jobs \ A, N[j] # NoEntry
        PROVE  N[j] \in cron
    BY <1>5, <1>13, <1>14, <2>2 DEF EngineInv
  <2>3. ASSUME NEW j \in Jobs, j \notin K, entries[j] # NoEntry
        PROVE  N[j] # entries[j]
    <3>1. CASE j \in A
      <4>1. entries[j].gen <= nextGen /\ entries[j].gen \in Nat
        BY <1>5, <2>3 DEF RegistryInv, EntryOK, TypeOK, Entry
      <4>2. N[j].gen # entries[j].gen
        BY <1>5, <1>9, <1>12, <3>1, <4>1
      <4> QED BY <4>2
    <3> QED BY <1>14, <2>3, <3>1
  <2>4. \A e \in Dropped(L) : entries[e.job] = e /\ N[e.job] # e
    <3> SUFFICES ASSUME NEW j \in Registered \ K
                 PROVE  /\ entries[j].job = j /\ N[j] # entries[j]
      BY <1>1 DEF Dropped
    <3> QED BY <1>5, <2>3 DEF RegistryInv, EntryOK, Registered
  <2>5. \A j \in Jobs : entries[j] # NoEntry /\ N[j] # entries[j] =>
                       entries[j] \in Dropped(L)
    BY <1>1, <1>13 DEF Dropped, Registered
  <2>6. \A j \in A : N[j] # NoEntry
    BY <1>6, <1>12
  <2> QED BY <1>2, <1>4, <1>5, <1>10, <2>1, <2>2, <2>4, <2>5, <2>6 DEF EngineInv
<1>21. RevisionInv'
  <2>1. PICK H \in [Jobs -> [Nat -> Crons]] : AllAgree(H)
    BY DEF SchedulerInv, RevisionInv
  <2>2. \A d \in Callers : caller'[d] \in {"reconcile", "inside"} =>
          caller[d] \in {"reconcile", "inside"}
    BY <1>2, <1>5 DEF TypeOK
  <2>3. \A j \in Jobs : L[j].rev <= repo[j].rev /\ L[j].cron = H[j][L[j].rev]
    BY <1>1, <1>2, <2>1 DEF AllAgree, Agrees
  <2>4. ASSUME NEW j \in Jobs, N[j] # NoEntry
        PROVE  N[j].rev <= repo[j].rev /\ N[j].spec = H[j][N[j].rev]
    <3>1. CASE j \in A
      BY <1>12, <2>3, <3>1
    <3>2. CASE j \in K
      BY <1>13, <2>1, <3>2 DEF AllAgree, Agrees
    <3> QED BY <1>14, <2>4, <3>1, <3>2
  <2>5. AllAgree(H)'
    BY <1>2, <1>4, <1>10, <2>1, <2>2, <2>3, <2>4 DEF AllAgree, Agrees
  <2> QED BY <2>5 DEF RevisionInv
<1>22. ErrorsAreCurrent'
  BY <1>2, <1>5 DEF ErrorsAreCurrent, Registered
<1> QED BY <1>15, <1>18, <1>19, <1>20, <1>21, <1>22 DEF SchedulerInv

\* The steps of a reconciliation leave the registry, its next value and every
\* copied revision alone; the engine is all that changes.
LEMMA EngineStep ==
  ASSUME SchedulerInv, rec.pc # "idle",
         UNCHANGED <<requestVars, registryVars, closer, cronStopped, calls>>,
         rec' \in Rec, cron' \subseteq Entry, rec'.pc # "idle",
         rec'.next = rec.next, rec'.list = rec.list, rec'.desired = rec.desired,
         rec'.invalid = rec.invalid, rec'.pc = "rollback" => rec'.bad \in Jobs,
         EngineInv'
  PROVE  SchedulerInv'
<1> USE DEF requestVars, registryVars
<1>1. TypeOK'
  BY DEF SchedulerInv, TypeOK
<1>2. RegistryInv'
  BY DEF SchedulerInv, RegistryInv, EntryOK
<1>3. NextRegistryInv'
  BY DEF SchedulerInv, NextRegistryInv, EntryOK
<1>4. RevisionInv'
  <2>1. PICK H \in [Jobs -> [Nat -> Crons]] : AllAgree(H)
    BY DEF SchedulerInv, RevisionInv
  <2>2. AllAgree(H)'
    BY <2>1 DEF AllAgree, Agrees
  <2> QED BY <2>2 DEF RevisionInv
<1>5. ErrorsAreCurrent'
  BY DEF SchedulerInv, ErrorsAreCurrent, Registered
<1> QED BY <1>1, <1>2, <1>3, <1>4, <1>5 DEF SchedulerInv

LEMMA ReconcileAddScheduler ==
  ASSUME SchedulerInv, NEW j \in Jobs, ReconcileAdd(j)
  PROVE  SchedulerInv'
<1>1. /\ rec.pc = "add" /\ j \in rec.todo
      /\ cron' = cron \cup {rec.next[j]}
      /\ rec' = [rec EXCEPT !.todo = @ \ {j}]
      /\ UNCHANGED <<requestVars, registryVars, closer, cronStopped, calls>>
  BY DEF ReconcileAdd
<1>2. /\ TypeOK /\ NextRegistryInv /\ EngineInv /\ rec \in Rec
  BY DEF SchedulerInv, TypeOK
<1>3. /\ rec' \in Rec /\ rec'.pc = "add" /\ rec'.next = rec.next
      /\ rec'.list = rec.list /\ rec'.desired = rec.desired
      /\ rec'.invalid = rec.invalid /\ rec'.drop = rec.drop
      /\ rec'.todo = rec.todo \ {j}
  BY <1>1, <1>2 DEF Rec
<1>4. rec.next[j] \in Entry /\ rec.next[j] # NoEntry /\ rec.next[j].job = j
  BY <1>1, <1>2 DEF EngineInv, NextRegistryInv, EntryOK, Rec
<1>5. cron' \subseteq Entry
  BY <1>1, <1>2, <1>4 DEF TypeOK
<1>6. EngineInv'
  <2>1. \A e \in cron' :
          \/ entries[e.job] = e
          \/ rec.next[e.job] = e /\ e.job \notin rec.todo \ {j}
    BY <1>1, <1>2, <1>4 DEF EngineInv
  <2>2. \A k \in Jobs \ (rec.todo \ {j}) :
          rec.next[k] # NoEntry => rec.next[k] \in cron'
    BY <1>1, <1>2 DEF EngineInv
  <2> QED BY <1>1, <1>2, <1>3, <2>1, <2>2 DEF EngineInv, registryVars
<1> QED BY <1>1, <1>3, <1>5, <1>6, EngineStep

LEMMA ReconcileRefusedScheduler ==
  ASSUME SchedulerInv, NEW j \in Jobs, ReconcileRefused(j)
  PROVE  SchedulerInv'
<1> DEFINE D == {e \in Installed : entries[e.job] # e}
<1>1. /\ rec.pc = "add" /\ j \in rec.todo
      /\ rec' = [rec EXCEPT !.pc = "rollback", !.bad = j, !.drop = D]
      /\ UNCHANGED <<requestVars, registryVars, closer, cron, cronStopped, calls>>
  BY DEF ReconcileRefused
<1>2. /\ TypeOK /\ EngineInv /\ rec \in Rec /\ cron \subseteq Entry
  BY DEF SchedulerInv, TypeOK
<1>3. D \subseteq Entry
  BY <1>2 DEF Installed
<1>4. \A e \in cron : entries[e.job] = e \/ e \in D
  BY <1>1, <1>2 DEF EngineInv, Installed, Entry
<1>5. \A e \in D : entries[e.job] # e
  OBVIOUS
<1> HIDE DEF D
<1>6. /\ rec' \in Rec /\ rec'.pc = "rollback" /\ rec'.next = rec.next
      /\ rec'.list = rec.list /\ rec'.desired = rec.desired
      /\ rec'.invalid = rec.invalid /\ rec'.drop = D /\ rec'.bad = j
  BY <1>1, <1>2, <1>3 DEF Rec
<1>7. EngineInv'
  BY <1>1, <1>2, <1>4, <1>5, <1>6 DEF EngineInv, registryVars
<1> QED BY <1>1, <1>2, <1>6, <1>7, EngineStep

LEMMA ReconcileRemoveScheduler ==
  ASSUME SchedulerInv, NEW e \in rec.drop, ReconcileRemove(e)
  PROVE  SchedulerInv'
<1>1. /\ rec.pc \in {"rollback", "remove"} /\ cron' = cron \ {e}
      /\ rec' = [rec EXCEPT !.drop = @ \ {e}]
      /\ UNCHANGED <<requestVars, registryVars, closer, cronStopped, calls>>
  BY DEF ReconcileRemove
<1>2. /\ TypeOK /\ RegistryInv /\ NextRegistryInv /\ EngineInv
      /\ rec \in Rec /\ cron \subseteq Entry /\ entries[e.job] # e
  BY <1>1 DEF SchedulerInv, TypeOK, EngineInv
<1>3. /\ rec' \in Rec /\ rec'.pc = rec.pc /\ rec'.next = rec.next
      /\ rec'.list = rec.list /\ rec'.desired = rec.desired
      /\ rec'.invalid = rec.invalid /\ rec'.drop = rec.drop \ {e}
      /\ rec'.bad = rec.bad
  BY <1>1, <1>2 DEF Rec
<1>4. rec'.pc = "rollback" => rec'.bad \in Jobs
  BY <1>1, <1>2, <1>3 DEF NextRegistryInv
<1>5. \A j \in Jobs : entries[j] # NoEntry => entries[j] \in cron'
  BY <1>1, <1>2 DEF EngineInv, RegistryInv, EntryOK
<1>6. EngineInv'
  BY <1>1, <1>2, <1>3, <1>5 DEF EngineInv, registryVars
<1> QED BY <1>1, <1>2, <1>3, <1>4, <1>6, EngineStep

LEMMA ReconcileFailScheduler ==
  ASSUME SchedulerInv, NEW c \in Callers, ReconcileFail(c)
  PROVE  SchedulerInv'
<1>1. /\ rec.pc = "rollback" /\ rec.drop = {}
      /\ errs' = [errs EXCEPT ![rec.bad] = Definition]
      /\ rec' = IdleRec /\ Return(c)
      /\ UNCHANGED <<entries, nextGen, closed, applied, closer, cron, cronStopped,
                     calls>>
  BY DEF ReconcileFail
<1>2. /\ TypeOK /\ RegistryInv /\ NextRegistryInv /\ EngineInv /\ ErrorsAreCurrent
      /\ rec.bad \in Jobs
  BY <1>1 DEF SchedulerInv, NextRegistryInv
<1>3. IdleRec \in Rec /\ IdleRec.pc = "idle"
  BY DEF IdleRec, Rec
<1>4. TypeOK'
  BY <1>1, <1>2, <1>3 DEF TypeOK, Return, Failure, Definition
<1>5. RegistryInv' /\ NextRegistryInv'
  BY <1>1, <1>2, <1>3 DEF RegistryInv, NextRegistryInv, EntryOK
<1>6. EngineInv'
  BY <1>1, <1>2, <1>3 DEF EngineInv
<1>7. ErrorsAreCurrent'
  BY <1>1, <1>2 DEF ErrorsAreCurrent, Registered, Definition, TypeOK
<1> QED BY <1>1, <1>4, <1>5, <1>6, <1>7, ReturnRevision DEF SchedulerInv

LEMMA ReconcilePublishScheduler ==
  ASSUME SchedulerInv, ReconcilePublish
  PROVE  SchedulerInv'
<1>1. /\ rec.pc = "add" /\ rec.todo = {}
      /\ entries' = rec.next
      /\ errs' = [j \in Jobs |-> IF j \in rec.invalid THEN Definition
                                 ELSE IF j \in rec.desired THEN NoFailure
                                 ELSE errs[j]]
      /\ applied' = rec.list
      /\ rec' = [rec EXCEPT !.pc = "remove"]
      /\ UNCHANGED <<requestVars, nextGen, closed, closer, cron, cronStopped, calls>>
  BY DEF ReconcilePublish
<1> USE DEF requestVars
<1>2. /\ TypeOK /\ RegistryInv /\ NextRegistryInv /\ EngineInv /\ rec \in Rec
      /\ ~closed /\ rec.list \in [Jobs -> Job]
  BY <1>1 DEF SchedulerInv, TypeOK, RegistryInv, NextRegistryInv
<1>3. /\ rec' \in Rec /\ rec'.pc = "remove" /\ rec'.next = rec.next
      /\ rec'.list = rec.list /\ rec'.desired = rec.desired
      /\ rec'.invalid = rec.invalid /\ rec'.drop = rec.drop
  BY <1>1, <1>2 DEF Rec
<1>4. TypeOK'
  <2>1. errs' \in [Jobs -> Failure]
    BY <1>1, <1>2 DEF TypeOK, Failure, Definition, NoFailure
  <2>2. entries' \in [Jobs -> Entry \cup {NoEntry}]
    BY <1>1, <1>2 DEF Rec
  <2> QED BY <1>1, <1>2, <1>3, <2>1, <2>2 DEF TypeOK
<1>5. RegistryInv'
  BY <1>1, <1>2, <1>3 DEF RegistryInv, NextRegistryInv, EntryOK
<1>6. NextRegistryInv'
  BY <1>1, <1>2, <1>3 DEF NextRegistryInv, EntryOK
<1>7. EngineInv'
  <2>1. \A e \in cron : rec.next[e.job] = e \/ e \in rec.drop
    <3> SUFFICES ASSUME NEW e \in cron, rec.next[e.job] # e
                 PROVE  e \in rec.drop
      OBVIOUS
    <3>1. e.job \in Jobs /\ e \in Entry /\ e # NoEntry
      BY <1>2, EntryAssumption DEF TypeOK, Entry
    <3>2. entries[e.job] = e
      BY <1>1, <1>2 DEF EngineInv
    <3> QED BY <1>1, <1>2, <3>1, <3>2 DEF EngineInv
  <2>2. \A e \in rec.drop : rec.next[e.job] # e
    BY <1>1, <1>2 DEF EngineInv
  <2>3. \A j \in Jobs : rec.next[j] # NoEntry => rec.next[j] \in cron
    BY <1>1, <1>2 DEF EngineInv
  <2> QED BY <1>1, <1>3, <2>1, <2>2, <2>3 DEF EngineInv
<1>8. RevisionInv'
  <2>1. PICK H \in [Jobs -> [Nat -> Crons]] : AllAgree(H)
    BY DEF SchedulerInv, RevisionInv
  <2>2. AllAgree(H)'
    BY <1>1, <1>3, <2>1 DEF AllAgree, Agrees
  <2> QED BY <2>2 DEF RevisionInv
<1>9. ErrorsAreCurrent'
  <2>1. \A j \in Jobs : rec.next[j] # NoEntry => j \in rec.desired \cup rec.invalid
    BY <1>1, <1>2 DEF NextRegistryInv
  <2> QED BY <1>1, <2>1 DEF ErrorsAreCurrent, Registered, Definition, NoFailure
<1> QED BY <1>4, <1>5, <1>6, <1>7, <1>8, <1>9 DEF SchedulerInv

LEMMA ReconcileEndScheduler ==
  ASSUME SchedulerInv, NEW c \in Callers, ReconcileEnd(c)
  PROVE  SchedulerInv'
<1>1. /\ rec.pc = "remove" /\ rec.drop = {}
      /\ rec' = IdleRec /\ Return(c)
      /\ UNCHANGED <<registryVars, closer, cron, cronStopped, calls>>
  BY DEF ReconcileEnd
<1> USE DEF registryVars
<1>2. /\ TypeOK /\ RegistryInv /\ EngineInv /\ ErrorsAreCurrent
  BY DEF SchedulerInv
<1>3. IdleRec \in Rec /\ IdleRec.pc = "idle"
  BY DEF IdleRec, Rec
<1>4. TypeOK'
  BY <1>1, <1>2, <1>3 DEF TypeOK, Return
<1>5. RegistryInv' /\ NextRegistryInv'
  BY <1>1, <1>2, <1>3 DEF RegistryInv, NextRegistryInv, EntryOK
<1>6. EngineInv'
  BY <1>1, <1>2, <1>3 DEF EngineInv
<1>7. ErrorsAreCurrent'
  BY <1>1, <1>2 DEF ErrorsAreCurrent, Registered
<1> QED BY <1>1, <1>4, <1>5, <1>6, <1>7, ReturnRevision DEF SchedulerInv
-----------------------------------------------------------------------------
(***************************************************************************)
(* Callbacks, and Close.                                                   *)
(***************************************************************************)
\* A callback changes its own record, and the failure of a job.
LEMMA CallbackScheduler ==
  ASSUME SchedulerInv, UNCHANGED callFrame, calls' \in [Callbacks -> Call],
         \A f \in Callbacks : calls'[f].pc # "free" => calls'[f].entry # NoEntry,
         errs' \in [Jobs -> Failure], ErrorsAreCurrent'
  PROVE  SchedulerInv'
<1> USE DEF callFrame, requestVars
<1>1. TypeOK'
  BY DEF SchedulerInv, TypeOK
<1>2. RegistryInv' /\ NextRegistryInv'
  BY DEF SchedulerInv, RegistryInv, NextRegistryInv, EntryOK
<1>3. EngineInv'
  BY DEF SchedulerInv, EngineInv
<1>4. RevisionInv'
  BY DEF SchedulerInv, RevisionInv, AllAgree, Agrees
<1> QED BY <1>1, <1>2, <1>3, <1>4 DEF SchedulerInv

LEMMA FireScheduler ==
  ASSUME SchedulerInv, NEW f \in Callbacks,
         Callback(f) \/ \E e \in cron : Tick(f, e)
  PROVE  SchedulerInv'
<1>1. /\ calls \in [Callbacks -> Call] /\ errs \in [Jobs -> Failure]
      /\ \A g \in Callbacks : calls[g].pc # "free" => calls[g].entry # NoEntry
      /\ cron \subseteq Entry /\ ErrorsAreCurrent
      /\ entries \in [Jobs -> Entry \cup {NoEntry}]
  BY DEF SchedulerInv, TypeOK
<1>2. IdleCall \in Call /\ IdleCall.pc = "free"
  BY DEF IdleCall, Call
<1>3. ASSUME UNCHANGED callFrame, UNCHANGED errs
      PROVE  ErrorsAreCurrent' /\ errs' \in [Jobs -> Failure]
  BY <1>1, <1>3 DEF callFrame, ErrorsAreCurrent, Registered
<1>4. ASSUME NEW e \in cron, Tick(f, e)
      PROVE  SchedulerInv'
  <2>1. [pc |-> "fired", entry |-> e] \in Call /\ e # NoEntry
    BY <1>1, EntryAssumption DEF Call
  <2>2. /\ calls' = [calls EXCEPT ![f] = [pc |-> "fired", entry |-> e]]
        /\ UNCHANGED callFrame /\ UNCHANGED errs
    BY <1>4 DEF Tick
  <2> QED BY <1>1, <1>3, <2>1, <2>2, CallbackScheduler
<1>5. CASE Fire(f)
  <2>1. /\ UNCHANGED callFrame /\ UNCHANGED errs /\ calls[f].pc = "fired"
        /\ \/ calls' = [calls EXCEPT ![f] = [@ EXCEPT !.pc = "claimed"]]
           \/ calls' = [calls EXCEPT ![f] = IdleCall]
    BY <1>5 DEF Fire
  <2>2. calls[f] \in Call /\ [calls[f] EXCEPT !.pc = "claimed"] \in Call
    BY <1>1 DEF Call
  <2>3. [calls[f] EXCEPT !.pc = "claimed"].entry = calls[f].entry
    BY <2>2 DEF Call
  <2>4. /\ calls' \in [Callbacks -> Call]
        /\ \A g \in Callbacks : calls'[g].pc # "free" => calls'[g].entry # NoEntry
    BY <1>1, <1>2, <2>1, <2>2, <2>3
  <2> QED BY <1>3, <2>1, <2>4, CallbackScheduler
<1>6. CASE Start(f)
  <2>1. PICK result \in {"fine", "failed"} : calls' = [calls EXCEPT ![f].pc = result]
    BY <1>6 DEF Start
  <2>2. calls[f].pc = "claimed" /\ UNCHANGED callFrame /\ UNCHANGED errs
    BY <1>6 DEF Start
  <2>3. calls[f] \in Call /\ [calls[f] EXCEPT !.pc = result] \in Call
    BY <1>1 DEF Call
  <2>4. [calls[f] EXCEPT !.pc = result].entry = calls[f].entry
    BY <2>3 DEF Call
  <2>5. /\ calls' \in [Callbacks -> Call]
        /\ \A g \in Callbacks : calls'[g].pc # "free" => calls'[g].entry # NoEntry
    BY <1>1, <2>1, <2>2, <2>3, <2>4
  <2> QED BY <1>3, <2>2, <2>5, CallbackScheduler
<1>7. CASE FireDone(f)
  <2>1. PICK e : e = calls[f].entry
    OBVIOUS
  <2>2. /\ calls[f].pc \in {"fine", "failed"} /\ UNCHANGED callFrame
        /\ calls' = [calls EXCEPT ![f] = IdleCall]
        /\ \/ UNCHANGED errs
           \/ /\ entries[e.job] # NoEntry /\ entries[e.job].gen = e.gen
              /\ errs' = [errs EXCEPT ![e.job] = StartOf(e)]
    BY <1>7, <2>1 DEF FireDone
  <2>3. e \in Entry
    BY <1>1, <2>1, <2>2 DEF Call
  <2>4. /\ calls' \in [Callbacks -> Call]
        /\ \A g \in Callbacks : calls'[g].pc # "free" => calls'[g].entry # NoEntry
    BY <1>1, <1>2, <2>2
  <2>5. errs' \in [Jobs -> Failure] /\ ErrorsAreCurrent'
    <3>1. CASE UNCHANGED errs
      BY <1>3, <2>2, <3>1
    <3>2. CASE /\ entries[e.job] # NoEntry /\ entries[e.job].gen = e.gen
               /\ errs' = [errs EXCEPT ![e.job] = StartOf(e)]
      <4>1. StartOf(e) \in Failure /\ StartOf(e).gen = e.gen /\ e.job \in Jobs
        BY <2>3 DEF StartOf, Failure, Entry
      <4> QED BY <1>1, <2>2, <3>2, <4>1 DEF ErrorsAreCurrent, Registered, callFrame
    <3> QED BY <2>2, <3>1, <3>2
  <2> QED BY <2>2, <2>4, <2>5, CallbackScheduler
<1> QED BY <1>4, <1>5, <1>6, <1>7 DEF Callback

LEMMA CloseScheduler ==
  ASSUME SchedulerInv, Close
  PROVE  SchedulerInv'
<1> USE DEF closeFrame, requestVars
<1>1. CASE CloseBegin
  <2>1. /\ rec.pc = "idle" /\ closed' = TRUE /\ closer' = "closing"
        /\ entries' = [j \in Jobs |-> NoEntry]
        /\ UNCHANGED <<closeFrame, cronStopped>>
    BY <1>1 DEF CloseBegin, MutexFree
  <2>2. TypeOK'
    <3>1. closed' \in BOOLEAN /\ cronStopped' \in BOOLEAN
      BY <2>1 DEF SchedulerInv, TypeOK
    <3> QED BY <2>1, <3>1 DEF SchedulerInv, TypeOK
  <2>3. RegistryInv' /\ NextRegistryInv'
    BY <2>1 DEF SchedulerInv, RegistryInv, NextRegistryInv
  <2>4. EngineInv'
    BY <2>1 DEF SchedulerInv, EngineInv
  <2>5. RevisionInv'
    BY <2>1 DEF SchedulerInv, RevisionInv, AllAgree, Agrees
  <2>6. ErrorsAreCurrent'
    BY <2>1 DEF ErrorsAreCurrent, Registered
  <2> QED BY <2>2, <2>3, <2>4, <2>5, <2>6 DEF SchedulerInv
<1>2. CASE CloseStop \/ CloseDone
  <2>1. UNCHANGED <<closeFrame, closed, entries>> /\ closer' \in {"stopping", "done"}
    BY <1>2 DEF CloseStop, CloseDone
  <2>2. cronStopped' \in BOOLEAN
    BY <1>2 DEF CloseStop, CloseDone, SchedulerInv, TypeOK
  <2>3. TypeOK'
    BY <2>1, <2>2 DEF SchedulerInv, TypeOK
  <2>4. RevisionInv'
    BY <2>1 DEF SchedulerInv, RevisionInv, AllAgree, Agrees
  <2> QED BY <2>1, <2>3, <2>4, FrameRegistry DEF SchedulerInv
<1> QED BY <1>1, <1>2 DEF Close
-----------------------------------------------------------------------------
LEMMA SchedulerStep ==
  ASSUME SchedulerInv, [Next]_vars
  PROVE  SchedulerInv'
<1>1. CASE UNCHANGED vars
  <2> USE <1>1 DEF vars
  <2>1. TypeOK'
    BY DEF SchedulerInv, TypeOK
  <2>2. RevisionInv'
    BY DEF SchedulerInv, RevisionInv, AllAgree, Agrees
  <2> QED BY <2>1, <2>2, FrameRegistry DEF SchedulerInv
<1>2. ASSUME NEW c \in Callers, Request(c)
      PROVE  SchedulerInv'
  BY <1>2, MutateScheduler, ListScheduler DEF Request
<1>3. CASE Reconcile
  BY <1>3, ReconcileBeginScheduler, ReconcileClosedScheduler,
     ReconcileFailScheduler, ReconcileEndScheduler, ReconcileAddScheduler,
     ReconcileRefusedScheduler, ReconcileRemoveScheduler,
     ReconcilePublishScheduler DEF Reconcile
<1>4. ASSUME NEW f \in Callbacks, Callback(f) \/ \E e \in cron : Tick(f, e)
      PROVE  SchedulerInv'
  BY <1>4, FireScheduler
<1>5. CASE Close
  BY <1>5, CloseScheduler
<1> QED BY <1>1, <1>2, <1>3, <1>4, <1>5 DEF Next

LEMMA SchedulerInvariant == Spec => []SchedulerInv
<1>1. Init => SchedulerInv
  BY InitScheduler
<1>2. SchedulerInv /\ [Next]_vars => SchedulerInv'
  BY SchedulerStep
<1> QED BY <1>1, <1>2, PTL DEF Spec

\* The scheduler keeps its types: what a request listed, the registration of a
\* job, the entries of the engine and the callbacks in flight.
THEOREM SchedulerTypeCorrect == Spec => []TypeOK
<1>1. SchedulerInv => TypeOK
  BY DEF SchedulerInv
<1> QED BY <1>1, SchedulerInvariant, PTL

\* Whatever requests reconcile, whatever the engine refuses and whenever Close
\* comes: a registration has its entry in the cron engine at every moment, and
\* between reconciliations the engine holds nothing else.
THEOREM EngineHoldsTheRegistry == Spec => []EngineMatchesRegistry
<1>1. SchedulerInv => EngineMatchesRegistry
  <2> SUFFICES ASSUME SchedulerInv
               PROVE  EngineMatchesRegistry
    OBVIOUS
  <2>1. \A e \in cron : e.job \in Jobs /\ e # NoEntry
    BY EntryAssumption DEF SchedulerInv, TypeOK, Entry
  <2>2. \A j \in Registered : entries[j] \in cron
    BY DEF SchedulerInv, EngineInv, Registered
  <2>3. MutexFree /\ ~closed => cron = {entries[j] : j \in Registered}
    BY <2>1, <2>2 DEF SchedulerInv, EngineInv, Registered, MutexFree
  <2> QED BY <2>2, <2>3 DEF EngineMatchesRegistry
<1> QED BY <1>1, SchedulerInvariant, PTL

\* Between reconciliations the registry is the list last published, and a job
\* whose definition was invalid in it keeps at most an older revision.
THEOREM RegistryIsPublishedList == Spec => []RegistryFollowsList
<1>1. SchedulerInv => RegistryFollowsList
  BY DEF SchedulerInv, RegistryInv, Follows, Registered, RegistryFollowsList
<1> QED BY <1>1, SchedulerInvariant, PTL

\* No failure of a replaced registration is shown for a registered job.
THEOREM FailuresAreCurrent == Spec => []ErrorsAreCurrent
<1>1. SchedulerInv => ErrorsAreCurrent
  BY DEF SchedulerInv
<1> QED BY <1>1, SchedulerInvariant, PTL
=============================================================================
