-------------------------- MODULE ReadinessProofs ---------------------------
(***************************************************************************)
(* For any set of commitments: what the queue offers the claim grants, and *)
(* no commitments wait for each other, although each of the two interfaces *)
(* looks for cycles in a table of its own.                                 *)
(*                                                                         *)
(* The argument: every active relation is also a live dependency row.  The *)
(* walk over the larger graph therefore covers the smaller one, so either  *)
(* check keeps the relations well founded.                                 *)
(***************************************************************************)
EXTENDS Readiness, TLAPS

ReadinessInv ==
  /\ ReadinessTypeOK
  /\ RelationsAreSeen
  /\ RelationsAreWellFounded

\* What is reached is reached from there on: the walk of assertNoCycle covers every
\* successor of a commitment it has visited.
LEMMA ReachedIsClosed ==
  ASSUME NEW t \in Tasks, NEW E, NEW u \in Reached(t, E), NEW w \in Tasks, <<u, w>> \in E
  PROVE  w \in Reached(t, E)
<1> SUFFICES ASSUME NEW S \in SUBSET Tasks, t \in S, \A e \in E : e[1] \in S => e[2] \in S
             PROVE  w \in S
  BY DEF Reached
<1>1. u \in S
  BY DEF Reached
<1> QED
  BY <1>1

\* The walk starts where it starts.
LEMMA ReachedStarts ==
  ASSUME NEW t \in Tasks, NEW E
  PROVE  t \in Reached(t, E)
BY DEF Reached

\* A new edge that the walk over a graph containing the relations admits leaves
\* the relations well founded (assertNoDependencyCycle, assertNoCycle).
LEMMA CheckedEdgeIsSafe ==
  ASSUME RelationsAreWellFounded,
         NEW f \in Tasks, NEW t \in Tasks, f # t,
         NEW E, ActiveRelations \subseteq E, NoCycle(f, t, E),
         NEW S \in SUBSET Tasks, S # {}
  PROVE  \E u \in S : \A w \in S : <<u, w>> \notin ActiveRelations \cup {<<f, t>>}
<1> DEFINE R == Reached(t, E)
<1>1. CASE S \cap R = {}
  <2>1. t \notin S
    BY <1>1, ReachedStarts
  <2>2. PICK u \in S : \A w \in S : <<u, w>> \notin ActiveRelations
    BY DEF RelationsAreWellFounded
  <2> QED
    BY <2>1, <2>2
<1>2. CASE S \cap R # {}
  <2>1. S \cap R \in SUBSET Tasks
    OBVIOUS
  <2>2. PICK u \in S \cap R : \A w \in S \cap R : <<u, w>> \notin ActiveRelations
    BY <1>2, <2>1 DEF RelationsAreWellFounded
  <2>3. u # f
    BY DEF NoCycle
  <2>4. ASSUME NEW w \in S, <<u, w>> \in ActiveRelations
        PROVE  FALSE
    <3>1. <<u, w>> \in E
      BY <2>4
    <3>2. w \in R
      BY <3>1, ReachedIsClosed
    <3> QED
      BY <2>2, <2>4, <3>2
  <2> QED
    BY <2>3, <2>4
<1> QED
  BY <1>1, <1>2

\* Nothing waits, nothing is stored: the invariant holds at the start.
LEMMA ReadinessInitInv == ReadinessInit => ReadinessInv
<1> SUFFICES ASSUME ReadinessInit PROVE ReadinessInv
  OBVIOUS
<1>1. ReadinessTypeOK
  BY DEF ReadinessInit, ReadinessTypeOK
<1>2. ActiveRelations = {}
  BY DEF ReadinessInit, ActiveRelations
<1>3. RelationsAreSeen
  BY <1>2 DEF RelationsAreSeen
<1>4. RelationsAreWellFounded
  BY <1>2 DEF RelationsAreWellFounded
<1> QED
  BY <1>1, <1>3, <1>4 DEF ReadinessInv

\* An action that adds at most the edge the walk has admitted, in both tables,
\* keeps the graph part of the invariant.
LEMMA GrownGraph ==
  ASSUME ReadinessInv, NEW f \in Tasks, NEW t \in Tasks, f # t,
         NEW E, ActiveRelations \subseteq E, NoCycle(f, t, E),
         ActiveRelations' \subseteq ActiveRelations \cup {<<f, t>>},
         LiveDependencies' = LiveDependencies \cup {<<f, t>>}
  PROVE  RelationsAreSeen' /\ RelationsAreWellFounded'
<1>1. RelationsAreSeen'
  BY DEF ReadinessInv, RelationsAreSeen
<1>2. RelationsAreWellFounded'
  <2> SUFFICES ASSUME NEW S \in SUBSET Tasks, S # {}
               PROVE  \E u \in S : \A w \in S : <<u, w>> \notin ActiveRelations'
    BY DEF RelationsAreWellFounded
  <2>1. PICK u \in S : \A w \in S : <<u, w>> \notin ActiveRelations \cup {<<f, t>>}
    BY CheckedEdgeIsSafe DEF ReadinessInv
  <2> QED
    BY <2>1
<1> QED
  BY <1>1, <1>2

\* An action that only takes relations away, and keeps the rows of the others,
\* keeps the graph part of the invariant.
LEMMA ShrunkGraph ==
  ASSUME ReadinessInv, ActiveRelations' \subseteq ActiveRelations,
         ActiveRelations' \subseteq LiveDependencies'
  PROVE  RelationsAreSeen' /\ RelationsAreWellFounded'
BY DEF ReadinessInv, RelationsAreSeen, RelationsAreWellFounded

\* Every operation of the two interfaces and of their surroundings preserves it.
LEMMA ReadinessStep ==
  ReadinessInv /\ [ReadinessNext]_readinessVars => ReadinessInv'
<1> SUFFICES ASSUME ReadinessInv, [ReadinessNext]_readinessVars PROVE ReadinessInv'
  OBVIOUS
<1> USE DEF ReadinessInv
<1>1. ASSUME NEW e \in Edges, Depend(e[1], e[2])
      PROVE  ReadinessInv'
  <2> DEFINE f == e[1]  t == e[2]
  <2>0. f \in Tasks /\ t \in Tasks /\ f # t /\ e = <<f, t>> /\ <<f, t>> \in Edges
    BY DEF Edges
  <2>1. ReadinessTypeOK'
    BY <1>1, <2>0 DEF Depend, ReadinessTypeOK, workVars, beliefVars
  <2>2. LiveDependencies' = LiveDependencies \cup {<<f, t>>}
    BY <1>1, <2>0 DEF Depend, LiveDependencies, ReadinessTypeOK
  <2>3. ActiveRelations' \subseteq ActiveRelations \cup {<<f, t>>}
    BY <1>1, <2>0 DEF Depend, ActiveRelations, ReadinessTypeOK
  <2>4. ActiveRelations \subseteq LiveDependencies /\ NoCycle(f, t, LiveDependencies)
    BY <1>1 DEF Depend, RelationsAreSeen
  <2>5. RelationsAreSeen' /\ RelationsAreWellFounded'
    BY <2>0, <2>2, <2>3, <2>4, GrownGraph
  <2> QED
    BY <2>1, <2>5
<1>2. ASSUME NEW e \in Edges, AddRelation(e[1], e[2])
      PROVE  ReadinessInv'
  <2> DEFINE f == e[1]  t == e[2]
  <2>0. f \in Tasks /\ t \in Tasks /\ f # t /\ e = <<f, t>> /\ <<f, t>> \in Edges
    BY DEF Edges
  <2>1. ReadinessTypeOK'
    BY <1>2, <2>0 DEF AddRelation, ReadinessTypeOK, workVars, beliefVars
  <2>2. LiveDependencies' = LiveDependencies \cup {<<f, t>>}
    BY <1>2, <2>0 DEF AddRelation, LiveDependencies, ReadinessTypeOK
  <2>3. ActiveRelations' \subseteq ActiveRelations \cup {<<f, t>>}
    BY <1>2, <2>0 DEF AddRelation, ActiveRelations, ReadinessTypeOK
  <2>4. NoCycle(f, t, ActiveRelations)
    BY <1>2 DEF AddRelation
  <2>5. RelationsAreSeen' /\ RelationsAreWellFounded'
    BY <2>0, <2>2, <2>3, <2>4, GrownGraph
  <2> QED
    BY <2>1, <2>5
<1>3. ASSUME NEW e \in Edges, Undepend(e[1], e[2]) \/ EndRelation(e[1], e[2])
      PROVE  ReadinessInv'
  <2> DEFINE f == e[1]  t == e[2]
  <2>0. e = <<f, t>> /\ <<f, t>> \in Edges
    BY DEF Edges
  <2>1. ReadinessTypeOK'
    BY <1>3, <2>0 DEF Undepend, EndRelation, ReadinessTypeOK, workVars, beliefVars
  <2>2. ActiveRelations' = ActiveRelations \ {<<f, t>>}
    BY <1>3, <2>0 DEF Undepend, EndRelation, ActiveRelations, ReadinessTypeOK
  <2>3. LiveDependencies \ {<<f, t>>} \subseteq LiveDependencies'
    BY <1>3, <2>0 DEF Undepend, EndRelation, LiveDependencies, ReadinessTypeOK
  <2>4. RelationsAreSeen' /\ RelationsAreWellFounded'
    BY <2>2, <2>3, ShrunkGraph DEF RelationsAreSeen
  <2> QED
    BY <2>1, <2>4
<1>4. ASSUME UNCHANGED graphVars, ReadinessTypeOK'
      PROVE  ReadinessInv'
  <2>1. ActiveRelations' = ActiveRelations /\ LiveDependencies' = LiveDependencies
    BY <1>4 DEF graphVars, ActiveRelations, LiveDependencies
  <2> QED
    BY <1>4, <2>1, ShrunkGraph DEF RelationsAreSeen
<1>5. ASSUME NEW t \in Tasks,
             Close(t) \/ Reopen(t) \/ Delete(t) \/ Restore(t) \/ Resume(t) \/ Refute(t)
      PROVE  ReadinessInv'
  <2>1. UNCHANGED graphVars
    BY <1>5 DEF Close, Reopen, Delete, Restore, Resume, Refute
  <2>2. ReadinessTypeOK'
    BY <1>5 DEF Close, Reopen, Delete, Restore, Resume, Refute, ReadinessTypeOK,
       graphVars, workVars, beliefVars
  <2> QED
    BY <1>4, <2>1, <2>2
<1>6. ASSUME NEW x \in Texts, Withdraw(x) \/ \E t \in Tasks : Attach(t, x)
      PROVE  ReadinessInv'
  <2>1. UNCHANGED graphVars
    BY <1>6 DEF Withdraw, Attach
  <2>2. CASE Withdraw(x)
    <3>1. standing' \in SUBSET Texts /\ rests' \in SUBSET (Tasks \X Texts)
      BY <2>2 DEF Withdraw, ReadinessTypeOK
    <3>2. paused' \in SUBSET Tasks
      BY <2>2 DEF Withdraw, ReadinessTypeOK
    <3>3. UNCHANGED <<invalidated, status, deleted, dependency, relation>>
      BY <2>2 DEF Withdraw, graphVars, workVars
    <3> QED
      BY <1>4, <2>1, <3>1, <3>2, <3>3 DEF ReadinessTypeOK
  <2>3. ASSUME NEW t \in Tasks, Attach(t, x)
        PROVE  ReadinessInv'
    <3>1. standing' \in SUBSET Texts
      BY <2>3 DEF Attach, ReadinessTypeOK
    <3>2. rests' \in SUBSET (Tasks \X Texts)
      BY <2>3 DEF Attach, ReadinessTypeOK
    <3>3. UNCHANGED <<paused, invalidated, status, deleted, dependency, relation>>
      BY <2>3 DEF Attach, graphVars, workVars
    <3> QED
      BY <1>4, <2>1, <3>1, <3>2, <3>3 DEF ReadinessTypeOK
  <2> QED
    BY <1>6, <2>2, <2>3
<1>7. CASE UNCHANGED readinessVars
  <2>1. ReadinessTypeOK'
    BY <1>7 DEF readinessVars, graphVars, workVars, beliefVars, ReadinessTypeOK
  <2> QED
    BY <1>4, <1>7, <2>1 DEF readinessVars
<1> QED
  BY <1>1, <1>2, <1>3, <1>5, <1>6, <1>7 DEF ReadinessNext

\* The inductive invariant holds of every behaviour.
THEOREM ReadinessInvariant == ReadinessSpec => []ReadinessInv
<1> QED
  BY ReadinessInitInv, ReadinessStep, PTL DEF ReadinessSpec

\* Whatever pickNext offers without a filter, acquireTaskClaim does not refuse for
\* a blocker, a withdrawn assumption or a refuted premise.
THEOREM OfferedIsAlwaysClaimable == ReadinessSpec => []OfferedIsClaimable
<1>1. ReadinessInv => OfferedIsClaimable
  <2> SUFFICES ASSUME ReadinessInv, NEW t \in Offered(Tasks) PROVE Claimable(t)
    BY DEF OfferedIsClaimable
  <2>1. Workable \subseteq Tasks
    BY DEF Workable
  <2>2. Blockers(t) = {}
    BY <2>1 DEF ReadinessInv, RelationsAreSeen, Offered, Blockers
  <2> QED
    BY <2>1, <2>2 DEF Offered, Claimable
<1> QED
  BY <1>1, ReadinessInvariant, PTL

\* No set of open commitments waits only for itself, for any number of them.
THEOREM SomebodyCanAlwaysMove == ReadinessSpec => []SomebodyCanMove
<1>1. ReadinessInv => SomebodyCanMove
  <2> SUFFICES ASSUME ReadinessInv, NEW S \in SUBSET Workable, S # {}
               PROVE  \E t \in S : Blockers(t) \cap S = {}
    BY DEF SomebodyCanMove
  <2>1. S \in SUBSET Tasks
    BY DEF Workable
  <2>2. PICK t \in S : \A u \in S : <<t, u>> \notin ActiveRelations
    BY <2>1 DEF ReadinessInv, RelationsAreWellFounded
  <2> QED
    BY <2>2 DEF Blockers
<1> QED
  BY <1>1, ReadinessInvariant, PTL
=============================================================================
