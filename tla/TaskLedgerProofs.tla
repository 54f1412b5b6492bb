-------------------------- MODULE TaskLedgerProofs --------------------------
(***************************************************************************)
(* Proofs about TaskTree, for every set of rows and every depth limit, and *)
(* about TaskLedger, for every set of tasks and principals, every clock    *)
(* lag and lease length, and every value of the bounds.                    *)
(***************************************************************************)
EXTENDS TaskLedger, TaskTree, SequenceTheorems, WellFoundedInduction, TLAPS

ParentFunctions == [Tasks -> Tasks \cup {NoTask}]

Up(par, S) == \A u \in S : par[u] # NoTask => par[u] \in S

Above(par, t) ==
  {a \in Tasks : /\ par[t] # NoTask
                  /\ \A S \in SUBSET Tasks : (par[t] \in S /\ Up(par, S)) => a \in S}

NoLoop(par) == \A u \in Tasks : u \notin Above(par, u)

-----------------------------------------------------------------------------
(* Ancestors. *)

\* The ancestors of t are closed under the parent link and hold t's parent ...
LEMMA AboveIsClosed ==
  ASSUME NEW par \in ParentFunctions, NEW t \in Tasks
  PROVE  /\ Above(par, t) \in SUBSET Tasks
         /\ Up(par, Above(par, t))
         /\ par[t] # NoTask => par[t] \in Above(par, t)
<1>1. ASSUME NEW u \in Above(par, t), par[u] # NoTask
      PROVE  par[u] \in Above(par, t)
  <2>1. par[u] \in Tasks
    BY <1>1 DEF Above, ParentFunctions
  <2> QED BY <1>1, <2>1 DEF Above, Up
<1>2. par[t] # NoTask => par[t] \in Above(par, t)
  BY DEF Above, ParentFunctions
<1> QED BY <1>1, <1>2 DEF Above, Up

\* ... and they are the least such set.
LEMMA AboveIsLeast ==
  ASSUME NEW par \in ParentFunctions, NEW t \in Tasks, NEW S \in SUBSET Tasks,
         Up(par, S), par[t] # NoTask => par[t] \in S
  PROVE  Above(par, t) \subseteq S
BY DEF Above

\* An ancestor's ancestors are ancestors.
LEMMA AboveIsTransitive ==
  ASSUME NEW par \in ParentFunctions, NEW t \in Tasks, NEW u \in Above(par, t)
  PROVE  Above(par, u) \subseteq Above(par, t)
<1>1. u \in Tasks /\ (par[u] # NoTask => par[u] \in Above(par, t))
  BY AboveIsClosed DEF Up
<1> QED BY <1>1, AboveIsClosed, AboveIsLeast

\* Hanging a row under one that is not below it makes no loop.
LEMMA GraftMakesNoLoop ==
  ASSUME NEW par \in ParentFunctions, NoLoop(par),
         NEW t \in Tasks, NEW p \in Tasks \cup {NoTask}, p # t,
         p # NoTask => t \notin Above(par, p)
  PROVE  NoLoop([par EXCEPT ![t] = p])
<1> DEFINE new == [par EXCEPT ![t] = p]
           onto == IF p = NoTask THEN {} ELSE {p} \cup Above(par, p)
<1>1. /\ new \in ParentFunctions
      /\ new[t] = p
      /\ \A v \in Tasks \ {t} : new[v] = par[v]
  BY DEF ParentFunctions
<1> HIDE DEF new
<1>2. onto \in SUBSET Tasks /\ t \notin onto /\ Up(par, onto)
  BY AboveIsClosed DEF Up
<1>3. p # NoTask => p \in onto
  OBVIOUS
<1>4. ASSUME NEW u \in Tasks, u \in Above(new, u)
      PROVE  FALSE
  <2>1. CASE u = t
    <3>1. Up(new, onto)
      BY <1>1, <1>2 DEF Up
    <3>2. Above(new, t) \subseteq onto
      BY <1>1, <1>2, <1>3, <3>1, AboveIsLeast
    <3> QED BY <1>2, <1>4, <2>1, <3>2
  <2>2. CASE u # t
    <3> DEFINE both == Above(par, u) \cup onto
    <3>1. both \in SUBSET Tasks /\ Up(par, Above(par, u))
      BY <1>2, AboveIsClosed
    <3>2. ASSUME NEW v \in both, new[v] # NoTask
          PROVE  new[v] \in both
      <4>1. CASE v = t
        BY <1>1, <1>3, <3>2, <4>1
      <4>2. CASE v # t
        <5>1. new[v] = par[v]
          BY <1>1, <3>1, <4>2
        <5> QED BY <1>2, <3>1, <3>2, <5>1 DEF Up
      <4> QED BY <4>1, <4>2
    <3>3. new[u] # NoTask => new[u] \in both
      BY <1>1, <2>2, AboveIsClosed
    <3>4. Above(new, u) \subseteq both
      <4>1. Up(new, both)
        BY <3>2 DEF Up
      <4> HIDE DEF both
      <4> QED BY <1>1, <3>1, <3>3, <4>1, AboveIsLeast
    <3>5. u \notin Above(par, u)
      BY DEF NoLoop
    <3>6. u \in onto
      BY <1>4, <3>4, <3>5
    <3>7. CASE t \in Above(par, u)
      <4>1. p # NoTask /\ (u = p \/ u \in Above(par, p))
        BY <3>6
      <4>2. t \in Above(par, p)
        BY <3>7, <4>1, AboveIsTransitive
      <4> QED BY <4>1, <4>2
    <3>8. CASE t \notin Above(par, u)
      <4>1. Up(new, Above(par, u))
        BY <1>1, <3>1, <3>8 DEF Up
      <4>2. Above(new, u) \subseteq Above(par, u)
        BY <1>1, <2>2, <4>1, AboveIsClosed, AboveIsLeast
      <4> QED BY <1>4, <3>5, <4>2
    <3> QED BY <3>7, <3>8
  <2> QED BY <2>1, <2>2
<1> QED BY <1>4 DEF NoLoop, new

\* A row that is nobody's parent is nobody's ancestor.
LEMMA ChildlessIsNoAncestor ==
  ASSUME NEW par \in ParentFunctions, NEW t \in Tasks, \A v \in Tasks : par[v] # t,
         NEW p \in Tasks
  PROVE  t \notin Above(par, p)
<1> DEFINE others == Above(par, p) \ {t}
<1>1. others \in SUBSET Tasks /\ Up(par, others)
  BY AboveIsClosed DEF Up
<1>2. par[p] # NoTask => par[p] \in others
  BY AboveIsClosed
<1>3. Above(par, p) \subseteq others
  BY <1>1, <1>2, AboveIsLeast
<1> QED BY <1>3

-----------------------------------------------------------------------------
(* The invariant.  A row that was never inserted has no parent and is nobody's: *)
(* without that, an insert could close a loop or bring an orphan to life.       *)

UnusedRows ==
  \A t \in Tasks : row[t] = "absent" =>
    parent[t] = NoTask /\ \A u \in Tasks : parent[u] # t

TreeInv == TreeTypeOK /\ UnusedRows /\ LiveChildHasLiveParent /\ NoLoop(parent)

TreeStep(t) ==
  \/ \E p \in Tasks \cup {NoTask} : CreateRow(t, p) \/ Reparent(t, p)
  \/ \E cascade \in BOOLEAN : DeleteRow(t, cascade)
  \/ RestoreRow(t)

LEMMA AncestorsAreAbove ==
  /\ \A t : Ancestors(t) = Above(parent, t)
  /\ Acyclic <=> NoLoop(parent)
BY DEF Ancestors, Above, ClosedUp, Up, Acyclic, NoLoop

LEMMA TreeStepKeepsInv ==
  ASSUME TreeInv, NEW t \in Tasks, TreeStep(t)
  PROVE  TreeInv'
<1>1. parent \in ParentFunctions /\ NoLoop(parent)
  BY DEF TreeInv, TreeTypeOK, ParentFunctions
<1>2. ASSUME NEW p \in Tasks \cup {NoTask}, CreateRow(t, p)
      PROVE  TreeInv'
  <2>1. TreeTypeOK' /\ UnusedRows'
    BY <1>2, NoTaskAssumption
       DEF CreateRow, TreeInv, TreeTypeOK, UnusedRows, ParentIsLive, RowStates
  <2>2. LiveChildHasLiveParent'
    BY <1>2 DEF CreateRow, TreeInv, TreeTypeOK, LiveChildHasLiveParent, ParentIsLive
  <2>3. p # NoTask => t \notin Above(parent, p)
    BY <1>1, <1>2, ChildlessIsNoAncestor DEF CreateRow, TreeInv, UnusedRows
  <2>4. NoLoop(parent')
    BY <1>1, <1>2, <2>3, GraftMakesNoLoop DEF CreateRow
  <2> QED BY <2>1, <2>2, <2>4 DEF TreeInv
<1>3. ASSUME NEW p \in Tasks \cup {NoTask}, Reparent(t, p)
      PROVE  TreeInv'
  <2>1. TreeTypeOK' /\ UnusedRows'
    BY <1>3, NoTaskAssumption DEF Reparent, TreeInv, TreeTypeOK, UnusedRows, ParentIsLive
  <2>2. LiveChildHasLiveParent'
    BY <1>3 DEF Reparent, TreeInv, TreeTypeOK, LiveChildHasLiveParent, ParentIsLive
  <2>3. p # NoTask => t \notin Above(parent, p)
    BY <1>3, AncestorsAreAbove DEF Reparent
  <2>4. NoLoop(parent')
    BY <1>1, <1>3, <2>3, GraftMakesNoLoop DEF Reparent
  <2> QED BY <2>1, <2>2, <2>4 DEF TreeInv
<1>4. ASSUME NEW cascade \in BOOLEAN, DeleteRow(t, cascade)
      PROVE  TreeInv'
  <2>1. TreeTypeOK' /\ UnusedRows' /\ NoLoop(parent')
    BY <1>4 DEF DeleteRow, TreeInv, TreeTypeOK, UnusedRows, RowStates
  <2>2. ASSUME NEW u \in Tasks, row'[u] = "live", parent'[u] # NoTask
        PROVE  row'[parent'[u]] = "live"
    <3>1. u \notin LiveSubtree(t) /\ row[u] = "live" /\ parent[u] # NoTask
      BY <1>4, <2>2 DEF DeleteRow, TreeInv, TreeTypeOK
    <3>2. parent[u] \in Tasks /\ row[parent[u]] = "live"
      BY <3>1 DEF TreeInv, TreeTypeOK, LiveChildHasLiveParent
    <3>3. parent[u] \notin LiveSubtree(t)
      BY <3>1 DEF LiveSubtree, ClosedDown
    <3> QED BY <1>4, <3>2, <3>3 DEF DeleteRow
  <2> QED BY <2>1, <2>2 DEF TreeInv, LiveChildHasLiveParent
<1>5. CASE RestoreRow(t)
  <2>1. TreeTypeOK' /\ UnusedRows' /\ NoLoop(parent')
    BY <1>5 DEF RestoreRow, TreeInv, TreeTypeOK, UnusedRows, RowStates
  <2>2. LiveChildHasLiveParent'
    BY <1>5 DEF RestoreRow, TreeInv, TreeTypeOK, LiveChildHasLiveParent, ParentIsLive
  <2> QED BY <2>1, <2>2 DEF TreeInv
<1> QED BY <1>2, <1>3, <1>4, <1>5 DEF TreeStep

\* Whatever rows are created, moved, deleted and restored, in any order and to any
\* depth limit, the tree keeps its types, its live rows hang under live rows and no
\* row is its own ancestor.
THEOREM TreeInvariant == TreeSpec => []TreeInv
<1>1. TreeInit => TreeInv
  <2>1. ASSUME TreeInit PROVE TreeTypeOK /\ UnusedRows /\ LiveChildHasLiveParent
    BY <2>1, NoTaskAssumption
       DEF TreeInit, TreeTypeOK, UnusedRows, LiveChildHasLiveParent, RowStates
  <2>2. TreeInit => NoLoop(parent)
    BY DEF TreeInit, NoLoop, Above
  <2> QED BY <2>1, <2>2 DEF TreeInv
<1>2. TreeInv /\ [TreeNext]_treeVars => TreeInv'
  <2>1. TreeInv /\ UNCHANGED treeVars => TreeInv'
    BY DEF treeVars, TreeInv, TreeTypeOK, UnusedRows, LiveChildHasLiveParent
  <2> QED BY <2>1, TreeStepKeepsInv DEF TreeNext, TreeStep
<1> QED BY <1>1, <1>2, PTL DEF TreeSpec

\* tasks.ts:595 guards against the "classic concurrent A->B / B->A race": the check
\* inside the transaction of each reparent is enough.
THEOREM TreeIsAcyclic == TreeSpec => []Acyclic
<1>1. TreeInv => Acyclic
  BY AncestorsAreAbove DEF TreeInv
<1> QED BY <1>1, TreeInvariant, PTL

\* The cascade of softDeleteTask and the refusal of restoreTask leave no orphan.
THEOREM NoOrphans == TreeSpec => []LiveChildHasLiveParent
<1>1. TreeInv => LiveChildHasLiveParent
  BY DEF TreeInv
<1> QED BY <1>1, TreeInvariant, PTL

\* Releasing a set of claims yields claims again, as many as there were.
LEMMA EndClaimsType ==
  ASSUME claims \in Seq(ClaimRecord), clock \in Nat, NEW C, NEW reason \in ReleaseReasons,
         NEW p \in Principals, NEW now \in Sampled
  PROVE  /\ EndClaims(C, reason, p, now) \in Seq(ClaimRecord)
         /\ Len(EndClaims(C, reason, p, now)) = Len(claims)
         /\ DOMAIN EndClaims(C, reason, p, now) = DOMAIN claims
<1>1. \A c \in DOMAIN claims : claims[c] \in ClaimRecord
  BY ElementOfSeq
<1>2. ASSUME NEW c \in DOMAIN claims
      PROVE  Ended(c, reason, p, now) \in ClaimRecord
  <2>1. claims[c] \in ClaimRecord
    BY <1>1
  <2>2. claims[c].rev + 1 \in Nat
    BY <2>1 DEF ClaimRecord
  <2>3. now \in Nat
    BY DEF Sampled
  <2> QED BY <2>1, <2>2, <2>3 DEF Ended, ClaimRecord, Times
<1>3. \A c \in DOMAIN claims : EndClaims(C, reason, p, now)[c] \in ClaimRecord
  BY <1>1, <1>2 DEF EndClaims
<1>4. DOMAIN claims = 1..Len(claims) /\ Len(claims) \in Nat
  BY LenProperties
<1>5. EndClaims(C, reason, p, now)
        = [c \in 1..Len(claims) |-> IF c \in C THEN Ended(c, reason, p, now) ELSE claims[c]]
  BY <1>4 DEF EndClaims
<1> QED BY <1>1, <1>2, <1>4, <1>5, IsASeq

-----------------------------------------------------------------------------
(* Types. *)

\* The tree's operations keep the types of the tree.
LEMMA TreeStepType ==
  ASSUME TreeTypeOK, NEW t \in Tasks,
         \/ \E p \in Tasks \cup {NoTask} : CreateRow(t, p) \/ Reparent(t, p)
         \/ \E cascade \in BOOLEAN : DeleteRow(t, cascade)
         \/ RestoreRow(t)
  PROVE  TreeTypeOK'
BY DEF TreeTypeOK, CreateRow, Reparent, DeleteRow, RestoreRow, RowStates

\* Bumping a revision, and setting a status or a mode with it.
LEMMA BumpType ==
  ASSUME task \in [Tasks -> TaskRecord], NEW t \in Tasks
  PROVE  /\ Bump(t) \in [Tasks -> TaskRecord]
         /\ \A s \in Statuses : [Bump(t) EXCEPT ![t].status = s] \in [Tasks -> TaskRecord]
         /\ \A m \in Modes : [Bump(t) EXCEPT ![t].mode = m] \in [Tasks -> TaskRecord]
<1> DEFINE bumped == [task[t] EXCEPT !.rev = @ + 1]
<1>1. task[t] \in TaskRecord /\ task[t].rev + 1 \in Nat
  BY DEF TaskRecord
<1>2. /\ bumped \in TaskRecord
      /\ \A s \in Statuses : [bumped EXCEPT !.status = s] \in TaskRecord
      /\ \A m \in Modes : [bumped EXCEPT !.mode = m] \in TaskRecord
  BY <1>1 DEF TaskRecord
<1>3. Bump(t) = [task EXCEPT ![t] = bumped]
  BY DEF Bump
<1>4. Bump(t)[t] = bumped
  BY <1>3
<1> HIDE DEF bumped
<1>5. Bump(t) \in [Tasks -> TaskRecord]
  BY <1>2, <1>3
<1>6. ASSUME NEW s \in Statuses
      PROVE  [Bump(t) EXCEPT ![t].status = s] \in [Tasks -> TaskRecord]
  <2>1. [Bump(t) EXCEPT ![t].status = s] = [Bump(t) EXCEPT ![t] = [bumped EXCEPT !.status = s]]
    BY <1>4
  <2> QED BY <1>2, <1>5, <2>1
<1>7. ASSUME NEW m \in Modes
      PROVE  [Bump(t) EXCEPT ![t].mode = m] \in [Tasks -> TaskRecord]
  <2>1. [Bump(t) EXCEPT ![t].mode = m] = [Bump(t) EXCEPT ![t] = [bumped EXCEPT !.mode = m]]
    BY <1>4
  <2> QED BY <1>2, <1>5, <2>1
<1> QED BY <1>5, <1>6, <1>7

\* Renewing one claim.
LEMMA RenewType ==
  ASSUME claims \in Seq(ClaimRecord), NEW c \in DOMAIN claims, NEW now \in Nat, NEW until \in Nat
  PROVE  Renewed(c, now, until) \in Seq(ClaimRecord)
<1> DEFINE renewed == [claims[c] EXCEPT !.heartbeat = now, !.expires = until, !.rev = @ + 1]
<1>0. claims[c] \in ClaimRecord
  BY ElementOfSeq, LenProperties
<1>1. claims[c] \in ClaimRecord /\ claims[c].rev + 1 \in Nat
  BY <1>0 DEF ClaimRecord
<1>2. renewed \in ClaimRecord
  BY <1>1 DEF ClaimRecord, Times
<1>3. Renewed(c, now, until) = [claims EXCEPT ![c] = renewed]
  BY DEF Renewed
<1> HIDE DEF renewed
<1> QED BY <1>2, <1>3, ExceptSeq, LenProperties

\* Cancelling a set of attempts yields attempts again.
LEMMA StoppedType ==
  ASSUME attempts \in Seq(AttemptRecord), NEW A, NEW now \in Nat
  PROVE  Stopped(A, now) \in Seq(AttemptRecord)
<1> DEFINE Cancelled(a) == [attempts[a] EXCEPT !.status = "cancelled", !.updated = now,
                                               !.rev = @ + 1]
<1>1. /\ DOMAIN attempts = 1..Len(attempts) /\ Len(attempts) \in Nat
      /\ \A a \in DOMAIN attempts : attempts[a] \in AttemptRecord
  BY LenProperties, ElementOfSeq
<1>2. ASSUME NEW a \in DOMAIN attempts PROVE Cancelled(a) \in AttemptRecord
  <2>1. attempts[a] \in AttemptRecord /\ attempts[a].rev + 1 \in Nat
    BY <1>1 DEF AttemptRecord
  <2> QED BY <2>1 DEF AttemptRecord, AttemptStatuses, Times
<1>3. Stopped(A, now) = [a \in 1..Len(attempts) |-> IF a \in A THEN Cancelled(a) ELSE attempts[a]]
  BY <1>1 DEF Stopped
<1> HIDE DEF Cancelled
<1> QED BY <1>1, <1>2, <1>3, IsASeq

\* A set of numbers has a least one.
LEMMA LeastNumber ==
  ASSUME NEW S \in SUBSET Nat, S # {}
  PROVE  \E n \in S : \A m \in S : n <= m
<1>1. PICK n \in S : \A m \in S : ~(<<m, n>> \in OpToRel(<, Nat))
  BY NatLessThanWellFounded, WFMin
<1>2. \A m \in S : ~(m < n)
  BY <1>1 DEF OpToRel
<1> QED BY <1>2

\* Fences number the claims of a task, so none exceeds its row's own number.
FencesBounded == \A c \in DOMAIN claims : claims[c].fence <= c

\* The next fence exists, and is the least that exceeds every fence of the task.
LEMMA NextFenceExceeds ==
  ASSUME claims \in Seq(ClaimRecord), FencesBounded, NEW t \in Tasks
  PROVE  /\ NextFence(t) \in 1..(Len(claims) + 1)
         /\ \A c \in DOMAIN claims : claims[c].task = t => claims[c].fence < NextFence(t)
         /\ \/ NextFence(t) = 1
            \/ \E c \in DOMAIN claims : claims[c].task = t /\ claims[c].fence = NextFence(t) - 1
<1> DEFINE Mine == {c \in DOMAIN claims : claims[c].task = t}
           Bounds == {f \in 0..Len(claims) : \A c \in Mine : claims[c].fence <= f}
           IsMax(f) == /\ \A c \in DOMAIN claims : claims[c].task = t => claims[c].fence <= f
                       /\ f = 0 \/ \E c \in DOMAIN claims : claims[c].task = t /\ claims[c].fence = f
<1>1. /\ DOMAIN claims = 1..Len(claims) /\ Len(claims) \in Nat
      /\ \A c \in DOMAIN claims : claims[c] \in ClaimRecord
  BY LenProperties, ElementOfSeq
<1>2. \A c \in DOMAIN claims : claims[c].fence \in Nat
  BY <1>1 DEF ClaimRecord
<1>3. Len(claims) \in Bounds
  BY <1>1, <1>2 DEF FencesBounded
<1>4. PICK f \in Bounds : \A g \in Bounds : f <= g
  <2>1. Bounds \in SUBSET Nat
    BY <1>1
  <2> QED BY <1>3, <2>1, LeastNumber
<1>5. f = 0 \/ \E c \in Mine : claims[c].fence = f
  <2> SUFFICES ASSUME f # 0, \A c \in Mine : claims[c].fence # f PROVE FALSE
    OBVIOUS
  <2>1. f - 1 \in Bounds
    BY <1>1, <1>2, <1>4
  <2> QED BY <1>1, <1>4, <2>1
<1>6. f \in 0..Len(claims) /\ IsMax(f)
  BY <1>4, <1>5
<1>7. NextFence(t) = 1 + (CHOOSE h \in 0..Len(claims) : IsMax(h))
  BY DEF NextFence
<1> HIDE DEF IsMax
<1>8. PICK h \in 0..Len(claims) : NextFence(t) = 1 + h /\ IsMax(h)
  BY <1>6, <1>7
<1> QED BY <1>1, <1>2, <1>8 DEF IsMax

\* Every step keeps the types of tables and counters.
LEMMA TypeStep ==
  LedgerTypeOK /\ FencesBounded /\ [LedgerNext]_ledgerVars => LedgerTypeOK'
<1> SUFFICES ASSUME LedgerTypeOK, FencesBounded, [LedgerNext]_ledgerVars PROVE LedgerTypeOK'
  OBVIOUS
<1>1. CASE UNCHANGED ledgerVars
  BY <1>1 DEF LedgerTypeOK, TreeTypeOK, ledgerVars, execVars, treeVars
<1>2. CASE Tick
  BY <1>2, LedgerAssumption DEF Tick, LedgerTypeOK, TreeTypeOK, execVars, treeVars
<1>3. ASSUME NEW t \in Tasks, TaskOps(t) PROVE LedgerTypeOK'
  <2>1. ASSUME NEW p \in Tasks \cup {NoTask}, NEW mode \in Modes, CreateTask(t, p, mode)
        PROVE  LedgerTypeOK'
    <3>1. TreeTypeOK'
      BY <2>1, TreeStepType DEF CreateTask, LedgerTypeOK
    <3>2. task' \in [Tasks -> TaskRecord]
      BY <2>1 DEF CreateTask, LedgerTypeOK, TaskRecord, Statuses
    <3> QED BY <2>1, <3>1, <3>2 DEF CreateTask, LedgerTypeOK, execVars
  <2>2. ASSUME NEW p \in Tasks \cup {NoTask}, MoveTask(t, p)
        PROVE  LedgerTypeOK'
    <3>1. TreeTypeOK'
      BY <2>2, TreeStepType DEF MoveTask, LedgerTypeOK
    <3>2. task' \in [Tasks -> TaskRecord]
      BY <2>2, BumpType DEF MoveTask, LedgerTypeOK
    <3> QED BY <2>2, <3>1, <3>2 DEF MoveTask, LedgerTypeOK, execVars
  <2>3. ASSUME NEW mode \in Modes, UpdateTask(t, mode)
        PROVE  LedgerTypeOK'
    <3>1. task' \in [Tasks -> TaskRecord]
      BY <2>3, BumpType DEF UpdateTask, LedgerTypeOK
    <3> QED BY <2>3, <3>1 DEF UpdateTask, LedgerTypeOK, TreeTypeOK, execVars, treeVars
  <2>4. ASSUME NEW to \in Statuses, Transition(t, to)
        PROVE  LedgerTypeOK'
    <3>1. task' \in [Tasks -> TaskRecord]
      BY <2>4, BumpType DEF Transition, LedgerTypeOK
    <3> QED BY <2>4, <3>1 DEF Transition, LedgerTypeOK, TreeTypeOK, execVars, treeVars
  <2>5. ASSUME NEW p \in Principals, NEW to \in Closed, NEW now \in Sampled,
               CloseExecution(t, to, p, now)
        PROVE  /\ TreeTypeOK' /\ clock' \in Nat
               /\ task' \in [Tasks -> TaskRecord]
               /\ claims' \in Seq(ClaimRecord)
               /\ attempts' \in Seq(AttemptRecord)
               /\ evidence' \in Seq(EvidenceRecord)
               /\ waits' \in [Tasks -> SUBSET Times]
    <3>1. claims' \in Seq(ClaimRecord)
      BY <2>5, EndClaimsType DEF CloseExecution, LedgerTypeOK, ReleaseReasons
    <3>2. task' \in [Tasks -> TaskRecord]
      BY <2>5, BumpType DEF CloseExecution, LedgerTypeOK, Statuses, Closed
    <3>3. waits' \in [Tasks -> SUBSET Times]
      BY <2>5 DEF CloseExecution, LedgerTypeOK
    <3> QED BY <2>5, <3>1, <3>2, <3>3
            DEF CloseExecution, LedgerTypeOK, TreeTypeOK, treeVars
  <2>6. ASSUME NEW p \in Principals, NEW now \in Sampled, NEW force \in BOOLEAN,
               NEW cites \in SUBSET DOMAIN evidence, Complete(t, p, now, force, cites)
        PROVE  LedgerTypeOK'
    <3>1. [task |-> t, rev |-> task[t].rev + 1, cites |-> cites, known |-> Len(evidence)]
            \in CompletionRecord
      BY LenProperties DEF LedgerTypeOK, CompletionRecord, TaskRecord
    <3>2. completions' \in Seq(CompletionRecord)
      BY <2>6, <3>1, AppendProperties DEF Complete, LedgerTypeOK
    <3>3. CloseExecution(t, "done", p, now)
      BY <2>6 DEF Complete
    <3> QED BY <2>5, <3>2, <3>3 DEF LedgerTypeOK, Closed
  <2>7. ASSUME NEW p \in Principals, NEW now \in Sampled, NEW force \in BOOLEAN,
               Cancel(t, p, now, force)
        PROVE  LedgerTypeOK'
    BY <2>5, <2>7 DEF Cancel, LedgerTypeOK, Closed
  <2>8. ASSUME NEW p \in Principals, NEW now \in Sampled, NEW force \in BOOLEAN,
               SoftDelete(t, force, p, now)
        PROVE  LedgerTypeOK'
    <3>1. TreeTypeOK'
      BY <2>8, TreeStepType DEF SoftDelete, LedgerTypeOK
    <3>2. claims' \in Seq(ClaimRecord)
      BY <2>8, EndClaimsType DEF SoftDelete, LedgerTypeOK, ReleaseReasons
    <3>3. now \in Nat
      BY DEF Sampled
    <3>4. attempts' \in Seq(AttemptRecord)
      BY <2>8, <3>3, StoppedType DEF SoftDelete, LedgerTypeOK
    <3>5. waits' \in [Tasks -> SUBSET Times]
      BY <2>8 DEF SoftDelete, LedgerTypeOK
    <3>6. task' \in [Tasks -> TaskRecord]
      <4>1. ASSUME NEW u \in Tasks PROVE [task[u] EXCEPT !.rev = @ + 1] \in TaskRecord
        <5>1. task[u] \in TaskRecord /\ task[u].rev + 1 \in Nat
          BY DEF LedgerTypeOK, TaskRecord
        <5> QED BY <5>1 DEF TaskRecord
      <4> QED BY <2>8, <4>1 DEF SoftDelete, LedgerTypeOK
    <3> QED BY <2>8, <3>1, <3>2, <3>4, <3>5, <3>6 DEF SoftDelete, LedgerTypeOK
  <2>9. CASE RestoreTask(t)
    <3>1. TreeTypeOK'
      BY <2>9, TreeStepType DEF RestoreTask, LedgerTypeOK
    <3>2. task' \in [Tasks -> TaskRecord]
      BY <2>9, BumpType DEF RestoreTask, LedgerTypeOK
    <3> QED BY <2>9, <3>1, <3>2 DEF RestoreTask, LedgerTypeOK, execVars
  <2> QED BY <1>3, <2>1, <2>2, <2>3, <2>4, <2>6, <2>7, <2>8, <2>9 DEF TaskOps
<1>4. ASSUME NEW t \in Tasks, ClaimOps(t) PROVE LedgerTypeOK'
  <2>1. PICK p \in Principals, now \in Sampled, force \in BOOLEAN :
          \/ \E lease \in LeaseLengths, gate \in GateAnswers :
               AcquireClaim(t, p, now, lease, gate, force)
          \/ ReleaseClaim(t, p, now, force)
          \/ RefutePremise(t, p, now)
    BY <1>4 DEF ClaimOps
  <2>2. now \in Nat
    BY DEF Sampled
  <2>3. ASSUME NEW lease \in LeaseLengths, NEW gate \in GateAnswers,
               AcquireClaim(t, p, now, lease, gate, force)
        PROVE  claims' \in Seq(ClaimRecord)
    <3>1. now + lease \in Nat
      BY <2>2, LedgerAssumption
    <3>2. CASE \E c \in LiveClaims(t, now) :
                 claims' = Renewed(c, now, now + lease)
      <4>1. PICK c \in DOMAIN claims :
              claims' = Renewed(c, now, now + lease)
        BY <3>2 DEF LiveClaims, Unreleased
      <4> QED BY <4>1, <2>2, <3>1, RenewType DEF LedgerTypeOK
    <3>3. CASE claims' = Append(EndClaims(Unreleased(t), "expired", p, now),
                 [task |-> t, holder |-> p, fence |-> NextFence(t), acquired |-> now,
                  heartbeat |-> now, expires |-> now + lease, reason |-> None,
                  endedBy |-> None, ended |-> None, rev |-> 1])
      <4>1. NextFence(t) \in Nat
        BY NextFenceExceeds DEF LedgerTypeOK
      <4>2. EndClaims(Unreleased(t), "expired", p, now) \in Seq(ClaimRecord)
        BY EndClaimsType DEF LedgerTypeOK, ReleaseReasons
      <4>3. [task |-> t, holder |-> p, fence |-> NextFence(t), acquired |-> now,
             heartbeat |-> now, expires |-> now + lease, reason |-> None,
             endedBy |-> None, ended |-> None, rev |-> 1] \in ClaimRecord
        BY <2>2, <3>1, <4>1 DEF ClaimRecord, Times
      <4> QED BY <3>3, <4>2, <4>3, AppendProperties
    <3> QED BY <2>3, <3>2, <3>3 DEF AcquireClaim
  <2>4. ASSUME ReleaseClaim(t, p, now, force)
        PROVE  claims' \in Seq(ClaimRecord)
    <3>1. PICK c \in DOMAIN claims, reason \in ReleaseReasons :
            claims' = [claims EXCEPT ![c] = Ended(c, reason, p, now)]
      BY <2>4 DEF ReleaseClaim, Unreleased, ReleaseReasons
    <3>2. claims' = EndClaims({c}, reason, p, now)
      BY <3>1 DEF EndClaims, LedgerTypeOK
    <3> QED BY <3>2, EndClaimsType DEF LedgerTypeOK
  <2>5. ASSUME RefutePremise(t, p, now)
        PROVE  claims' \in Seq(ClaimRecord) /\ attempts' \in Seq(AttemptRecord)
    BY <2>2, <2>5, EndClaimsType, StoppedType DEF RefutePremise, LedgerTypeOK, ReleaseReasons
  <2> QED BY <2>1, <2>3, <2>4, <2>5
          DEF AcquireClaim, ReleaseClaim, RefutePremise, LedgerTypeOK, TreeTypeOK, treeVars
<1>5. ASSUME NEW t \in Tasks, WorkOps(t) PROVE LedgerTypeOK'
  <2>1. ASSUME NEW now \in Stated, NEW p \in Principals,
               NEW named \in DOMAIN claims \cup {None}, StartAttempt(t, p, now, named)
        PROVE  LedgerTypeOK'
    <3>1. PICK bound \in DOMAIN claims \cup {None} :
            attempts' = Append(attempts,
              [task |-> t, claim |-> bound, by |-> p, status |-> "running",
               started |-> now, updated |-> now, rev |-> 1])
      BY <2>1 DEF StartAttempt
    <3>2. now \in Nat /\ bound \in Nat \cup {None}
      BY LenProperties, LedgerAssumption DEF Stated, Sampled, LedgerTypeOK
    <3>3. attempts' \in Seq(AttemptRecord)
      BY <3>1, <3>2, AppendProperties DEF LedgerTypeOK, AttemptRecord, AttemptStatuses, Times
    <3> QED BY <2>1, <3>3 DEF StartAttempt, LedgerTypeOK, TreeTypeOK, treeVars
  <2>2. ASSUME NEW now \in Sampled, OpenWait(t, now) PROVE LedgerTypeOK'
    <3>1. waits' \in [Tasks -> SUBSET Times]
      BY <2>2 DEF OpenWait, LedgerTypeOK, Sampled, Times
    <3> QED BY <2>2, <3>1 DEF OpenWait, LedgerTypeOK, TreeTypeOK, treeVars
  <2>3. ASSUME NEW now \in Sampled, NEW w \in waits[t], CloseWait(t, w, now)
        PROVE  LedgerTypeOK'
    BY <2>3 DEF CloseWait, LedgerTypeOK, TreeTypeOK, treeVars
  <2>4. ASSUME NEW supersedes \in DOMAIN evidence \cup {None}, AddEvidence(t, supersedes)
        PROVE  LedgerTypeOK'
    <3>1. [task |-> t, supersedes |-> supersedes] \in EvidenceRecord
      BY LenProperties DEF LedgerTypeOK, EvidenceRecord
    <3>2. evidence' \in Seq(EvidenceRecord)
      BY <2>4, <3>1, AppendProperties DEF AddEvidence, LedgerTypeOK
    <3> QED BY <2>4, <3>2 DEF AddEvidence, LedgerTypeOK, TreeTypeOK, treeVars
  <2> QED BY <1>5, <2>1, <2>2, <2>3, <2>4 DEF WorkOps
<1>6. ASSUME NEW a \in DOMAIN attempts, NEW to \in AttemptStatuses, NEW now \in Stated,
             TransitionAttempt(a, to, now)
      PROVE  LedgerTypeOK'
  <2>1. attempts' \in Seq(AttemptRecord)
    <3>0. attempts[a] \in AttemptRecord
      BY ElementOfSeq, LenProperties DEF LedgerTypeOK
    <3>1. attempts[a] \in AttemptRecord /\ attempts[a].rev + 1 \in Nat /\ now \in Nat
      BY <3>0, LedgerAssumption DEF AttemptRecord, Stated, Sampled, LedgerTypeOK
    <3>2. [attempts[a] EXCEPT !.status = to, !.updated = now, !.rev = @ + 1] \in AttemptRecord
      BY <3>1 DEF AttemptRecord, Times
    <3>3. attempts' = [attempts EXCEPT ![a] =
            [attempts[a] EXCEPT !.status = to, !.updated = now, !.rev = @ + 1]]
      BY <1>6 DEF TransitionAttempt
    <3> QED BY <3>2, <3>3, ExceptSeq, LenProperties DEF LedgerTypeOK
  <2> QED BY <1>6, <2>1 DEF TransitionAttempt, LedgerTypeOK, TreeTypeOK, treeVars
<1> QED BY <1>1, <1>2, <1>3, <1>4, <1>5, <1>6 DEF LedgerNext

-----------------------------------------------------------------------------
(* What a step can do to the claims: nothing, release some, renew one or     *)
(* grant one.  The invariants about claims need no more than this.           *)

\* Some unreleased claims end together, each by someone entitled to end it and not
\* before it was acquired.
ClaimsEnd ==
  \E C \in SUBSET DOMAIN claims, reason \in ReleaseReasons, p \in Principals,
     now \in Sampled :
    /\ claims' = EndClaims(C, reason, p, now)
    /\ \A c \in C :
         /\ claims[c].reason = None /\ now >= claims[c].acquired
         /\ clock < claims[c].expires =>
              \/ p = claims[c].holder \/ p \in Forcers
              \/ reason \in {"task_deleted", "premise_invalidated"}
    /\ UNCHANGED clock

\* A live claim is renewed.
ClaimRenewed ==
  \E t \in Tasks, now \in Sampled, until \in Nat : \E c \in LiveClaims(t, now) :
    /\ now >= claims[c].heartbeat
    /\ claims' = Renewed(c, now, until)
    /\ UNCHANGED clock

\* A task without a live claim is granted, its expired claim ending with it.
ClaimGranted ==
  \E t \in Tasks, p \in Principals, now \in Sampled, until \in Nat :
    /\ LiveClaims(t, now) = {}
    /\ \A c \in Unreleased(t) : now >= claims[c].heartbeat
    /\ claims' = Append(EndClaims(Unreleased(t), "expired", p, now),
         [task |-> t, holder |-> p, fence |-> NextFence(t), acquired |-> now,
          heartbeat |-> now, expires |-> until, reason |-> None, endedBy |-> None,
          ended |-> None, rev |-> 1])
    /\ UNCHANGED clock

\* Whatever operation runs, the claims table is left alone or does one of these.
LEMMA ClaimSteps ==
  LedgerTypeOK /\ [LedgerNext]_ledgerVars =>
    claims' = claims \/ ClaimsEnd \/ ClaimRenewed \/ ClaimGranted
<1> SUFFICES ASSUME LedgerTypeOK, [LedgerNext]_ledgerVars
             PROVE  claims' = claims \/ ClaimsEnd \/ ClaimRenewed \/ ClaimGranted
  OBVIOUS
<1>1. CASE UNCHANGED ledgerVars
  BY <1>1 DEF ledgerVars, execVars
<1>2. CASE Tick
  BY <1>2 DEF Tick, execVars
<1>3. ASSUME NEW c \in DOMAIN claims
      PROVE  claims[c].expires \in Nat
  <2>1. claims[c] \in ClaimRecord
    BY ElementOfSeq, LenProperties DEF LedgerTypeOK
  <2> QED BY <2>1 DEF ClaimRecord, Times
<1>4. ASSUME NEW t \in Tasks, TaskOps(t) PROVE claims' = claims \/ ClaimsEnd
  <2>1. ASSUME NEW p \in Principals, NEW now \in Sampled, NEW force \in BOOLEAN,
               NEW to \in Closed, MayClose(t, p, now, force), CloseExecution(t, to, p, now)
        PROVE  ClaimsEnd
    <3>1. PICK reason \in ReleaseReasons : claims' = EndClaims(Unreleased(t), reason, p, now)
      BY <2>1 DEF CloseExecution, ReleaseReasons
    <3>2. ASSUME NEW c \in Unreleased(t), clock < claims[c].expires
          PROVE  p = claims[c].holder \/ p \in Forcers
      <4>1. now \in 0..clock /\ clock \in Nat /\ claims[c].expires \in Nat
        BY <1>3 DEF Sampled, Unreleased, LedgerTypeOK
      <4>2. c \in LiveClaims(t, now)
        BY <3>2, <4>1 DEF LiveClaims
      <4> QED BY <2>1, <4>2 DEF MayClose
    <3>3. /\ Unreleased(t) \in SUBSET DOMAIN claims
          /\ \A c \in Unreleased(t) : claims[c].reason = None /\ now >= claims[c].acquired
      BY <2>1 DEF Unreleased, MayClose, MayEnd
    <3>4. UNCHANGED clock
      BY <2>1 DEF CloseExecution
    <3> QED BY <3>1, <3>2, <3>3, <3>4 DEF ClaimsEnd
  <2>2. ASSUME NEW p \in Principals, NEW now \in Sampled, NEW force \in BOOLEAN,
               SoftDelete(t, force, p, now)
        PROVE  ClaimsEnd
    <3> DEFINE theirClaims == UNION {Unreleased(u) : u \in Doomed(t)}
    <3>1. /\ theirClaims \in SUBSET DOMAIN claims
          /\ \A c \in theirClaims : claims[c].reason = None /\ now >= claims[c].acquired
      BY <2>2 DEF Unreleased, SoftDelete, MayEnd
    <3>2. claims' = EndClaims(theirClaims, "task_deleted", p, now) /\ UNCHANGED clock
      BY <2>2 DEF SoftDelete
    <3>3. "task_deleted" \in ReleaseReasons
      BY DEF ReleaseReasons
    <3> HIDE DEF theirClaims
    <3> QED BY <3>1, <3>2, <3>3 DEF ClaimsEnd
  <2> QED BY <1>4, <2>1, <2>2
          DEF TaskOps, CreateTask, MoveTask, UpdateTask, Transition, Complete, Cancel,
              RestoreTask, Closed, execVars
<1>5. ASSUME NEW t \in Tasks, ClaimOps(t)
      PROVE  ClaimsEnd \/ ClaimRenewed \/ ClaimGranted
  <2>1. ASSUME NEW p \in Principals, NEW now \in Sampled, NEW force \in BOOLEAN,
               NEW lease \in LeaseLengths, NEW gate \in GateAnswers,
               AcquireClaim(t, p, now, lease, gate, force)
        PROVE  ClaimRenewed \/ ClaimGranted
    <3>1. now + lease \in Nat
      BY LedgerAssumption DEF Sampled
    <3> QED BY <2>1, <3>1 DEF AcquireClaim, ClaimRenewed, ClaimGranted, LiveClaims
  <2>2. ASSUME NEW p \in Principals, NEW now \in Sampled, NEW force \in BOOLEAN,
               ReleaseClaim(t, p, now, force)
        PROVE  ClaimsEnd
    <3>1. PICK c \in Unreleased(t), reason \in ReleaseReasons :
            /\ now >= claims[c].acquired
            /\ claims[c].holder = p \/ p \in Forcers
            /\ claims' = [claims EXCEPT ![c] = Ended(c, reason, p, now)]
      BY <2>2 DEF ReleaseClaim, ReleaseReasons
    <3>2. claims' = EndClaims({c}, reason, p, now)
      BY <3>1 DEF EndClaims, LedgerTypeOK
    <3> QED BY <2>2, <3>1, <3>2 DEF ClaimsEnd, ReleaseClaim, Unreleased
  <2>3. ASSUME NEW p \in Principals, NEW now \in Sampled, RefutePremise(t, p, now)
        PROVE  ClaimsEnd
    <3>1. /\ Unreleased(t) \in SUBSET DOMAIN claims
          /\ \A c \in Unreleased(t) : claims[c].reason = None /\ now >= claims[c].acquired
      BY <2>3 DEF Unreleased, RefutePremise, MayEnd
    <3>2. claims' = EndClaims(Unreleased(t), "premise_invalidated", p, now) /\ UNCHANGED clock
      BY <2>3 DEF RefutePremise
    <3>3. "premise_invalidated" \in ReleaseReasons
      BY DEF ReleaseReasons
    <3> QED BY <3>1, <3>2, <3>3 DEF ClaimsEnd
  <2> QED BY <1>5, <2>1, <2>2, <2>3 DEF ClaimOps
<1>6. ASSUME NEW t \in Tasks, WorkOps(t) PROVE claims' = claims
  BY <1>6 DEF WorkOps, StartAttempt, OpenWait, CloseWait, AddEvidence
<1>7. ASSUME NEW a \in DOMAIN attempts, NEW to \in AttemptStatuses, NEW now \in Stated,
             TransitionAttempt(a, to, now)
      PROVE  claims' = claims
  BY <1>7 DEF TransitionAttempt
<1> QED BY <1>1, <1>2, <1>4, <1>5, <1>6, <1>7 DEF LedgerNext

-----------------------------------------------------------------------------
(* Claims are exclusive and fenced. *)

\* What is left of each row when claims end.
LEMMA EndedRows ==
  ASSUME claims \in Seq(ClaimRecord), NEW C, NEW reason \in ReleaseReasons,
         NEW p \in Principals, NEW now \in Sampled, NEW c \in DOMAIN claims
  PROVE  /\ EndClaims(C, reason, p, now)[c].task = claims[c].task
         /\ EndClaims(C, reason, p, now)[c].fence = claims[c].fence
         /\ EndClaims(C, reason, p, now)[c].holder = claims[c].holder
         /\ EndClaims(C, reason, p, now)[c].expires = claims[c].expires
         /\ EndClaims(C, reason, p, now)[c].reason = IF c \in C THEN reason ELSE claims[c].reason
         /\ EndClaims(C, reason, p, now)[c].endedBy = IF c \in C THEN p ELSE claims[c].endedBy
         /\ EndClaims(C, reason, p, now)[c].ended = IF c \in C THEN now ELSE claims[c].ended
         /\ EndClaims(C, reason, p, now)[c].acquired = claims[c].acquired
         /\ EndClaims(C, reason, p, now)[c].heartbeat = claims[c].heartbeat
<1>1. claims[c] \in ClaimRecord
  BY ElementOfSeq, LenProperties
<1>2. EndClaims(C, reason, p, now)[c] = IF c \in C THEN Ended(c, reason, p, now) ELSE claims[c]
  BY DEF EndClaims
<1>3. CASE c \in C
  BY <1>1, <1>2, <1>3 DEF Ended, ClaimRecord
<1>4. CASE c \notin C
  BY <1>2, <1>4
<1> QED BY <1>3, <1>4

\* A grant appends one row to what is left of the others.
LEMMA GrantedRows ==
  ASSUME LedgerTypeOK, FencesBounded, NEW t \in Tasks, NEW p \in Principals,
         NEW now \in Sampled, NEW until \in Nat, NEW new,
         new = [task |-> t, holder |-> p, fence |-> NextFence(t), acquired |-> now,
                heartbeat |-> now, expires |-> until, reason |-> None, endedBy |-> None,
                ended |-> None, rev |-> 1],
         claims' = Append(EndClaims(Unreleased(t), "expired", p, now), new)
  PROVE  /\ Len(claims) \in Nat /\ DOMAIN claims = 1..Len(claims)
         /\ claims' \in Seq(ClaimRecord)
         /\ DOMAIN claims' = 1..(Len(claims) + 1)
         /\ \A c \in DOMAIN claims : claims'[c] = EndClaims(Unreleased(t), "expired", p, now)[c]
         /\ claims'[Len(claims) + 1] = new
<1>1. NextFence(t) \in 1..(Len(claims) + 1)
  BY NextFenceExceeds DEF LedgerTypeOK
<1>2. Len(claims) \in Nat /\ DOMAIN claims = 1..Len(claims)
  BY LenProperties DEF LedgerTypeOK
<1>3. new \in ClaimRecord
  BY <1>1, <1>2 DEF ClaimRecord, Times, Sampled
<1>4. /\ EndClaims(Unreleased(t), "expired", p, now) \in Seq(ClaimRecord)
      /\ Len(EndClaims(Unreleased(t), "expired", p, now)) = Len(claims)
  BY EndClaimsType DEF LedgerTypeOK, ReleaseReasons
<1>5. /\ claims' \in Seq(ClaimRecord) /\ Len(claims') = Len(claims) + 1
      /\ \A c \in 1..Len(claims) : claims'[c] = EndClaims(Unreleased(t), "expired", p, now)[c]
      /\ claims'[Len(claims) + 1] = new
  BY <1>3, <1>4, AppendProperties
<1> QED BY <1>2, <1>5, LenProperties

\* The inductive invariant: neither promise about claims is inductive without the
\* bound on fences, which is what makes the next fence exist.
ClaimInv == FencesBounded /\ FencesGrow /\ OneUnreleasedClaim

\* A grant adds one row, the only unreleased one of its task, above all fences.
LEMMA GrantKeepsClaimInv ==
  ASSUME LedgerTypeOK, ClaimInv, ClaimGranted
  PROVE  ClaimInv'
<1>1. PICK t \in Tasks, p \in Principals, now \in Sampled, until \in Nat :
        claims' = Append(EndClaims(Unreleased(t), "expired", p, now),
          [task |-> t, holder |-> p, fence |-> NextFence(t), acquired |-> now,
           heartbeat |-> now, expires |-> until, reason |-> None, endedBy |-> None,
           ended |-> None, rev |-> 1])
  BY DEF ClaimGranted
<1> DEFINE kept == EndClaims(Unreleased(t), "expired", p, now)
           new == [task |-> t, holder |-> p, fence |-> NextFence(t), acquired |-> now,
                   heartbeat |-> now, expires |-> until, reason |-> None,
                   endedBy |-> None, ended |-> None, rev |-> 1]
           n == Len(claims)
<1>2. /\ NextFence(t) \in 1..(n + 1)
      /\ \A c \in DOMAIN claims : claims[c].task = t => claims[c].fence < NextFence(t)
  BY NextFenceExceeds DEF LedgerTypeOK, ClaimInv
<1>3. claims' = Append(kept, new)
  BY <1>1
<1>4. /\ n \in Nat /\ DOMAIN claims = 1..n /\ DOMAIN claims' = 1..(n + 1)
      /\ \A c \in 1..n : claims'[c] = kept[c]
      /\ claims'[n + 1] = new
  BY <1>3, GrantedRows DEF ClaimInv
<1>5. ASSUME NEW c \in 1..n
      PROVE  /\ kept[c].task = claims[c].task /\ kept[c].fence = claims[c].fence
             /\ kept[c].reason = IF c \in Unreleased(t) THEN "expired" ELSE claims[c].reason
  <2>1. claims \in Seq(ClaimRecord) /\ "expired" \in ReleaseReasons
    BY DEF LedgerTypeOK, ReleaseReasons
  <2> QED BY <1>4, <2>1, EndedRows
<1> HIDE DEF kept, new
<1>6. new.task = t /\ new.fence = NextFence(t) /\ new.reason = None
  BY DEF new
<1>7. \A c \in 1..n : claims[c].fence \in Nat
  <2>1. \A c \in 1..n : claims[c] \in ClaimRecord
    BY <1>4, ElementOfSeq DEF LedgerTypeOK
  <2> QED BY <2>1 DEF ClaimRecord
<1>8. FencesBounded'
  <2>1. ASSUME NEW c \in DOMAIN claims' PROVE claims'[c].fence <= c
    <3>1. CASE c \in 1..n
      BY <3>1, <1>4, <1>5 DEF ClaimInv, FencesBounded
    <3>2. CASE c = n + 1
      BY <3>2, <1>2, <1>4, <1>6
    <3> QED BY <3>1, <3>2, <1>4
  <2> QED BY <2>1 DEF FencesBounded
<1>9. FencesGrow'
  <2>1. ASSUME NEW c \in DOMAIN claims', NEW d \in DOMAIN claims',
               c < d, claims'[c].task = claims'[d].task
        PROVE  claims'[c].fence < claims'[d].fence
    <3>1. c \in 1..n
      BY <2>1, <1>4
    <3>2. CASE d \in 1..n
      BY <2>1, <3>1, <3>2, <1>4, <1>5 DEF ClaimInv, FencesGrow
    <3>3. CASE d = n + 1
      BY <2>1, <3>1, <3>3, <1>2, <1>4, <1>5, <1>6
    <3> QED BY <3>2, <3>3, <1>4
  <2> QED BY <2>1 DEF FencesGrow
<1>10. OneUnreleasedClaim'
  <2>1. ASSUME NEW u \in Tasks, NEW c \in Unreleased(u)', NEW d \in Unreleased(u)'
        PROVE  c = d
    <3>1. /\ c \in 1..(n + 1) /\ claims'[c].task = u /\ claims'[c].reason = None
          /\ d \in 1..(n + 1) /\ claims'[d].task = u /\ claims'[d].reason = None
      BY <1>4 DEF Unreleased
    <3>2. ASSUME NEW x \in 1..n, claims'[x].task = u, claims'[x].reason = None
          PROVE  x \in Unreleased(u) /\ u # t
      <4>1. x \notin Unreleased(t)
        BY <3>2, <1>4, <1>5, LedgerAssumption DEF ReleaseReasons
      <4> QED BY <3>2, <4>1, <1>4, <1>5 DEF Unreleased
    <3>3. CASE c \in 1..n /\ d \in 1..n
      BY <3>1, <3>2, <3>3 DEF ClaimInv, OneUnreleasedClaim
    <3>4. CASE c = n + 1 \/ d = n + 1
      BY <3>1, <3>2, <3>4, <1>4, <1>6
    <3> QED BY <3>1, <3>3, <3>4, <1>4
  <2> QED BY <2>1 DEF OneUnreleasedClaim
<1> QED BY <1>8, <1>9, <1>10 DEF ClaimInv

\* A step that adds no row, keeps tasks and fences and reopens nothing keeps it.
LEMMA EndKeepsClaimInv ==
  ASSUME LedgerTypeOK, ClaimInv, DOMAIN claims' = DOMAIN claims,
         \A c \in DOMAIN claims :
           /\ claims'[c].task = claims[c].task /\ claims'[c].fence = claims[c].fence
           /\ claims'[c].reason = None => claims[c].reason = None
  PROVE  ClaimInv'
<1>1. FencesBounded'
  BY DEF ClaimInv, FencesBounded
<1>2. FencesGrow'
  BY DEF ClaimInv, FencesGrow
<1>3. \A t \in Tasks : Unreleased(t)' \subseteq Unreleased(t)
  BY DEF Unreleased
<1>4. OneUnreleasedClaim'
  BY <1>3 DEF ClaimInv, OneUnreleasedClaim
<1> QED BY <1>1, <1>2, <1>4 DEF ClaimInv

\* What is left of each row when one claim is renewed.
LEMMA RenewedRows ==
  ASSUME LedgerTypeOK, NEW r \in DOMAIN claims, NEW now, NEW until,
         claims' = Renewed(r, now, until)
  PROVE  /\ DOMAIN claims' = DOMAIN claims
         /\ \A c \in DOMAIN claims :
              /\ claims'[c].task = claims[c].task /\ claims'[c].fence = claims[c].fence
              /\ claims'[c].reason = claims[c].reason /\ claims'[c].holder = claims[c].holder
              /\ claims'[c].acquired = claims[c].acquired /\ claims'[c].ended = claims[c].ended
              /\ c # r => claims'[c] = claims[c]
         /\ claims'[r].expires = until /\ claims'[r].heartbeat = now
<1>1. claims[r] \in ClaimRecord
  BY ElementOfSeq, LenProperties DEF LedgerTypeOK
<1> DEFINE renewed == [claims[r] EXCEPT !.heartbeat = now, !.expires = until, !.rev = @ + 1]
<1>2. /\ renewed.task = claims[r].task /\ renewed.fence = claims[r].fence
      /\ renewed.reason = claims[r].reason /\ renewed.holder = claims[r].holder
      /\ renewed.acquired = claims[r].acquired /\ renewed.ended = claims[r].ended
      /\ renewed.expires = until /\ renewed.heartbeat = now
  BY <1>1 DEF ClaimRecord
<1>3. claims' = [claims EXCEPT ![r] = renewed]
  BY DEF Renewed
<1> HIDE DEF renewed
<1> QED BY <1>2, <1>3

\* Every step keeps the inductive invariant.
LEMMA ClaimInvStep ==
  LedgerTypeOK /\ ClaimInv /\ [LedgerNext]_ledgerVars => ClaimInv'
<1> SUFFICES ASSUME LedgerTypeOK, ClaimInv, [LedgerNext]_ledgerVars PROVE ClaimInv'
  OBVIOUS
<1>1. CASE claims' = claims
  BY <1>1, EndKeepsClaimInv
<1>2. CASE ClaimsEnd
  <2>1. PICK C \in SUBSET DOMAIN claims, reason \in ReleaseReasons, p \in Principals,
             now \in Sampled :
          claims' = EndClaims(C, reason, p, now)
    BY <1>2 DEF ClaimsEnd
  <2>2. DOMAIN claims' = DOMAIN claims
    BY <2>1, EndClaimsType DEF LedgerTypeOK
  <2>3. ASSUME NEW c \in DOMAIN claims
        PROVE  /\ claims'[c].task = claims[c].task /\ claims'[c].fence = claims[c].fence
               /\ claims'[c].reason = None => claims[c].reason = None
    <3>1. claims \in Seq(ClaimRecord) /\ reason # None
      BY LedgerAssumption DEF LedgerTypeOK
    <3> QED BY <2>1, <3>1, EndedRows
  <2> QED BY <2>2, <2>3, EndKeepsClaimInv
<1>3. CASE ClaimRenewed
  <2>1. PICK t \in Tasks, now \in Sampled, until \in Nat : \E r \in LiveClaims(t, now) :
          claims' = Renewed(r, now, until)
    BY <1>3 DEF ClaimRenewed
  <2>2. PICK r \in LiveClaims(t, now) :
          claims' = Renewed(r, now, until)
    BY <2>1
  <2>3. r \in DOMAIN claims
    BY DEF LiveClaims, Unreleased
  <2> QED BY <2>2, <2>3, RenewedRows, EndKeepsClaimInv
<1>4. CASE ClaimGranted
  BY <1>4, GrantKeepsClaimInv
<1> QED BY <1>1, <1>2, <1>3, <1>4, ClaimSteps

-----------------------------------------------------------------------------
(* The theorems about claims. *)

\* The empty ledger satisfies the invariant.
LEMMA LedgerInitially == LedgerInit => LedgerTypeOK /\ ClaimInv
<1> SUFFICES ASSUME LedgerInit PROVE LedgerTypeOK /\ ClaimInv
  OBVIOUS
<1>1. TreeTypeOK
  BY DEF LedgerInit, TreeInit, TreeTypeOK, RowStates
<1>2. task \in [Tasks -> TaskRecord]
  BY LedgerAssumption DEF LedgerInit, TaskRecord, Statuses
<1>3. LedgerTypeOK
  BY <1>1, <1>2, EmptySeq DEF LedgerInit, LedgerTypeOK
<1>4. DOMAIN claims = {}
  BY EmptySeq, LenProperties DEF LedgerInit
<1>5. ClaimInv
  BY <1>4 DEF ClaimInv, FencesBounded, FencesGrow, OneUnreleasedClaim, Unreleased
<1> QED BY <1>3, <1>5

\* Types and the claims invariant hold in every reachable state.
LEMMA LedgerInvariant == LedgerSpec => [](LedgerTypeOK /\ ClaimInv)
<1>1. LedgerTypeOK /\ ClaimInv /\ [LedgerNext]_ledgerVars => (LedgerTypeOK /\ ClaimInv)'
  BY TypeStep, ClaimInvStep DEF ClaimInv
<1> QED BY <1>1, LedgerInitially, PTL DEF LedgerSpec

\* Tables and counters keep their types in every reachable state: no operation
\* stores a status, a reason or a time outside its column's domain.
THEOREM LedgerTypes == LedgerSpec => []LedgerTypeOK
BY LedgerInvariant, PTL

\* Agents racing for a task never hold two unreleased claims on it at a time.
THEOREM ClaimsAreExclusive == LedgerSpec => []OneUnreleasedClaim
<1>1. ClaimInv => OneUnreleasedClaim
  BY DEF ClaimInv
<1> QED BY <1>1, LedgerInvariant, PTL

\* The claims of a task carry ever larger fences.
THEOREM ClaimsAreFenced == LedgerSpec => []FencesGrow
<1>1. ClaimInv => FencesGrow
  BY DEF ClaimInv
<1> QED BY <1>1, LedgerInvariant, PTL

\* A claim that is live by the wall clock ends only at the hands of its holder,
\* of a caller who forces it, or with the task or its premise, whatever the clock samples of
\* the transactions and the number of tasks and agents.
THEOREM TakeoverIsNeverSilent == LedgerSpec => NoSilentTakeover
<1> DEFINE Polite ==
      \A c \in DOMAIN claims :
        (claims[c].reason = None /\ claims'[c].reason # None /\ clock < claims[c].expires) =>
          \/ claims'[c].endedBy = claims[c].holder
          \/ claims'[c].endedBy \in Forcers
          \/ claims'[c].reason \in {"task_deleted", "premise_invalidated"}
<1>1. LedgerTypeOK /\ ClaimInv /\ [LedgerNext]_ledgerVars => [Polite]_ledgerVars
  <2> SUFFICES ASSUME LedgerTypeOK, ClaimInv, [LedgerNext]_ledgerVars,
                      NEW c \in DOMAIN claims, claims[c].reason = None,
                      claims'[c].reason # None, clock < claims[c].expires
               PROVE  \/ claims'[c].endedBy = claims[c].holder
                      \/ claims'[c].endedBy \in Forcers
                      \/ claims'[c].reason \in {"task_deleted", "premise_invalidated"}
    OBVIOUS
  <2>1. claims \in Seq(ClaimRecord)
    BY DEF LedgerTypeOK
  <2>2. CASE ClaimsEnd
    <3>1. PICK C \in SUBSET DOMAIN claims, reason \in ReleaseReasons, p \in Principals,
               now \in Sampled :
            /\ claims' = EndClaims(C, reason, p, now)
            /\ \A d \in C : clock < claims[d].expires =>
                 \/ p = claims[d].holder \/ p \in Forcers
                 \/ reason \in {"task_deleted", "premise_invalidated"}
      BY <2>2 DEF ClaimsEnd
    <3>2. /\ claims'[c].reason = IF c \in C THEN reason ELSE claims[c].reason
          /\ claims'[c].endedBy = IF c \in C THEN p ELSE claims[c].endedBy
      BY <2>1, <3>1, EndedRows
    <3> QED BY <3>1, <3>2
  <2>3. CASE ClaimRenewed
    <3>1. PICK t \in Tasks, now \in Sampled, until \in Nat : \E r \in LiveClaims(t, now) :
            claims' = Renewed(r, now, until)
      BY <2>3 DEF ClaimRenewed
    <3>2. PICK r \in LiveClaims(t, now) :
            claims' = Renewed(r, now, until)
      BY <3>1
    <3>3. r \in DOMAIN claims
      BY DEF LiveClaims, Unreleased
    <3> QED BY <3>2, <3>3, RenewedRows
  <2>4. CASE ClaimGranted
    <3>1. PICK t \in Tasks, p \in Principals, now \in Sampled, until \in Nat :
            /\ LiveClaims(t, now) = {}
            /\ claims' = Append(EndClaims(Unreleased(t), "expired", p, now),
                 [task |-> t, holder |-> p, fence |-> NextFence(t), acquired |-> now,
                  heartbeat |-> now, expires |-> until, reason |-> None,
                  endedBy |-> None, ended |-> None, rev |-> 1])
      BY <2>4 DEF ClaimGranted
    <3>2. c \notin Unreleased(t)
      <4>1. claims[c] \in ClaimRecord
        BY <2>1, ElementOfSeq, LenProperties
      <4>2. claims[c].expires \in Nat /\ now \in Nat /\ now <= clock /\ clock \in Nat
        BY <4>1 DEF ClaimRecord, Times, Sampled, LedgerTypeOK
      <4> QED BY <3>1, <4>2 DEF LiveClaims
    <3>3. "expired" \in ReleaseReasons
      BY DEF ReleaseReasons
    <3>4. EndClaims(Unreleased(t), "expired", p, now)[c].reason = claims[c].reason
      BY <2>1, <3>2, <3>3, EndedRows
    <3>5. claims'[c] = EndClaims(Unreleased(t), "expired", p, now)[c]
      BY <3>1, GrantedRows DEF ClaimInv
    <3> QED BY <3>4, <3>5
  <2> QED BY <2>2, <2>3, <2>4, ClaimSteps
<1>2. NoSilentTakeover <=> [][Polite]_ledgerVars
  BY DEF NoSilentTakeover
<1> HIDE DEF Polite
<1> QED BY <1>1, <1>2, LedgerInvariant, PTL DEF LedgerSpec

\* The rows of a well-typed ledger.
LEMMA Rows ==
  ASSUME LedgerTypeOK
  PROVE  /\ Len(claims) \in Nat /\ DOMAIN claims = 1..Len(claims)
         /\ \A c \in DOMAIN claims : claims[c] \in ClaimRecord
         /\ Len(attempts) \in Nat /\ DOMAIN attempts = 1..Len(attempts)
         /\ \A a \in DOMAIN attempts : attempts[a] \in AttemptRecord
BY LenProperties, ElementOfSeq DEF LedgerTypeOK

-----------------------------------------------------------------------------
(* Claims take turns, by their recorded times. *)

\* The inductive invariant: every time of a claim is past, none precedes its
\* acquisition, and a claim with a successor ended at most a lag after it.
TurnInv ==
  /\ \A c \in DOMAIN claims :
       claims[c].acquired <= claims[c].heartbeat /\ claims[c].acquired <= clock
  /\ ClaimsTakeTurns

\* A step that adds no row keeps it, if a row that changes is renewed or ends now.
LEMMA SameRowsKeepTurns ==
  ASSUME LedgerTypeOK, TurnInv, clock' \in Nat, clock <= clock',
         DOMAIN claims' = DOMAIN claims,
         \A c \in DOMAIN claims :
           /\ claims'[c].task = claims[c].task /\ claims'[c].acquired = claims[c].acquired
           /\ claims'[c].acquired <= claims'[c].heartbeat
           /\ \/ claims'[c].reason = claims[c].reason /\ claims'[c].ended = claims[c].ended
              \/ claims[c].reason = None /\ claims'[c].ended \in claims[c].acquired..clock
  PROVE  TurnInv'
<1>1. /\ DOMAIN claims = 1..Len(claims) /\ Len(claims) \in Nat /\ clock \in Nat
      /\ \A c \in DOMAIN claims : claims[c].acquired \in Nat
  <2>1. \A c \in DOMAIN claims : claims[c] \in ClaimRecord
    BY Rows
  <2> QED BY <2>1, Rows DEF LedgerTypeOK, ClaimRecord, Times
<1>2. ASSUME NEW c \in DOMAIN claims
      PROVE  /\ claims'[c].acquired <= claims'[c].heartbeat
             /\ claims'[c].acquired <= clock'
             /\ claims'[c].reason # None =>
                  claims'[c].ended \in claims'[c].acquired..clock'
  <2>1. /\ claims[c].acquired <= clock
        /\ claims[c].reason # None => claims[c].ended \in claims[c].acquired..clock
    BY DEF TurnInv, ClaimsTakeTurns
  <2> QED BY <1>1, <2>1
<1>3. ASSUME NEW d \in DOMAIN claims, NEW c \in 1..(d - 1), claims'[c].task = claims'[d].task
      PROVE  claims'[c].reason # None /\ claims'[c].ended <= claims'[d].acquired + MaxLag
  <2>1. c \in DOMAIN claims
    BY <1>1
  <2>2. claims[c].reason # None /\ claims[c].ended <= claims[d].acquired + MaxLag
    BY <1>3, <2>1 DEF TurnInv, ClaimsTakeTurns
  <2> QED BY <2>1, <2>2
<1> QED BY <1>2, <1>3 DEF TurnInv, ClaimsTakeTurns

\* A grant ends what is unreleased on the task and starts the next turn: every
\* earlier claim of it ended by `clock`, which is at most a lag ahead of the sample.
LEMMA GrantKeepsTurns ==
  ASSUME LedgerTypeOK, ClaimInv, TurnInv, ClaimGranted
  PROVE  TurnInv'
<1>1. PICK t \in Tasks, p \in Principals, now \in Sampled, until \in Nat :
        /\ \A c \in Unreleased(t) : now >= claims[c].heartbeat
        /\ claims' = Append(EndClaims(Unreleased(t), "expired", p, now),
             [task |-> t, holder |-> p, fence |-> NextFence(t), acquired |-> now,
              heartbeat |-> now, expires |-> until, reason |-> None,
              endedBy |-> None, ended |-> None, rev |-> 1])
        /\ UNCHANGED clock
  BY DEF ClaimGranted
<1> DEFINE n == Len(claims)
           new == [task |-> t, holder |-> p, fence |-> NextFence(t), acquired |-> now,
                   heartbeat |-> now, expires |-> until, reason |-> None,
                   endedBy |-> None, ended |-> None, rev |-> 1]
           kept == EndClaims(Unreleased(t), "expired", p, now)
<1>2. clock \in Nat /\ now \in Nat /\ now <= clock /\ clock <= now + MaxLag
  BY DEF Sampled, LedgerTypeOK
<1>3. /\ n \in Nat /\ DOMAIN claims = 1..n /\ DOMAIN claims' = 1..(n + 1)
      /\ \A c \in 1..n : claims'[c] = kept[c]
      /\ claims'[n + 1] = new
  BY <1>1, GrantedRows DEF ClaimInv
<1>4. ASSUME NEW c \in 1..n
      PROVE  /\ kept[c].task = claims[c].task /\ kept[c].acquired = claims[c].acquired
             /\ kept[c].heartbeat = claims[c].heartbeat
             /\ kept[c].reason = IF c \in Unreleased(t) THEN "expired" ELSE claims[c].reason
             /\ kept[c].ended = IF c \in Unreleased(t) THEN now ELSE claims[c].ended
  <2>1. claims \in Seq(ClaimRecord) /\ "expired" \in ReleaseReasons
    BY DEF LedgerTypeOK, ReleaseReasons
  <2> QED BY <1>3, <2>1, EndedRows
<1>5. /\ new.task = t /\ new.acquired = now /\ new.heartbeat = now /\ new.reason = None
  OBVIOUS
<1> HIDE DEF kept, new
<1>6. \A c \in 1..n : claims[c].acquired \in Nat /\ claims[c].heartbeat \in Nat
  BY <1>3, Rows DEF ClaimRecord, Times
<1>7. "expired" # None
  BY LedgerAssumption DEF ReleaseReasons
<1>8. ASSUME NEW c \in 1..n
      PROVE  /\ kept[c].acquired <= kept[c].heartbeat /\ kept[c].acquired <= clock
             /\ kept[c].reason # None => kept[c].ended \in kept[c].acquired..clock
             /\ kept[c].task = t =>
                  kept[c].reason # None /\ kept[c].ended <= now + MaxLag
  <2>1. /\ claims[c].acquired <= claims[c].heartbeat /\ claims[c].acquired <= clock
        /\ claims[c].reason # None => claims[c].ended \in claims[c].acquired..clock
    BY <1>3 DEF TurnInv, ClaimsTakeTurns
  <2>2. MaxLag \in Nat
    BY LedgerAssumption
  <2>3. CASE c \in Unreleased(t)
    BY <2>1, <2>2, <2>3, <1>1, <1>2, <1>4, <1>6, <1>7
  <2>4. CASE c \notin Unreleased(t)
    <3>1. claims[c].task = t => claims[c].reason # None
      BY <2>4, <1>3 DEF Unreleased
    <3> QED BY <2>1, <2>2, <2>4, <3>1, <1>2, <1>4, <1>6
  <2> QED BY <2>3, <2>4
<1>9. ASSUME NEW c \in DOMAIN claims'
      PROVE  /\ claims'[c].acquired <= claims'[c].heartbeat /\ claims'[c].acquired <= clock'
             /\ claims'[c].reason # None => claims'[c].ended \in claims'[c].acquired..clock'
  <2>1. CASE c \in 1..n
    BY <2>1, <1>1, <1>3, <1>8
  <2>2. CASE c = n + 1
    BY <2>2, <1>1, <1>2, <1>3, <1>5
  <2> QED BY <2>1, <2>2, <1>3
<1>10. ASSUME NEW d \in DOMAIN claims', NEW c \in 1..(d - 1),
              claims'[c].task = claims'[d].task
       PROVE  claims'[c].reason # None /\ claims'[c].ended <= claims'[d].acquired + MaxLag
  <2>1. c \in 1..n
    BY <1>3
  <2>2. CASE d \in 1..n
    <3>1. claims[c].reason # None /\ claims[c].ended <= claims[d].acquired + MaxLag
      BY <1>10, <2>1, <2>2, <1>3, <1>4 DEF TurnInv, ClaimsTakeTurns
    <3>2. c \notin Unreleased(t)
      BY <3>1 DEF Unreleased
    <3> QED BY <2>1, <2>2, <3>1, <3>2, <1>3, <1>4
  <2>3. CASE d = n + 1
    BY <1>10, <2>1, <2>3, <1>3, <1>5, <1>8
  <2> QED BY <2>2, <2>3, <1>3
<1> QED BY <1>9, <1>10 DEF TurnInv, ClaimsTakeTurns

\* Time only passes by a tick.
LEMMA ClockSteps ==
  [LedgerNext]_ledgerVars => clock' = clock \/ clock' = clock + 1
<1> SUFFICES ASSUME [LedgerNext]_ledgerVars, clock' # clock PROVE clock' = clock + 1
  OBVIOUS
<1>1. ASSUME NEW t \in Tasks, TaskOps(t) PROVE FALSE
  BY <1>1 DEF TaskOps, CreateTask, MoveTask, UpdateTask, Transition, Complete, Cancel,
              SoftDelete, CloseExecution, RestoreTask
<1>2. ASSUME NEW t \in Tasks, ClaimOps(t) PROVE FALSE
  <2>1. PICK p \in Principals, now \in Sampled, force \in BOOLEAN :
          \/ \E lease \in LeaseLengths, gate \in GateAnswers :
               AcquireClaim(t, p, now, lease, gate, force)
          \/ ReleaseClaim(t, p, now, force)
          \/ RefutePremise(t, p, now)
    BY <1>2 DEF ClaimOps
  <2> QED BY <2>1 DEF AcquireClaim, ReleaseClaim, RefutePremise
<1>3. ASSUME NEW t \in Tasks, WorkOps(t) PROVE FALSE
  BY <1>3 DEF WorkOps, StartAttempt, OpenWait, CloseWait, AddEvidence
<1>4. ASSUME NEW a \in DOMAIN attempts, NEW to \in AttemptStatuses, NEW now \in Stated,
             TransitionAttempt(a, to, now)
      PROVE  FALSE
  BY <1>4 DEF TransitionAttempt
<1> QED BY <1>1, <1>2, <1>3, <1>4 DEF LedgerNext, Tick, ledgerVars

\* Every step keeps the turns.
LEMMA TurnStep ==
  LedgerTypeOK /\ ClaimInv /\ TurnInv /\ [LedgerNext]_ledgerVars => TurnInv'
<1> SUFFICES ASSUME LedgerTypeOK, ClaimInv, TurnInv, [LedgerNext]_ledgerVars
             PROVE  TurnInv'
  OBVIOUS
<1>1. clock \in Nat /\ clock' \in Nat /\ clock <= clock'
  <2>1. clock \in Nat
    BY DEF LedgerTypeOK
  <2>2. clock' = clock \/ clock' = clock + 1
    BY ClockSteps
  <2> QED BY <2>1, <2>2
<1>2. claims \in Seq(ClaimRecord)
  BY DEF LedgerTypeOK
<1>3. \A c \in DOMAIN claims : claims[c].acquired \in Nat /\ claims[c].heartbeat \in Nat
  BY Rows DEF ClaimRecord, Times
<1>4. \A c \in DOMAIN claims : claims[c].acquired <= claims[c].heartbeat
  BY DEF TurnInv
<1>5. CASE claims' = claims
  BY <1>1, <1>4, <1>5, SameRowsKeepTurns
<1>6. CASE ClaimsEnd
  <2>1. PICK C \in SUBSET DOMAIN claims, reason \in ReleaseReasons, p \in Principals,
             now \in Sampled :
          /\ claims' = EndClaims(C, reason, p, now)
          /\ \A c \in C : claims[c].reason = None /\ now >= claims[c].acquired
    BY <1>6 DEF ClaimsEnd
  <2>2. DOMAIN claims' = DOMAIN claims
    BY <2>1, EndClaimsType DEF LedgerTypeOK
  <2>3. now \in Nat /\ now <= clock
    BY <1>1 DEF Sampled
  <2>4. ASSUME NEW c \in DOMAIN claims
        PROVE  /\ claims'[c].task = claims[c].task
               /\ claims'[c].acquired = claims[c].acquired
               /\ claims'[c].acquired <= claims'[c].heartbeat
               /\ \/ claims'[c].reason = claims[c].reason /\ claims'[c].ended = claims[c].ended
                  \/ claims[c].reason = None /\ claims'[c].ended \in claims[c].acquired..clock
    <3>1. /\ claims'[c].task = claims[c].task
          /\ claims'[c].acquired = claims[c].acquired
          /\ claims'[c].heartbeat = claims[c].heartbeat
          /\ claims'[c].reason = IF c \in C THEN reason ELSE claims[c].reason
          /\ claims'[c].ended = IF c \in C THEN now ELSE claims[c].ended
      BY <1>2, <2>1, EndedRows
    <3> QED BY <3>1, <2>1, <2>3, <1>1, <1>3, <1>4
  <2> QED BY <2>2, <2>4, <1>1, SameRowsKeepTurns
<1>7. CASE ClaimRenewed
  <2>1. PICK t \in Tasks, now \in Sampled, until \in Nat : \E c \in LiveClaims(t, now) :
          now >= claims[c].heartbeat /\ claims' = Renewed(c, now, until)
    BY <1>7 DEF ClaimRenewed
  <2>2. PICK r \in LiveClaims(t, now) :
          now >= claims[r].heartbeat /\ claims' = Renewed(r, now, until)
    BY <2>1
  <2>3. r \in DOMAIN claims /\ now \in Nat
    BY <1>1 DEF LiveClaims, Unreleased, Sampled
  <2>4. /\ DOMAIN claims' = DOMAIN claims
        /\ \A c \in DOMAIN claims :
             /\ claims'[c].task = claims[c].task
             /\ claims'[c].reason = claims[c].reason
             /\ claims'[c].acquired = claims[c].acquired /\ claims'[c].ended = claims[c].ended
             /\ c # r => claims'[c] = claims[c]
        /\ claims'[r].heartbeat = now
    BY <2>2, <2>3, RenewedRows
  <2>5. \A c \in DOMAIN claims : claims'[c].acquired <= claims'[c].heartbeat
    BY <2>2, <2>3, <2>4, <1>3, <1>4
  <2> QED BY <2>4, <2>5, <1>1, SameRowsKeepTurns
<1>8. CASE ClaimGranted
  BY <1>8, GrantKeepsTurns
<1> QED BY <1>5, <1>6, <1>7, <1>8, ClaimSteps

\* The claims of a task take turns: each ended before its successor began, but for the
\* lag of the clock samples that decided, and none ended before it began, however
\* many tasks, agents and samples there are.
THEOREM ClaimsFollowEachOther == LedgerSpec => []ClaimsTakeTurns
<1>1. LedgerInit => TurnInv
  <2>1. LedgerInit => DOMAIN claims = {}
    BY EmptySeq, LenProperties DEF LedgerInit
  <2> QED BY <2>1 DEF TurnInv, ClaimsTakeTurns
<1>2. TurnInv => ClaimsTakeTurns
  BY DEF TurnInv
<1> QED BY <1>1, <1>2, TurnStep, LedgerInvariant, PTL DEF LedgerSpec

-----------------------------------------------------------------------------
(* A commitment that is closed, deleted or missing is quiet. *)

\* The statuses a bumped task table holds.
LEMMA BumpStatus ==
  ASSUME LedgerTypeOK, NEW t \in Tasks, NEW u \in Tasks
  PROVE  /\ Bump(t)[u].status = task[u].status
         /\ \A s : [Bump(t) EXCEPT ![t].status = s][u].status = IF u = t THEN s ELSE task[u].status
         /\ \A m : [Bump(t) EXCEPT ![t].mode = m][u].status = task[u].status
<1> DEFINE bumped == [task[t] EXCEPT !.rev = @ + 1]
<1>1. task[t] \in TaskRecord /\ task \in [Tasks -> TaskRecord]
  BY DEF LedgerTypeOK
<1>2. /\ bumped.status = task[t].status
      /\ \A s : [bumped EXCEPT !.status = s].status = s
      /\ \A m : [bumped EXCEPT !.mode = m].status = task[t].status
  BY <1>1 DEF TaskRecord
<1>3. Bump(t) = [task EXCEPT ![t] = bumped]
  BY DEF Bump
<1> HIDE DEF bumped
<1>4. Bump(t)[t] = bumped /\ DOMAIN Bump(t) = Tasks /\ (u # t => Bump(t)[u] = task[u])
  BY <1>1, <1>3
<1>5. ASSUME NEW s
      PROVE  [Bump(t) EXCEPT ![t].status = s][u].status = IF u = t THEN s ELSE task[u].status
  <2>1. [Bump(t) EXCEPT ![t].status = s] = [Bump(t) EXCEPT ![t] = [bumped EXCEPT !.status = s]]
    BY <1>4
  <2> QED BY <1>2, <1>4, <2>1
<1>6. ASSUME NEW m
      PROVE  [Bump(t) EXCEPT ![t].mode = m][u].status = task[u].status
  <2>1. [Bump(t) EXCEPT ![t].mode = m] = [Bump(t) EXCEPT ![t] = [bumped EXCEPT !.mode = m]]
    BY <1>4
  <2> QED BY <1>2, <1>4, <2>1
<1> QED BY <1>2, <1>4, <1>5, <1>6

\* Ending every unreleased claim of a task leaves none; ending claims opens none.
LEMMA EndAllOfTask ==
  ASSUME claims \in Seq(ClaimRecord), clock \in Nat, NEW C, NEW reason \in ReleaseReasons,
         NEW p \in Principals, NEW now \in Sampled, claims' = EndClaims(C, reason, p, now),
         NEW u \in Tasks
  PROVE  /\ Unreleased(u)' \subseteq Unreleased(u)
         /\ Unreleased(u) \subseteq C => Unreleased(u)' = {}
<1>1. DOMAIN claims' = DOMAIN claims
  BY EndClaimsType
<1>2. \A c \in DOMAIN claims :
        /\ claims'[c].task = claims[c].task
        /\ claims'[c].reason = IF c \in C THEN reason ELSE claims[c].reason
  BY EndedRows
<1>3. reason # None
  BY LedgerAssumption
<1> QED BY <1>1, <1>2, <1>3 DEF Unreleased

\* Nothing is claimed, running or waited for on u.
Quiet(u) == Unreleased(u) = {} /\ ActiveAttempts(u) = {} /\ waits[u] = {}

\* Whoever may work on a task still may, and what was running on it still runs.
LEMMA QuietCarriesOver ==
  ASSUME NEW u \in Tasks, ClosedIsQuiet, UNCHANGED <<claims, attempts, waits>>,
         Workable(u) => Workable(u)'
  PROVE  ~Workable(u)' => Quiet(u)'
BY DEF ClosedIsQuiet, Quiet, Unreleased, ActiveAttempts

\* Cancelling attempts ends those of the set and starts none.
LEMMA StoppedRows ==
  ASSUME LedgerTypeOK, NEW A, NEW now, attempts' = Stopped(A, now), NEW u \in Tasks
  PROVE  /\ ActiveAttempts(u)' \subseteq ActiveAttempts(u)
         /\ ActiveAttempts(u) \subseteq A => ActiveAttempts(u)' = {}
<1> DEFINE cancelled(a) == [attempts[a] EXCEPT !.status = "cancelled", !.updated = now,
                                               !.rev = @ + 1]
<1>1. /\ DOMAIN attempts' = DOMAIN attempts
      /\ \A a \in DOMAIN attempts : attempts'[a] = IF a \in A THEN cancelled(a) ELSE attempts[a]
  BY DEF Stopped
<1>2. \A a \in DOMAIN attempts :
        cancelled(a).task = attempts[a].task /\ cancelled(a).status = "cancelled"
  BY Rows DEF AttemptRecord
<1> HIDE DEF cancelled
<1> QED BY <1>1, <1>2 DEF ActiveAttempts, ActiveAttempt

\* Whichever operation runs, a task it closes or deletes is quiet afterwards and
\* one that was closed stays so.
LEMMA QuietStep ==
  LedgerTypeOK /\ ClaimInv /\ ClosedIsQuiet /\ [LedgerNext]_ledgerVars => ClosedIsQuiet'
<1> SUFFICES ASSUME LedgerTypeOK, ClaimInv, ClosedIsQuiet, [LedgerNext]_ledgerVars,
                    NEW u \in Tasks
             PROVE  ~Workable(u)' => Quiet(u)'
  BY DEF ClosedIsQuiet, Quiet
<1>1. CASE UNCHANGED ledgerVars
  BY <1>1, QuietCarriesOver DEF ledgerVars, execVars, treeVars, Workable
<1>2. CASE Tick
  BY <1>2, QuietCarriesOver DEF Tick, execVars, treeVars, Workable
<1>3. ASSUME NEW t \in Tasks, TaskOps(t) PROVE ~Workable(u)' => Quiet(u)'
  <2>1. ASSUME NEW p \in Tasks \cup {NoTask}, NEW mode \in Modes, CreateTask(t, p, mode)
        PROVE  ~Workable(u)' => Quiet(u)'
    <3>1. Workable(u) => Workable(u)'
      BY <2>1 DEF CreateTask, CreateRow, Workable, LedgerTypeOK, TreeTypeOK, Closed
    <3> QED BY <2>1, <3>1, QuietCarriesOver DEF CreateTask, execVars
  <2>2. ASSUME NEW p \in Tasks \cup {NoTask}, MoveTask(t, p)
        PROVE  ~Workable(u)' => Quiet(u)'
    <3>1. Workable(u) => Workable(u)'
      BY <2>2, BumpStatus DEF MoveTask, Reparent, Workable
    <3> QED BY <2>2, <3>1, QuietCarriesOver DEF MoveTask, execVars
  <2>3. ASSUME NEW mode \in Modes, UpdateTask(t, mode)
        PROVE  ~Workable(u)' => Quiet(u)'
    <3>1. Workable(u) => Workable(u)'
      BY <2>3, BumpStatus DEF UpdateTask, Workable, treeVars
    <3> QED BY <2>3, <3>1, QuietCarriesOver DEF UpdateTask, execVars
  <2>4. ASSUME NEW to \in Statuses, Transition(t, to)
        PROVE  ~Workable(u)' => Quiet(u)'
    <3>1. Workable(u) => Workable(u)'
      BY <2>4, BumpStatus DEF Transition, Workable, treeVars
    <3> QED BY <2>4, <3>1, QuietCarriesOver DEF Transition, execVars
  <2>5. ASSUME NEW p \in Principals, NEW now \in Sampled, NEW force \in BOOLEAN,
               NEW to \in Closed, MayClose(t, p, now, force), CloseExecution(t, to, p, now)
        PROVE  ~Workable(u)' => Quiet(u)'
    <3>1. PICK reason \in ReleaseReasons : claims' = EndClaims(Unreleased(t), reason, p, now)
      BY <2>5 DEF CloseExecution, ReleaseReasons
    <3>2. CASE u = t
      <4>1. Unreleased(u)' = {}
        BY <3>1, <3>2, EndAllOfTask DEF LedgerTypeOK
      <4>2. ActiveAttempts(u)' = {}
        BY <2>5, <3>2 DEF MayClose, CloseExecution, ActiveAttempts
      <4>3. waits'[u] = {}
        BY <2>5, <3>2 DEF CloseExecution, LedgerTypeOK
      <4> QED BY <4>1, <4>2, <4>3 DEF Quiet
    <3>3. CASE u # t
      <4>1. Unreleased(u)' \subseteq Unreleased(u)
        BY <3>1, EndAllOfTask DEF LedgerTypeOK
      <4>2. ActiveAttempts(u)' = ActiveAttempts(u) /\ waits'[u] = waits[u]
        BY <2>5, <3>3 DEF CloseExecution, ActiveAttempts, LedgerTypeOK
      <4>3. Workable(u) => Workable(u)'
        BY <2>5, <3>3, BumpStatus DEF CloseExecution, Workable, treeVars
      <4> QED BY <4>1, <4>2, <4>3 DEF Quiet, ClosedIsQuiet
    <3> QED BY <3>2, <3>3
  <2>6. ASSUME NEW p \in Principals, NEW now \in Sampled, NEW force \in BOOLEAN,
               SoftDelete(t, force, p, now)
        PROVE  ~Workable(u)' => Quiet(u)'
    <3> DEFINE doomed == Doomed(t)
               theirs == UNION {Unreleased(v) : v \in doomed}
    <3>1. claims' = EndClaims(theirs, "task_deleted", p, now) /\ "task_deleted" \in ReleaseReasons
      BY <2>6 DEF SoftDelete, ReleaseReasons
    <3> DEFINE stopped == UNION {ActiveAttempts(v) : v \in doomed}
    <3>4. attempts' = Stopped(stopped, now)
      BY <2>6 DEF SoftDelete
    <3>5. ActiveAttempts(u) \subseteq stopped \/ u \notin doomed
      OBVIOUS
    <3> HIDE DEF stopped
    <3>7. /\ ActiveAttempts(u)' \subseteq ActiveAttempts(u)
          /\ u \in doomed => ActiveAttempts(u)' = {}
      BY <3>4, <3>5, StoppedRows
    <3>2. CASE u \in doomed
      <4>1. Unreleased(u)' = {}
        <5>1. Unreleased(u) \subseteq theirs
          BY <3>2
        <5> HIDE DEF theirs
        <5> QED BY <3>1, <5>1, EndAllOfTask DEF LedgerTypeOK
      <4>2. ActiveAttempts(u)' = {}
        BY <3>2, <3>7
      <4>3. waits'[u] = {}
        BY <2>6, <3>2 DEF SoftDelete
      <4> QED BY <4>1, <4>2, <4>3 DEF Quiet
    <3>3. CASE u \notin doomed
      <4>1. Unreleased(u)' \subseteq Unreleased(u)
        BY <3>1, EndAllOfTask DEF LedgerTypeOK
      <4>2. ActiveAttempts(u)' \subseteq ActiveAttempts(u) /\ waits'[u] = waits[u]
        BY <2>6, <3>3, <3>7 DEF SoftDelete, LedgerTypeOK
      <4>3. Workable(u) => Workable(u)'
        BY <2>6, <3>3 DEF SoftDelete, Doomed, DeleteRow, Workable
      <4> QED BY <4>1, <4>2, <4>3 DEF Quiet, ClosedIsQuiet
    <3> QED BY <3>2, <3>3
  <2>7. CASE RestoreTask(t)
    <3>1. Workable(u) => Workable(u)'
      BY <2>7, BumpStatus DEF RestoreTask, RestoreRow, Workable, LedgerTypeOK, TreeTypeOK
    <3> QED BY <2>7, <3>1, QuietCarriesOver DEF RestoreTask, execVars
  <2> QED BY <1>3, <2>1, <2>2, <2>3, <2>4, <2>5, <2>6, <2>7
          DEF TaskOps, Complete, Cancel, Closed
<1>4. ASSUME NEW t \in Tasks, ClaimOps(t) PROVE ~Workable(u)' => Quiet(u)'
  <2>1. PICK p \in Principals, now \in Sampled, force \in BOOLEAN :
          \/ \E lease \in LeaseLengths, gate \in GateAnswers :
               AcquireClaim(t, p, now, lease, gate, force)
          \/ ReleaseClaim(t, p, now, force)
          \/ RefutePremise(t, p, now)
    BY <1>4 DEF ClaimOps
  <2>2. /\ Workable(u) <=> Workable(u)'
        /\ waits'[u] = waits[u]
        /\ ActiveAttempts(u)' = ActiveAttempts(u) \/ RefutePremise(t, p, now)
    BY <2>1 DEF AcquireClaim, ReleaseClaim, RefutePremise, Workable, treeVars, ActiveAttempts
  <2>3. CASE ReleaseClaim(t, p, now, force)
    <3>1. PICK c \in DOMAIN claims, reason \in ReleaseReasons :
            claims' = [claims EXCEPT ![c] = Ended(c, reason, p, now)]
      BY <2>3 DEF ReleaseClaim, Unreleased, ReleaseReasons
    <3>2. claims' = EndClaims({c}, reason, p, now)
      BY <3>1, Rows DEF EndClaims
    <3>3. Unreleased(u)' \subseteq Unreleased(u)
      BY <3>2, EndAllOfTask DEF LedgerTypeOK
    <3>4. ActiveAttempts(u)' = ActiveAttempts(u)
      BY <2>3 DEF ReleaseClaim, ActiveAttempts
    <3> QED BY <2>2, <3>3, <3>4 DEF Quiet, ClosedIsQuiet
  <2>4. CASE Workable(u)
    BY <2>2, <2>4
  <2>5. ASSUME NEW lease \in LeaseLengths, NEW gate \in GateAnswers, ~Workable(u),
               AcquireClaim(t, p, now, lease, gate, force)
        PROVE  Unreleased(u)' \subseteq Unreleased(u)
    <3>1. u # t
      BY <2>5 DEF AcquireClaim
    <3>2. ASSUME NEW r \in LiveClaims(t, now), claims' = Renewed(r, now, now + lease)
          PROVE  Unreleased(u)' \subseteq Unreleased(u)
      <4>1. r \in DOMAIN claims
        BY DEF LiveClaims, Unreleased
      <4> QED BY <3>2, <4>1, RenewedRows DEF Unreleased
    <3>3. ASSUME claims' = Append(EndClaims(Unreleased(t), "expired", p, now),
                   [task |-> t, holder |-> p, fence |-> NextFence(t), acquired |-> now,
                    heartbeat |-> now, expires |-> now + lease, reason |-> None,
                    endedBy |-> None, ended |-> None, rev |-> 1])
          PROVE  Unreleased(u)' \subseteq Unreleased(u)
      <4> DEFINE kept == EndClaims(Unreleased(t), "expired", p, now)
                 n == Len(claims)
      <4>1. now + lease \in Nat /\ "expired" \in ReleaseReasons
        BY LedgerAssumption DEF Sampled, ReleaseReasons
      <4>2. /\ DOMAIN claims' = 1..(n + 1) /\ DOMAIN claims = 1..n /\ n \in Nat
            /\ \A c \in 1..n : claims'[c] = kept[c]
            /\ claims'[n + 1].task = t
        BY <3>3, <4>1, GrantedRows DEF ClaimInv
      <4>3. \A c \in 1..n : /\ kept[c].task = claims[c].task
                            /\ kept[c].reason = None => claims[c].reason = None
        <5> SUFFICES ASSUME NEW c \in 1..n
                     PROVE  /\ kept[c].task = claims[c].task
                            /\ kept[c].reason = None => claims[c].reason = None
          OBVIOUS
        <5>1. claims \in Seq(ClaimRecord) /\ c \in DOMAIN claims
          BY <4>2 DEF LedgerTypeOK
        <5> QED BY <4>1, <5>1, EndedRows, LedgerAssumption
      <4> HIDE DEF kept
      <4>4. ASSUME NEW c \in Unreleased(u)' PROVE c \in Unreleased(u)
        <5>1. c \in 1..(n + 1) /\ claims'[c].task = u /\ claims'[c].reason = None
          BY <4>2 DEF Unreleased
        <5>2. c \in 1..n
          BY <3>1, <4>2, <5>1
        <5> QED BY <4>2, <4>3, <5>1, <5>2 DEF Unreleased
      <4> QED BY <4>4
    <3> QED BY <2>5, <3>2, <3>3 DEF AcquireClaim
  <2>6. CASE RefutePremise(t, p, now)
    <3>1. Unreleased(u)' \subseteq Unreleased(u)
      BY <2>6, EndAllOfTask DEF RefutePremise, LedgerTypeOK, ReleaseReasons
    <3>2. ActiveAttempts(u)' \subseteq ActiveAttempts(u)
      BY <2>6, StoppedRows DEF RefutePremise
    <3> QED BY <2>2, <3>1, <3>2 DEF Quiet, ClosedIsQuiet
  <2> QED BY <2>1, <2>2, <2>3, <2>4, <2>5, <2>6 DEF Quiet, ClosedIsQuiet
<1>5. ASSUME NEW t \in Tasks, WorkOps(t) PROVE ~Workable(u)' => Quiet(u)'
  <2>1. /\ Workable(u) <=> Workable(u)'
        /\ Unreleased(u)' = Unreleased(u)
    BY <1>5 DEF WorkOps, StartAttempt, OpenWait, CloseWait, AddEvidence, Workable,
                treeVars, Unreleased
  <2>2. ASSUME NEW now \in Stated, NEW p \in Principals,
               NEW named \in DOMAIN claims \cup {None}, StartAttempt(t, p, now, named)
        PROVE  Workable(u) \/ (ActiveAttempts(u)' = ActiveAttempts(u) /\ waits'[u] = waits[u])
    <3>1. PICK bound \in DOMAIN claims \cup {None} :
            attempts' = Append(attempts,
              [task |-> t, claim |-> bound, by |-> p, status |-> "running",
               started |-> now, updated |-> now, rev |-> 1])
      BY <2>2 DEF StartAttempt
    <3>2. CASE u = t
      BY <2>2, <3>2 DEF StartAttempt
    <3>3. CASE u # t
      <4>1. [task |-> t, claim |-> bound, by |-> p, status |-> "running",
             started |-> now, updated |-> now, rev |-> 1] \in AttemptRecord
        <5>1. now \in Nat
          BY LedgerAssumption DEF Stated, Sampled, LedgerTypeOK
        <5> QED BY <5>1, Rows DEF AttemptRecord, AttemptStatuses, Times
      <4>2. /\ DOMAIN attempts' = 1..(Len(attempts) + 1)
            /\ \A a \in 1..Len(attempts) : attempts'[a] = attempts[a]
            /\ attempts'[Len(attempts) + 1].task = t
        BY <3>1, <4>1, AppendProperties, LenProperties DEF LedgerTypeOK
      <4>3. ActiveAttempts(u)' = ActiveAttempts(u)
        BY <3>3, <4>2, Rows DEF ActiveAttempts
      <4> QED BY <2>2, <4>3 DEF StartAttempt
    <3> QED BY <3>2, <3>3
  <2>3. ASSUME NEW now \in Sampled, OpenWait(t, now)
        PROVE  Workable(u) \/ (ActiveAttempts(u)' = ActiveAttempts(u) /\ waits'[u] = waits[u])
    BY <2>3 DEF OpenWait, ActiveAttempts, LedgerTypeOK
  <2>4. ASSUME NEW now \in Sampled, NEW w \in waits[t], CloseWait(t, w, now)
        PROVE  ActiveAttempts(u)' = ActiveAttempts(u) /\ waits'[u] \subseteq waits[u]
    BY <2>4 DEF CloseWait, ActiveAttempts, LedgerTypeOK
  <2>5. ASSUME NEW supersedes \in DOMAIN evidence \cup {None}, AddEvidence(t, supersedes)
        PROVE  ActiveAttempts(u)' = ActiveAttempts(u) /\ waits'[u] = waits[u]
    BY <2>5 DEF AddEvidence, ActiveAttempts
  <2> QED BY <1>5, <2>1, <2>2, <2>3, <2>4, <2>5 DEF WorkOps, Quiet, ClosedIsQuiet
<1>6. ASSUME NEW a \in DOMAIN attempts, NEW to \in AttemptStatuses, NEW now \in Stated,
             TransitionAttempt(a, to, now)
      PROVE  ~Workable(u)' => Quiet(u)'
  <2>1. /\ Workable(u) <=> Workable(u)'
        /\ Unreleased(u)' = Unreleased(u) /\ waits'[u] = waits[u]
    BY <1>6 DEF TransitionAttempt, Workable, treeVars, Unreleased
  <2>2. /\ DOMAIN attempts' = DOMAIN attempts
        /\ \A b \in DOMAIN attempts : b # a => attempts'[b] = attempts[b]
        /\ attempts'[a].task = attempts[a].task
    BY <1>6, Rows DEF TransitionAttempt, AttemptRecord
  <2>3. ActiveAttempts(u)' \subseteq ActiveAttempts(u)
    BY <1>6, <2>2 DEF TransitionAttempt, ActiveAttempts
  <2> QED BY <2>1, <2>3 DEF Quiet, ClosedIsQuiet
<1> QED BY <1>1, <1>2, <1>3, <1>4, <1>5, <1>6 DEF LedgerNext

\* A commitment that is closed, deleted or missing has no unreleased claim, no
\* active attempt and no waiting condition, whatever the agents do in whatever
\* order.
THEOREM ClosedTasksAreQuiet == LedgerSpec => []ClosedIsQuiet
<1>1. LedgerInit => ClosedIsQuiet
  <2> SUFFICES ASSUME LedgerInit PROVE ClosedIsQuiet
    OBVIOUS
  <2>1. DOMAIN claims = {} /\ DOMAIN attempts = {}
    BY EmptySeq, LenProperties DEF LedgerInit
  <2> QED BY <2>1 DEF LedgerInit, ClosedIsQuiet, Unreleased, ActiveAttempts
<1>2. LedgerTypeOK /\ ClaimInv /\ ClosedIsQuiet /\ [LedgerNext]_ledgerVars => ClosedIsQuiet'
  BY QuietStep
<1> QED BY <1>1, <1>2, LedgerInvariant, PTL DEF LedgerSpec

-----------------------------------------------------------------------------
(* History is append-only. *)

\* A step leaves what is history: released claims, terminal attempts, and the
\* records that are history from the start.
ClaimHistory == \A c \in DOMAIN claims : claims[c].reason # None => claims'[c] = claims[c]

AttemptHistory ==
  \A a \in DOMAIN attempts : attempts[a].status \notin ActiveAttempt => attempts'[a] = attempts[a]

RecordHistory ==
  /\ \A e \in DOMAIN evidence : evidence'[e] = evidence[e]
  /\ \A k \in DOMAIN completions : completions'[k] = completions[k]

\* No way of changing the claim table touches a released row.
LEMMA ClaimHistoryStep ==
  LedgerTypeOK /\ ClaimInv /\ [LedgerNext]_ledgerVars => ClaimHistory
<1> SUFFICES ASSUME LedgerTypeOK, ClaimInv, [LedgerNext]_ledgerVars,
                    NEW c \in DOMAIN claims, claims[c].reason # None
             PROVE  claims'[c] = claims[c]
  BY DEF ClaimHistory
<1>1. CASE ClaimsEnd
  <2>1. PICK C \in SUBSET DOMAIN claims, reason \in ReleaseReasons, p \in Principals,
             now \in Sampled :
          /\ claims' = EndClaims(C, reason, p, now)
          /\ \A d \in C : claims[d].reason = None
    BY <1>1 DEF ClaimsEnd
  <2> QED BY <2>1 DEF EndClaims
<1>2. CASE ClaimRenewed
  <2>1. PICK t \in Tasks, now \in Sampled, until \in Nat : \E r \in LiveClaims(t, now) :
          claims' = Renewed(r, now, until)
    BY <1>2 DEF ClaimRenewed
  <2>2. PICK r \in LiveClaims(t, now) : claims' = Renewed(r, now, until)
    BY <2>1
  <2>3. r \in DOMAIN claims /\ claims[r].reason = None
    BY DEF LiveClaims, Unreleased
  <2> QED BY <2>2, <2>3, RenewedRows
<1>3. CASE ClaimGranted
  <2>1. PICK t \in Tasks, p \in Principals, now \in Sampled, until \in Nat :
          claims' = Append(EndClaims(Unreleased(t), "expired", p, now),
            [task |-> t, holder |-> p, fence |-> NextFence(t), acquired |-> now,
             heartbeat |-> now, expires |-> until, reason |-> None,
             endedBy |-> None, ended |-> None, rev |-> 1])
    BY <1>3 DEF ClaimGranted
  <2>2. claims'[c] = EndClaims(Unreleased(t), "expired", p, now)[c]
    BY <2>1, GrantedRows DEF ClaimInv
  <2>3. c \notin Unreleased(t)
    BY DEF Unreleased
  <2> QED BY <2>2, <2>3 DEF EndClaims
<1> QED BY <1>1, <1>2, <1>3, ClaimSteps

\* Appending a row leaves the others.
LEMMA AppendedRows ==
  ASSUME NEW S, NEW s \in Seq(S), NEW x
  PROVE  \A i \in DOMAIN s : Append(s, x)[i] = s[i]
BY LenProperties

\* Of the operations on a task only a deletion touches attempts.
LEMMA AttemptsOfTaskOps ==
  ASSUME NEW t \in Tasks, TaskOps(t)
  PROVE  UNCHANGED attempts \/ \E p \in Principals, now \in Sampled, force \in BOOLEAN :
           SoftDelete(t, force, p, now)
<1>1. CASE \E p \in Tasks \cup {NoTask}, mode \in Modes : CreateTask(t, p, mode)
  BY <1>1 DEF CreateTask, execVars
<1>2. CASE \E p \in Tasks \cup {NoTask} : MoveTask(t, p)
  BY <1>2 DEF MoveTask, execVars
<1>3. CASE \E mode \in Modes : UpdateTask(t, mode)
  BY <1>3 DEF UpdateTask, execVars
<1>4. CASE \E to \in Statuses : Transition(t, to)
  BY <1>4 DEF Transition, execVars
<1>5. ASSUME NEW p \in Principals, NEW now \in Sampled, NEW force \in BOOLEAN,
             \/ \E cites \in SUBSET DOMAIN evidence : Complete(t, p, now, force, cites)
             \/ Cancel(t, p, now, force)
      PROVE  UNCHANGED attempts
  BY <1>5 DEF Complete, Cancel, CloseExecution
<1>6. CASE \E p \in Principals, now \in Sampled, force \in BOOLEAN :
             \/ \E cites \in SUBSET DOMAIN evidence : Complete(t, p, now, force, cites)
             \/ Cancel(t, p, now, force)
             \/ SoftDelete(t, force, p, now)
  BY <1>5, <1>6
<1>7. CASE RestoreTask(t)
  BY <1>7 DEF RestoreTask, execVars
<1> QED BY <1>1, <1>2, <1>3, <1>4, <1>6, <1>7 DEF TaskOps

\* An operation on a claim leaves the tree alone, and attempts unless a premise falls.
LEMMA ClaimOpsWrite ==
  ASSUME NEW t \in Tasks, ClaimOps(t)
  PROVE  /\ UNCHANGED treeVars
         /\ UNCHANGED attempts \/ \E p \in Principals, now \in Sampled : RefutePremise(t, p, now)
<1>1. PICK p \in Principals, now \in Sampled, force \in BOOLEAN :
        \/ \E lease \in LeaseLengths, gate \in GateAnswers :
             AcquireClaim(t, p, now, lease, gate, force)
        \/ ReleaseClaim(t, p, now, force)
        \/ RefutePremise(t, p, now)
  BY DEF ClaimOps
<1>2. ASSUME NEW lease \in LeaseLengths, NEW gate \in GateAnswers,
             AcquireClaim(t, p, now, lease, gate, force)
      PROVE  UNCHANGED treeVars /\ UNCHANGED attempts
  BY <1>2 DEF AcquireClaim
<1>3. CASE ReleaseClaim(t, p, now, force)
  BY <1>3 DEF ReleaseClaim
<1>4. RefutePremise(t, p, now) => UNCHANGED treeVars
  BY DEF RefutePremise
<1> QED BY <1>1, <1>2, <1>3, <1>4

\* Only a transition, a deletion and a refuted premise write an attempt, and only an
\* active one.
LEMMA AttemptHistoryStep ==
  LedgerTypeOK /\ [LedgerNext]_ledgerVars => AttemptHistory
<1> SUFFICES ASSUME LedgerTypeOK, [LedgerNext]_ledgerVars,
                    NEW a \in DOMAIN attempts, attempts[a].status \notin ActiveAttempt
             PROVE  attempts'[a] = attempts[a]
  BY DEF AttemptHistory
<1>1. ASSUME NEW t \in Tasks, NEW p \in Principals, NEW now \in Sampled, NEW force \in BOOLEAN,
             SoftDelete(t, force, p, now)
      PROVE  attempts'[a] = attempts[a]
  <2> DEFINE theirs == UNION {ActiveAttempts(u) : u \in Doomed(t)}
  <2>1. a \notin theirs
    BY DEF ActiveAttempts
  <2>2. attempts' = Stopped(theirs, now)
    BY <1>1 DEF SoftDelete
  <2> HIDE DEF theirs
  <2> QED BY <2>1, <2>2 DEF Stopped
<1>2. ASSUME NEW t \in Tasks, NEW p \in Principals, NEW now \in Stated,
             NEW named \in DOMAIN claims \cup {None}, StartAttempt(t, p, now, named)
      PROVE  attempts'[a] = attempts[a]
  BY <1>2, AppendedRows DEF StartAttempt, LedgerTypeOK
<1>3. ASSUME NEW b \in DOMAIN attempts, NEW to \in AttemptStatuses, NEW now \in Stated,
             TransitionAttempt(b, to, now)
      PROVE  attempts'[a] = attempts[a]
  BY <1>3 DEF TransitionAttempt
<1>4. CASE UNCHANGED ledgerVars \/ Tick
  BY <1>4 DEF ledgerVars, execVars, Tick
<1>5. ASSUME NEW t \in Tasks, TaskOps(t)
      PROVE  attempts'[a] = attempts[a]
  <2>1. UNCHANGED attempts \/ \E p \in Principals, now \in Sampled, force \in BOOLEAN :
          SoftDelete(t, force, p, now)
    BY <1>5, AttemptsOfTaskOps
  <2> QED BY <1>1, <2>1
<1>6. ASSUME NEW t \in Tasks, ClaimOps(t)
      PROVE  attempts'[a] = attempts[a]
  <2>1. UNCHANGED attempts \/ \E p \in Principals, now \in Sampled : RefutePremise(t, p, now)
    BY <1>6, ClaimOpsWrite
  <2>2. a \notin ActiveAttempts(t)
    BY DEF ActiveAttempts
  <2> QED BY <2>1, <2>2 DEF RefutePremise, Stopped
<1>7. ASSUME NEW t \in Tasks, WorkOps(t)
      PROVE  attempts'[a] = attempts[a]
  <2>1. UNCHANGED attempts \/ \E p \in Principals, now \in Stated,
          named \in DOMAIN claims \cup {None} : StartAttempt(t, p, now, named)
    BY <1>7 DEF WorkOps, OpenWait, CloseWait, AddEvidence
  <2> QED BY <1>2, <2>1
<1> QED BY <1>3, <1>4, <1>5, <1>6, <1>7 DEF LedgerNext

\* Evidence and completion records are only ever appended.
LEMMA RecordSteps ==
  [LedgerNext]_ledgerVars =>
    /\ evidence' = evidence \/ \E e : evidence' = Append(evidence, e)
    /\ completions' = completions \/ \E k : completions' = Append(completions, k)
<1> SUFFICES ASSUME [LedgerNext]_ledgerVars
             PROVE  /\ evidence' = evidence \/ \E e : evidence' = Append(evidence, e)
                    /\ completions' = completions \/ \E k : completions' = Append(completions, k)
  OBVIOUS
<1>1. CASE UNCHANGED ledgerVars
  BY <1>1 DEF ledgerVars, execVars
<1>2. CASE Tick
  BY <1>2 DEF Tick, execVars
<1>3. ASSUME NEW t \in Tasks, TaskOps(t)
      PROVE  /\ evidence' = evidence
             /\ completions' = completions \/ \E k : completions' = Append(completions, k)
  BY <1>3 DEF TaskOps, CreateTask, MoveTask, UpdateTask, Transition, Complete, Cancel,
              SoftDelete, CloseExecution, RestoreTask, execVars
<1>4. ASSUME NEW t \in Tasks, ClaimOps(t)
      PROVE  UNCHANGED <<evidence, completions>>
  <2>1. PICK p \in Principals, now \in Sampled, force \in BOOLEAN :
          \/ \E lease \in LeaseLengths, gate \in GateAnswers :
               AcquireClaim(t, p, now, lease, gate, force)
          \/ ReleaseClaim(t, p, now, force)
          \/ RefutePremise(t, p, now)
    BY <1>4 DEF ClaimOps
  <2> QED BY <2>1 DEF AcquireClaim, ReleaseClaim, RefutePremise
<1>5. ASSUME NEW t \in Tasks, WorkOps(t)
      PROVE  /\ evidence' = evidence \/ \E e : evidence' = Append(evidence, e)
             /\ completions' = completions
  BY <1>5 DEF WorkOps, StartAttempt, OpenWait, CloseWait, AddEvidence
<1>6. ASSUME NEW a \in DOMAIN attempts, NEW to \in AttemptStatuses, NEW now \in Stated,
             TransitionAttempt(a, to, now)
      PROVE  UNCHANGED <<evidence, completions>>
  BY <1>6 DEF TransitionAttempt
<1> QED BY <1>1, <1>2, <1>3, <1>4, <1>5, <1>6 DEF LedgerNext

\* So the rows there are stay as they are.
LEMMA RecordHistoryStep ==
  LedgerTypeOK /\ [LedgerNext]_ledgerVars => RecordHistory
<1>1. LedgerTypeOK => /\ \A e : \A i \in DOMAIN evidence : Append(evidence, e)[i] = evidence[i]
                      /\ \A k : \A i \in DOMAIN completions :
                           Append(completions, k)[i] = completions[i]
  BY AppendedRows DEF LedgerTypeOK
<1> QED BY <1>1, RecordSteps DEF RecordHistory

\* The triggers of 0007_agent_invariants.sql are never needed: no operation, in
\* any order, rewrites a released claim, a terminal attempt, evidence or a
\* completion record.
THEOREM HistoryIsNeverRewritten == LedgerSpec => HistoryIsImmutable
<1> DEFINE Kept ==
      /\ \A c \in DOMAIN claims : claims[c].reason # None => claims'[c] = claims[c]
      /\ \A a \in DOMAIN attempts :
           attempts[a].status \notin ActiveAttempt => attempts'[a] = attempts[a]
      /\ \A e \in DOMAIN evidence : evidence'[e] = evidence[e]
      /\ \A k \in DOMAIN completions : completions'[k] = completions[k]
<1>1. LedgerTypeOK /\ ClaimInv /\ [LedgerNext]_ledgerVars => [Kept]_ledgerVars
  BY ClaimHistoryStep, AttemptHistoryStep, RecordHistoryStep
     DEF ClaimHistory, AttemptHistory, RecordHistory
<1>2. HistoryIsImmutable <=> [][Kept]_ledgerVars
  BY DEF HistoryIsImmutable
<1> HIDE DEF Kept
<1> QED BY <1>1, <1>2, LedgerInvariant, PTL DEF LedgerSpec

-----------------------------------------------------------------------------
(* A revision names the content. *)

\* What a bumped row holds, alone or with another status or mode; other rows stay.
LEMMA BumpedRows ==
  ASSUME LedgerTypeOK, NEW t \in Tasks
  PROVE  /\ Bump(t)[t].rev = task[t].rev + 1
         /\ Bump(t)[t].mode = task[t].mode
         /\ \A s : /\ [Bump(t) EXCEPT ![t].status = s][t].rev = task[t].rev + 1
                   /\ [Bump(t) EXCEPT ![t].status = s][t].mode = task[t].mode
         /\ \A m : /\ [Bump(t) EXCEPT ![t].mode = m][t].rev = task[t].rev + 1
                   /\ [Bump(t) EXCEPT ![t].mode = m][t].mode = m
         /\ \A u \in Tasks \ {t} :
              /\ Bump(t)[u] = task[u]
              /\ \A s : [Bump(t) EXCEPT ![t].status = s][u] = task[u]
              /\ \A m : [Bump(t) EXCEPT ![t].mode = m][u] = task[u]
<1> DEFINE bumped == [task[t] EXCEPT !.rev = @ + 1]
<1>1. task[t] \in TaskRecord /\ task \in [Tasks -> TaskRecord]
  BY DEF LedgerTypeOK
<1>2. /\ bumped.rev = task[t].rev + 1 /\ bumped.mode = task[t].mode
      /\ \A s : /\ [bumped EXCEPT !.status = s].rev = task[t].rev + 1
                /\ [bumped EXCEPT !.status = s].mode = task[t].mode
      /\ \A m : /\ [bumped EXCEPT !.mode = m].rev = task[t].rev + 1
                /\ [bumped EXCEPT !.mode = m].mode = m
  BY <1>1 DEF TaskRecord
<1>3. Bump(t) = [task EXCEPT ![t] = bumped]
  BY DEF Bump
<1> HIDE DEF bumped
<1>4. Bump(t)[t] = bumped /\ DOMAIN Bump(t) = Tasks /\ \A u \in Tasks \ {t} : Bump(t)[u] = task[u]
  BY <1>1, <1>3
<1>5. \A s : [Bump(t) EXCEPT ![t].status = s] = [Bump(t) EXCEPT ![t] = [bumped EXCEPT !.status = s]]
  BY <1>4
<1>6. \A m : [Bump(t) EXCEPT ![t].mode = m] = [Bump(t) EXCEPT ![t] = [bumped EXCEPT !.mode = m]]
  BY <1>4
<1> QED BY <1>2, <1>4, <1>5, <1>6

\* The live subtree of a live row holds live rows only.
LEMMA DoomedAreLive ==
  ASSUME NEW t \in Tasks, row[t] = "live"
  PROVE  t \in Doomed(t) /\ Doomed(t) \subseteq Tasks /\ \A u \in Doomed(t) : row[u] = "live"
<1> DEFINE Live == {u \in Tasks : row[u] = "live"}
<1>1. t \in Live /\ ClosedDown(Live) /\ Live \in SUBSET Tasks
  BY DEF ClosedDown
<1> HIDE DEF Live
<1>2. Doomed(t) \subseteq Live
  BY <1>1 DEF Doomed, LiveSubtree
<1>3. t \in Doomed(t)
  BY DEF Doomed, LiveSubtree
<1> QED BY <1>2, <1>3 DEF Live

\* A row that was never created has no revision yet, so creation moves it by one.
AbsentIsNew == \A t \in Tasks : row[t] = "absent" => task[t].rev = 0

\* The row of u is left alone or its revision moves by one.
RowRevised(u) ==
  \/ task'[u].rev = task[u].rev + 1 /\ row'[u] # "absent"
  \/ task'[u] = task[u] /\ row'[u] = row[u] /\ parent'[u] = parent[u]

\* Every operation on commitments moves the revision of each row it writes by one.
LEMMA RowRevisedStep ==
  LedgerTypeOK /\ AbsentIsNew /\ [LedgerNext]_ledgerVars => \A u \in Tasks : RowRevised(u)
<1> SUFFICES ASSUME LedgerTypeOK, AbsentIsNew, [LedgerNext]_ledgerVars, NEW u \in Tasks
             PROVE  RowRevised(u)
  OBVIOUS
<1>1. CASE UNCHANGED ledgerVars \/ Tick
  BY <1>1 DEF ledgerVars, execVars, treeVars, Tick, RowRevised
<1>2. ASSUME NEW t \in Tasks, TaskOps(t) PROVE RowRevised(u)
  <2>1. ASSUME NEW p \in Tasks \cup {NoTask}, NEW mode \in Modes, CreateTask(t, p, mode)
        PROVE  RowRevised(u)
    <3>1. row[t] = "absent" /\ task[t].rev = 0 /\ row' = [row EXCEPT ![t] = "live"]
          /\ parent' = [parent EXCEPT ![t] = p]
      BY <2>1 DEF CreateTask, CreateRow, AbsentIsNew
    <3>2. task' = [task EXCEPT ![t] = [status |-> "open", mode |-> mode, rev |-> 1]]
      BY <2>1 DEF CreateTask
    <3> QED BY <3>1, <3>2 DEF RowRevised, LedgerTypeOK, TreeTypeOK
  <2>2. ASSUME NEW p \in Tasks \cup {NoTask}, MoveTask(t, p) PROVE RowRevised(u)
    BY <2>2, BumpedRows DEF MoveTask, Reparent, RowRevised, LedgerTypeOK, TreeTypeOK
  <2>3. ASSUME NEW mode \in Modes, UpdateTask(t, mode) PROVE RowRevised(u)
    BY <2>3, BumpedRows DEF UpdateTask, RowRevised, treeVars
  <2>4. ASSUME NEW to \in Statuses, Transition(t, to) PROVE RowRevised(u)
    BY <2>4, BumpedRows DEF Transition, RowRevised, treeVars
  <2>5. ASSUME NEW p \in Principals, NEW to, NEW now, row[t] = "live",
               CloseExecution(t, to, p, now)
        PROVE  RowRevised(u)
    BY <2>5, BumpedRows DEF CloseExecution, RowRevised, treeVars
  <2>6. ASSUME NEW p \in Principals, NEW now \in Sampled, NEW force \in BOOLEAN,
               SoftDelete(t, force, p, now)
        PROVE  RowRevised(u)
    <3>1. /\ row' = [v \in Tasks |-> IF v \in Doomed(t) THEN "deleted" ELSE row[v]]
          /\ parent' = parent
          /\ task' = [v \in Tasks |-> IF v \in Doomed(t) THEN [task[v] EXCEPT !.rev = @ + 1]
                                                         ELSE task[v]]
      BY <2>6 DEF SoftDelete, DeleteRow, Doomed
    <3>2. task[u] \in TaskRecord
      BY DEF LedgerTypeOK
    <3>3. CASE u \in Doomed(t)
      BY <3>1, <3>2, <3>3 DEF RowRevised, TaskRecord
    <3>4. CASE u \notin Doomed(t)
      BY <3>1, <3>4 DEF RowRevised
    <3> QED BY <3>3, <3>4
  <2>7. CASE RestoreTask(t)
    BY <2>7, BumpedRows DEF RestoreTask, RestoreRow, RowRevised, LedgerTypeOK, TreeTypeOK
  <2>8. ASSUME NEW p \in Principals, NEW now \in Sampled, NEW force \in BOOLEAN,
               \/ \E cites \in SUBSET DOMAIN evidence : Complete(t, p, now, force, cites)
               \/ Cancel(t, p, now, force)
        PROVE  RowRevised(u)
    BY <2>5, <2>8 DEF Complete, Cancel, MayClose
  <2>9. CASE \E p \in Principals, now \in Sampled, force \in BOOLEAN :
               \/ \E cites \in SUBSET DOMAIN evidence : Complete(t, p, now, force, cites)
               \/ Cancel(t, p, now, force)
               \/ SoftDelete(t, force, p, now)
    BY <2>6, <2>8, <2>9
  <2> QED BY <1>2, <2>1, <2>2, <2>3, <2>4, <2>7, <2>9 DEF TaskOps
<1>3. ASSUME NEW t \in Tasks, ClaimOps(t) PROVE UNCHANGED <<task, treeVars>>
  <2>1. PICK p \in Principals, now \in Sampled, force \in BOOLEAN :
          \/ \E lease \in LeaseLengths, gate \in GateAnswers :
               AcquireClaim(t, p, now, lease, gate, force)
          \/ ReleaseClaim(t, p, now, force)
          \/ RefutePremise(t, p, now)
    BY <1>3 DEF ClaimOps
  <2> QED BY <2>1 DEF AcquireClaim, ReleaseClaim, RefutePremise
<1>4. ASSUME NEW t \in Tasks, WorkOps(t) PROVE UNCHANGED <<task, treeVars>>
  BY <1>4 DEF WorkOps, StartAttempt, OpenWait, CloseWait, AddEvidence
<1>5. ASSUME NEW a \in DOMAIN attempts, NEW to \in AttemptStatuses, NEW now \in Stated,
             TransitionAttempt(a, to, now)
      PROVE  UNCHANGED <<task, treeVars>>
  BY <1>5 DEF TransitionAttempt
<1>6. UNCHANGED <<task, treeVars>> => RowRevised(u)
  BY DEF treeVars, RowRevised
<1> QED BY <1>1, <1>2, <1>3, <1>4, <1>5, <1>6 DEF LedgerNext

\* Creation is the only way out of absence, so the rows never created stay new.
LEMMA AbsentIsNewInvariant == LedgerSpec => []AbsentIsNew
<1>1. LedgerInit => AbsentIsNew
  BY DEF LedgerInit, AbsentIsNew
<1>2. LedgerTypeOK /\ AbsentIsNew /\ [LedgerNext]_ledgerVars => AbsentIsNew'
  BY RowRevisedStep DEF RowRevised, AbsentIsNew
<1> QED BY <1>1, <1>2, LedgerInvariant, PTL DEF LedgerSpec

\* A claim that an operation writes moves by one revision.
LEMMA ClaimRevisedStep ==
  LedgerTypeOK /\ ClaimInv /\ [LedgerNext]_ledgerVars =>
    \A c \in DOMAIN claims : claims'[c] # claims[c] => claims'[c].rev = claims[c].rev + 1
<1> SUFFICES ASSUME LedgerTypeOK, ClaimInv, [LedgerNext]_ledgerVars,
                    NEW c \in DOMAIN claims, claims'[c] # claims[c]
             PROVE  claims'[c].rev = claims[c].rev + 1
  OBVIOUS
<1>1. claims \in Seq(ClaimRecord) /\ claims[c] \in ClaimRecord
  BY Rows DEF LedgerTypeOK
<1>2. \A r, p, now : Ended(c, r, p, now).rev = claims[c].rev + 1
  BY <1>1 DEF Ended, ClaimRecord
<1>3. \A C, r, p, now :
        EndClaims(C, r, p, now)[c] = IF c \in C THEN Ended(c, r, p, now) ELSE claims[c]
  BY DEF EndClaims
<1>4. CASE ClaimsEnd
  BY <1>2, <1>3, <1>4 DEF ClaimsEnd
<1>5. CASE ClaimRenewed
  <2>1. PICK r \in DOMAIN claims : \E now, until : claims' = Renewed(r, now, until)
    BY <1>5 DEF ClaimRenewed, LiveClaims, Unreleased
  <2>2. PICK now, until : claims' = Renewed(r, now, until)
    BY <2>1
  <2> DEFINE renewed == [claims[r] EXCEPT !.heartbeat = now, !.expires = until, !.rev = @ + 1]
  <2>3. claims' = [claims EXCEPT ![r] = renewed]
    BY <2>2 DEF Renewed
  <2>4. renewed.rev = claims[r].rev + 1
    BY Rows DEF ClaimRecord
  <2> HIDE DEF renewed
  <2> QED BY <2>3, <2>4
<1>6. CASE ClaimGranted
  <2>1. PICK t \in Tasks, p \in Principals, now \in Sampled, until \in Nat :
          claims' = Append(EndClaims(Unreleased(t), "expired", p, now),
            [task |-> t, holder |-> p, fence |-> NextFence(t), acquired |-> now,
             heartbeat |-> now, expires |-> until, reason |-> None,
             endedBy |-> None, ended |-> None, rev |-> 1])
    BY <1>6 DEF ClaimGranted
  <2>2. claims'[c] = EndClaims(Unreleased(t), "expired", p, now)[c]
    BY <2>1, GrantedRows DEF ClaimInv
  <2> QED BY <1>2, <1>3, <2>2
<1> QED BY <1>4, <1>5, <1>6, ClaimSteps

\* An attempt that an operation writes moves by one revision.
LEMMA AttemptRevisedStep ==
  LedgerTypeOK /\ [LedgerNext]_ledgerVars =>
    \A a \in DOMAIN attempts : attempts'[a] # attempts[a] => attempts'[a].rev = attempts[a].rev + 1
<1> SUFFICES ASSUME LedgerTypeOK, [LedgerNext]_ledgerVars,
                    NEW a \in DOMAIN attempts, attempts'[a] # attempts[a]
             PROVE  attempts'[a].rev = attempts[a].rev + 1
  OBVIOUS
<1>1. attempts[a] \in AttemptRecord
  BY Rows
<1>2. ASSUME NEW A, NEW now, attempts' = Stopped(A, now)
      PROVE  attempts'[a].rev = attempts[a].rev + 1
  BY <1>1, <1>2 DEF Stopped, AttemptRecord
<1>3. CASE UNCHANGED ledgerVars \/ Tick
  BY <1>3 DEF ledgerVars, execVars, Tick
<1>4. ASSUME NEW t \in Tasks, TaskOps(t) PROVE attempts'[a].rev = attempts[a].rev + 1
  <2>1. UNCHANGED attempts \/ \E p \in Principals, now \in Sampled, force \in BOOLEAN :
          SoftDelete(t, force, p, now)
    BY <1>4, AttemptsOfTaskOps
  <2> QED BY <1>2, <2>1 DEF SoftDelete
<1>5. ASSUME NEW t \in Tasks, ClaimOps(t) PROVE attempts'[a].rev = attempts[a].rev + 1
  <2>1. UNCHANGED attempts \/ \E p \in Principals, now \in Sampled : RefutePremise(t, p, now)
    BY <1>5, ClaimOpsWrite
  <2>2. \A p \in Principals, now \in Sampled :
          RefutePremise(t, p, now) => attempts' = Stopped(ActiveAttempts(t), now)
    BY DEF RefutePremise
  <2> QED BY <1>2, <2>1, <2>2
<1>6. ASSUME NEW t \in Tasks, WorkOps(t) PROVE attempts'[a] = attempts[a]
  <2>1. UNCHANGED attempts \/ \E x : attempts' = Append(attempts, x)
    BY <1>6 DEF WorkOps, StartAttempt, OpenWait, CloseWait, AddEvidence
  <2> QED BY <2>1, AppendedRows DEF LedgerTypeOK
<1>7. ASSUME NEW b \in DOMAIN attempts, NEW to \in AttemptStatuses, NEW now \in Stated,
             TransitionAttempt(b, to, now)
      PROVE  attempts'[a].rev = attempts[a].rev + 1
  <2> DEFINE moved == [attempts[b] EXCEPT !.status = to, !.updated = now, !.rev = @ + 1]
  <2>1. attempts' = [attempts EXCEPT ![b] = moved]
    BY <1>7 DEF TransitionAttempt
  <2>2. moved.rev = attempts[b].rev + 1
    BY Rows DEF AttemptRecord
  <2> HIDE DEF moved
  <2> QED BY <2>1, <2>2
<1> QED BY <1>3, <1>4, <1>5, <1>6, <1>7 DEF LedgerNext

\* Compare-and-set on a revision is sound, for every interleaving: a commitment, a
\* claim or an attempt whose revision did not move did not change, and a change
\* moves it by exactly one.
THEOREM RevisionsAreSound == LedgerSpec => RevisionNamesTheContent
<1> DEFINE Named ==
      /\ \A t \in Tasks :
           <<task'[t], row'[t], parent'[t]>> # <<task[t], row[t], parent[t]>> =>
              task'[t].rev = task[t].rev + 1
      /\ \A c \in DOMAIN claims :
           claims'[c] # claims[c] => claims'[c].rev = claims[c].rev + 1
      /\ \A a \in DOMAIN attempts :
           attempts'[a] # attempts[a] => attempts'[a].rev = attempts[a].rev + 1
<1>1. LedgerTypeOK /\ ClaimInv /\ AbsentIsNew /\ [LedgerNext]_ledgerVars => [Named]_ledgerVars
  BY RowRevisedStep, ClaimRevisedStep, AttemptRevisedStep DEF RowRevised
<1>2. RevisionNamesTheContent <=> [][Named]_ledgerVars
  BY DEF RevisionNamesTheContent
<1> HIDE DEF Named
<1> QED BY <1>1, <1>2, LedgerInvariant, AbsentIsNewInvariant, PTL DEF LedgerSpec

-----------------------------------------------------------------------------
(* Done rests on evidence. *)

\* A completion record names a revision the commitment has reached and cites
\* evidence of that commitment.  The bound on revisions makes the record of the
\* latest completion the latest record.
RecordsFit ==
  \A k \in DOMAIN completions :
    /\ completions[k].rev <= task[completions[k].task].rev
    /\ \A e \in completions[k].cites :
         e \in DOMAIN evidence /\ evidence[e].task = completions[k].task

\* What a record cites was superseded by no evidence it knew of.
CitedWhenValid ==
  \A k \in DOMAIN completions :
    /\ completions[k].known <= Len(evidence)
    /\ \A s \in DOMAIN evidence :
         evidence[s].supersedes \in completions[k].cites => s > completions[k].known

\* A commitment done in evidence mode has a latest record, and it cites something.
DoneIsRecorded ==
  \A t \in Tasks :
    (task[t].status = "done" /\ task[t].mode = "evidence") =>
      \E k \in DOMAIN completions :
        /\ completions[k].task = t
        /\ completions[k].cites # {}
        /\ \A j \in DOMAIN completions :
             completions[j].task = t => completions[j].rev <= completions[k].rev

EvidenceInv == RecordsFit /\ CitedWhenValid /\ DoneIsRecorded

\* u is not done, or it was already and in the same completion mode.
NotNewlyDone(u) ==
  task'[u].status = "done" => task[u].status = "done" /\ task'[u].mode = task[u].mode

Completes ==
  \E t \in Tasks, p \in Principals, now \in Sampled, force \in BOOLEAN,
     cites \in SUBSET DOMAIN evidence : Complete(t, p, now, force, cites)

\* Only a completion makes a commitment done, and a done one keeps its mode.
LEMMA DoneStep ==
  LedgerTypeOK /\ [LedgerNext]_ledgerVars =>
    Completes \/ (UNCHANGED completions /\ \A u \in Tasks : NotNewlyDone(u))
<1> SUFFICES ASSUME LedgerTypeOK, [LedgerNext]_ledgerVars, ~Completes
             PROVE  UNCHANGED completions /\ \A u \in Tasks : NotNewlyDone(u)
  OBVIOUS
<1>1. CASE UNCHANGED ledgerVars \/ Tick
  BY <1>1 DEF ledgerVars, execVars, Tick, NotNewlyDone
<1>2. ASSUME NEW t \in Tasks, TaskOps(t)
      PROVE  UNCHANGED completions /\ \A u \in Tasks : NotNewlyDone(u)
  <2> SUFFICES ASSUME NEW u \in Tasks PROVE UNCHANGED completions /\ NotNewlyDone(u)
    OBVIOUS
  <2>1. ASSUME NEW p \in Tasks \cup {NoTask}, NEW mode \in Modes, CreateTask(t, p, mode)
        PROVE  UNCHANGED completions /\ NotNewlyDone(u)
    BY <2>1 DEF CreateTask, NotNewlyDone, LedgerTypeOK, execVars
  <2>2. ASSUME NEW p \in Tasks \cup {NoTask}, MoveTask(t, p)
        PROVE  UNCHANGED completions /\ NotNewlyDone(u)
    BY <2>2, BumpedRows, BumpStatus DEF MoveTask, NotNewlyDone, execVars
  <2>3. ASSUME NEW mode \in Modes, UpdateTask(t, mode)
        PROVE  UNCHANGED completions /\ NotNewlyDone(u)
    BY <2>3, BumpedRows, BumpStatus DEF UpdateTask, NotNewlyDone, Closed, execVars
  <2>4. ASSUME NEW to \in Statuses, Transition(t, to)
        PROVE  UNCHANGED completions /\ NotNewlyDone(u)
    BY <2>4, BumpedRows, BumpStatus DEF Transition, NotNewlyDone, Closed, execVars
  <2>5. ASSUME NEW p \in Principals, NEW now \in Sampled, NEW force \in BOOLEAN,
               Cancel(t, p, now, force)
        PROVE  UNCHANGED completions /\ NotNewlyDone(u)
    <3>1. task' = [Bump(t) EXCEPT ![t].status = "cancelled"] /\ UNCHANGED completions
      BY <2>5 DEF Cancel, CloseExecution
    <3> QED BY <3>1, BumpedRows, BumpStatus DEF NotNewlyDone
  <2>6. ASSUME NEW p \in Principals, NEW now \in Sampled, NEW force \in BOOLEAN,
               SoftDelete(t, force, p, now)
        PROVE  UNCHANGED completions /\ NotNewlyDone(u)
    <3>1. task[u] \in TaskRecord
      BY DEF LedgerTypeOK
    <3>2. /\ UNCHANGED completions
          /\ task'[u] = task[u] \/ task'[u] = [task[u] EXCEPT !.rev = @ + 1]
      BY <2>6 DEF SoftDelete
    <3> QED BY <3>1, <3>2 DEF NotNewlyDone, TaskRecord
  <2>7. CASE RestoreTask(t)
    BY <2>7, BumpedRows, BumpStatus DEF RestoreTask, NotNewlyDone, execVars
  <2>8. CASE \E p \in Principals, now \in Sampled, force \in BOOLEAN :
               \/ \E cites \in SUBSET DOMAIN evidence : Complete(t, p, now, force, cites)
               \/ Cancel(t, p, now, force)
               \/ SoftDelete(t, force, p, now)
    BY <2>5, <2>6, <2>8 DEF Completes
  <2> QED BY <1>2, <2>1, <2>2, <2>3, <2>4, <2>7, <2>8 DEF TaskOps
<1>3. ASSUME NEW t \in Tasks, ClaimOps(t) PROVE UNCHANGED <<task, completions>>
  <2>1. PICK p \in Principals, now \in Sampled, force \in BOOLEAN :
          \/ \E lease \in LeaseLengths, gate \in GateAnswers :
               AcquireClaim(t, p, now, lease, gate, force)
          \/ ReleaseClaim(t, p, now, force)
          \/ RefutePremise(t, p, now)
    BY <1>3 DEF ClaimOps
  <2> QED BY <2>1 DEF AcquireClaim, ReleaseClaim, RefutePremise
<1>4. ASSUME NEW t \in Tasks, WorkOps(t) PROVE UNCHANGED <<task, completions>>
  BY <1>4 DEF WorkOps, StartAttempt, OpenWait, CloseWait, AddEvidence
<1>5. ASSUME NEW a \in DOMAIN attempts, NEW to \in AttemptStatuses, NEW now \in Stated,
             TransitionAttempt(a, to, now)
      PROVE  UNCHANGED <<task, completions>>
  BY <1>5 DEF TransitionAttempt
<1>6. UNCHANGED <<task, completions>> =>
        UNCHANGED completions /\ \A u \in Tasks : NotNewlyDone(u)
  BY DEF NotNewlyDone
<1> QED BY <1>1, <1>2, <1>3, <1>4, <1>5, <1>6 DEF LedgerNext

\* A step adds at most one piece of evidence, which supersedes an earlier one or none.
LEMMA EvidenceStep ==
  [LedgerNext]_ledgerVars =>
    \/ evidence' = evidence
    \/ \E t \in Tasks, old \in DOMAIN evidence \cup {None} :
         evidence' = Append(evidence, [task |-> t, supersedes |-> old])
<1> SUFFICES ASSUME [LedgerNext]_ledgerVars, evidence' # evidence
             PROVE  \E t \in Tasks, old \in DOMAIN evidence \cup {None} :
                      evidence' = Append(evidence, [task |-> t, supersedes |-> old])
  OBVIOUS
<1>1. ASSUME NEW t \in Tasks, TaskOps(t) PROVE FALSE
  BY <1>1 DEF TaskOps, CreateTask, MoveTask, UpdateTask, Transition, Complete, Cancel,
              SoftDelete, CloseExecution, RestoreTask, execVars
<1>2. ASSUME NEW t \in Tasks, ClaimOps(t) PROVE FALSE
  <2>1. PICK p \in Principals, now \in Sampled, force \in BOOLEAN :
          \/ \E lease \in LeaseLengths, gate \in GateAnswers :
               AcquireClaim(t, p, now, lease, gate, force)
          \/ ReleaseClaim(t, p, now, force)
          \/ RefutePremise(t, p, now)
    BY <1>2 DEF ClaimOps
  <2> QED BY <2>1 DEF AcquireClaim, ReleaseClaim, RefutePremise
<1>3. ASSUME NEW t \in Tasks, WorkOps(t)
      PROVE  \E old \in DOMAIN evidence \cup {None} :
               evidence' = Append(evidence, [task |-> t, supersedes |-> old])
  BY <1>3 DEF WorkOps, StartAttempt, OpenWait, CloseWait, AddEvidence
<1>4. ASSUME NEW a \in DOMAIN attempts, NEW to \in AttemptStatuses, NEW now \in Stated,
             TransitionAttempt(a, to, now)
      PROVE  FALSE
  BY <1>4 DEF TransitionAttempt
<1> QED BY <1>1, <1>2, <1>3, <1>4 DEF LedgerNext, Tick, ledgerVars, execVars

\* Evidence rows are appended and no revision goes back.
LEMMA EvidenceGrows ==
  LedgerTypeOK /\ AbsentIsNew /\ [LedgerNext]_ledgerVars =>
    /\ \A e \in DOMAIN evidence : e \in DOMAIN evidence' /\ evidence'[e] = evidence[e]
    /\ \A u \in Tasks : task'[u].rev >= task[u].rev
<1> SUFFICES ASSUME LedgerTypeOK, AbsentIsNew, [LedgerNext]_ledgerVars
             PROVE  /\ DOMAIN evidence \subseteq DOMAIN evidence'
                    /\ \A u \in Tasks : task'[u].rev >= task[u].rev
  BY RecordHistoryStep DEF RecordHistory
<1>1. \A u \in Tasks : task[u].rev \in Nat
  BY DEF LedgerTypeOK, TaskRecord
<1>2. \A u \in Tasks : task'[u].rev >= task[u].rev
  BY <1>1, RowRevisedStep DEF RowRevised
<1>3. evidence' = evidence \/ \E e : evidence' = Append(evidence, e)
  BY RecordSteps
<1>4. \A e : DOMAIN evidence \subseteq DOMAIN Append(evidence, e)
  BY LenProperties DEF LedgerTypeOK
<1> QED BY <1>2, <1>3, <1>4

\* A step that completes nothing keeps the record of every done commitment.
LEMMA NoCompletionKeepsEvidence ==
  ASSUME LedgerTypeOK, AbsentIsNew, EvidenceInv, [LedgerNext]_ledgerVars,
         UNCHANGED completions, \A u \in Tasks : NotNewlyDone(u)
  PROVE  EvidenceInv'
<1>1. /\ \A e \in DOMAIN evidence : e \in DOMAIN evidence' /\ evidence'[e] = evidence[e]
      /\ \A u \in Tasks : task'[u].rev >= task[u].rev
      /\ \A u \in Tasks : task[u].rev \in Nat /\ task'[u].rev \in Nat
  <2>1. \A u \in Tasks : task[u].rev \in Nat
    BY DEF LedgerTypeOK, TaskRecord
  <2>2. \A u \in Tasks : task'[u].rev \in Nat
    BY <2>1, RowRevisedStep DEF RowRevised
  <2> QED BY <2>1, <2>2, EvidenceGrows
<1>2. \A k \in DOMAIN completions : completions[k] \in CompletionRecord
  BY ElementOfSeq, LenProperties DEF LedgerTypeOK
<1>3. RecordsFit'
  BY <1>1, <1>2 DEF EvidenceInv, RecordsFit, CompletionRecord
<1>4. DoneIsRecorded'
  BY <1>1 DEF EvidenceInv, DoneIsRecorded, NotNewlyDone
<1>5. CitedWhenValid'
  <2>1. Len(evidence) \in Nat /\ DOMAIN evidence = 1..Len(evidence)
    BY LenProperties DEF LedgerTypeOK
  <2>2. CASE evidence' = evidence
    BY <2>2 DEF EvidenceInv, CitedWhenValid
  <2>3. CASE \E t \in Tasks, old \in DOMAIN evidence \cup {None} :
               evidence' = Append(evidence, [task |-> t, supersedes |-> old])
    <3>1. PICK t \in Tasks, old \in DOMAIN evidence \cup {None} :
            evidence' = Append(evidence, [task |-> t, supersedes |-> old])
      BY <2>3
    <3>2. [task |-> t, supersedes |-> old] \in EvidenceRecord
      BY <2>1 DEF EvidenceRecord
    <3>3. /\ Len(evidence') = Len(evidence) + 1
          /\ DOMAIN evidence' = 1..(Len(evidence) + 1)
          /\ \A s \in 1..Len(evidence) : evidence'[s] = evidence[s]
      BY <2>1, <3>1, <3>2, AppendProperties, LenProperties DEF LedgerTypeOK
    <3>4. ASSUME NEW k \in DOMAIN completions
          PROVE  /\ completions[k].known <= Len(evidence')
                 /\ \A s \in DOMAIN evidence' :
                      evidence'[s].supersedes \in completions[k].cites =>
                        s > completions[k].known
      <4>1. /\ completions[k].known \in Nat /\ completions[k].known <= Len(evidence)
            /\ \A s \in 1..Len(evidence) :
                 evidence[s].supersedes \in completions[k].cites => s > completions[k].known
        BY <1>2, <2>1 DEF EvidenceInv, CitedWhenValid, CompletionRecord
      <4> QED BY <2>1, <3>3, <4>1
    <3> QED BY <3>4 DEF CitedWhenValid
  <2> QED BY <2>2, <2>3, EvidenceStep
<1> QED BY <1>3, <1>4, <1>5 DEF EvidenceInv

\* A completion adds the latest record of its commitment, with what it cites.
LEMMA CompletionKeepsEvidence ==
  ASSUME LedgerTypeOK, EvidenceInv, Completes
  PROVE  EvidenceInv'
<1>1. PICK t \in Tasks, p \in Principals, now \in Sampled, force \in BOOLEAN,
           cites \in SUBSET DOMAIN evidence : Complete(t, p, now, force, cites)
  BY DEF Completes
<1> DEFINE new == [task |-> t, rev |-> task[t].rev + 1, cites |-> cites,
                   known |-> Len(evidence)]
           n == Len(completions)
<1>2. /\ completions' = Append(completions, new)
      /\ task' = [Bump(t) EXCEPT ![t].status = "done"]
      /\ evidence' = evidence
      /\ task[t].mode = "evidence" => cites # {}
      /\ \A e \in cites : e \in DOMAIN evidence /\ evidence[e].task = t /\ ~Superseded(e)
  BY <1>1 DEF Complete, MayCite, CloseExecution
<1>3. /\ \A u \in Tasks : task[u].rev \in Nat
      /\ n \in Nat /\ DOMAIN completions = 1..n
      /\ \A k \in DOMAIN completions : completions[k] \in CompletionRecord
  BY ElementOfSeq, LenProperties DEF LedgerTypeOK, TaskRecord
<1>4. /\ task'[t].rev = task[t].rev + 1 /\ task'[t].mode = task[t].mode
      /\ \A u \in Tasks \ {t} : task'[u] = task[u]
  BY <1>2, BumpedRows
<1>5. /\ new.task = t /\ new.rev = task[t].rev + 1 /\ new.cites = cites
      /\ new.known = Len(evidence)
  OBVIOUS
<1>6. new \in CompletionRecord
  <2>1. cites \subseteq Nat /\ Len(evidence) \in Nat
    BY LenProperties DEF LedgerTypeOK
  <2> QED BY <1>3, <2>1 DEF CompletionRecord
<1> HIDE DEF new
<1>7. /\ DOMAIN completions' = 1..(n + 1) /\ completions'[n + 1] = new
      /\ \A k \in 1..n : completions'[k] = completions[k]
  BY <1>2, <1>3, <1>6, AppendProperties, LenProperties DEF LedgerTypeOK
<1>8. RecordsFit'
  <2> SUFFICES ASSUME NEW k \in 1..(n + 1)
               PROVE  /\ completions'[k].rev <= task'[completions'[k].task].rev
                      /\ \A e \in completions'[k].cites :
                           e \in DOMAIN evidence /\ evidence[e].task = completions'[k].task
    BY <1>2, <1>7 DEF RecordsFit
  <2>1. CASE k = n + 1
    BY <2>1, <1>2, <1>3, <1>4, <1>5, <1>7
  <2>2. CASE k \in 1..n
    <3>1. completions[k].task \in Tasks /\ completions[k].rev \in Nat
      BY <2>2, <1>3 DEF CompletionRecord
    <3>2. /\ completions'[k] = completions[k]
          /\ completions[k].rev <= task[completions[k].task].rev
          /\ \A e \in completions[k].cites :
               e \in DOMAIN evidence /\ evidence[e].task = completions[k].task
      BY <2>2, <1>3, <1>7 DEF EvidenceInv, RecordsFit
    <3>3. completions[k].rev <= task'[completions[k].task].rev
      BY <3>1, <3>2, <1>3, <1>4
    <3> QED BY <3>2, <3>3
  <2> QED BY <2>1, <2>2, <1>3
<1>9. DoneIsRecorded'
  <2> DEFINE Rests(u, k) ==
        /\ completions'[k].task = u
        /\ completions'[k].cites # {}
        /\ \A j \in DOMAIN completions' :
             completions'[j].task = u => completions'[j].rev <= completions'[k].rev
  <2> SUFFICES ASSUME NEW u \in Tasks, task'[u].status = "done", task'[u].mode = "evidence"
               PROVE  \E k \in DOMAIN completions' : Rests(u, k)
    BY DEF DoneIsRecorded
  <2>1. CASE u = t
    <3>1. \A j \in 1..n : completions[j].task = t => completions[j].rev <= task[t].rev + 1
      BY <1>3 DEF EvidenceInv, RecordsFit, CompletionRecord
    <3>2. Rests(u, n + 1)
      BY <2>1, <3>1, <1>2, <1>3, <1>4, <1>5, <1>7
    <3> QED BY <3>2, <1>3, <1>7
  <2>2. CASE u # t
    <3>1. PICK k \in 1..n :
            /\ completions[k].task = u
            /\ completions[k].cites # {}
            /\ \A j \in 1..n : completions[j].task = u => completions[j].rev <= completions[k].rev
      BY <2>2, <1>3, <1>4 DEF EvidenceInv, DoneIsRecorded
    <3>2. Rests(u, k)
      BY <2>2, <3>1, <1>2, <1>3, <1>5, <1>7
    <3> QED BY <3>2, <1>3, <1>7
  <2> QED BY <2>1, <2>2
<1>10. CitedWhenValid'
  <2>1. Len(evidence) \in Nat /\ DOMAIN evidence = 1..Len(evidence)
    BY LenProperties DEF LedgerTypeOK
  <2> SUFFICES ASSUME NEW k \in 1..(n + 1)
               PROVE  /\ completions'[k].known <= Len(evidence)
                      /\ \A s \in DOMAIN evidence :
                           evidence[s].supersedes \in completions'[k].cites =>
                             s > completions'[k].known
    BY <1>2, <1>7 DEF CitedWhenValid
  <2>2. CASE k = n + 1
    BY <2>1, <2>2, <1>2, <1>5, <1>7 DEF Superseded
  <2>3. CASE k \in 1..n
    BY <2>3, <1>3, <1>7 DEF EvidenceInv, CitedWhenValid
  <2> QED BY <2>2, <2>3, <1>3
<1> QED BY <1>8, <1>9, <1>10 DEF EvidenceInv

\* A commitment that is done in evidence mode rests on evidence of its own, cited by
\* its latest completion record before anything superseded it, whoever switches modes,
\* adds evidence, reopens, deletes or restores.
THEOREM DoneRestsOnEvidence == LedgerSpec => []DoneOnEvidence
<1>1. LedgerInit => EvidenceInv
  <2> SUFFICES ASSUME LedgerInit PROVE EvidenceInv
    OBVIOUS
  <2>1. DOMAIN completions = {} /\ \A t \in Tasks : task[t].status = "open"
    BY EmptySeq, LenProperties DEF LedgerInit
  <2> QED BY <2>1 DEF EvidenceInv, RecordsFit, CitedWhenValid, DoneIsRecorded
<1>2. LedgerTypeOK /\ AbsentIsNew /\ EvidenceInv /\ [LedgerNext]_ledgerVars => EvidenceInv'
  BY DoneStep, NoCompletionKeepsEvidence, CompletionKeepsEvidence
<1>3. EvidenceInv => DoneOnEvidence
  BY DEF EvidenceInv, RecordsFit, CitedWhenValid, DoneIsRecorded, DoneOnEvidence
<1> QED BY <1>1, <1>2, <1>3, LedgerInvariant, AbsentIsNewInvariant, PTL DEF LedgerSpec

-----------------------------------------------------------------------------
(* The claim of a task is a fenced lease on it. *)

\* Among the claims of a task only the last is ever unreleased, so its fence is
\* the highest: this is what ties the fence of the abstract lease to the rows.
UnreleasedIsLast ==
  \A t \in Tasks : \A c \in Unreleased(t), d \in DOMAIN claims : claims[d].task = t => d <= c

LeaseInv == ClaimInv /\ UnreleasedIsLast

\* The fences granted on a task so far, and the highest of a set of fences.
Fences(t) == {claims[c].fence : c \in {d \in DOMAIN claims : claims[d].task = t}}

Highest(F, f) == /\ f \in Nat /\ \A x \in F : x <= f
                 /\ f = 0 \/ f \in F

LEMMA HighestIsUnique ==
  ASSUME NEW F \in SUBSET Nat, NEW f, NEW g, Highest(F, f), Highest(F, g)
  PROVE  f = g
BY DEF Highest

\* What the abstract lease of a task is, from its rows.
LeaseFacts(t) ==
  /\ Fences(t) \in SUBSET Nat
  /\ Highest(Fences(t), ClaimOn(t).fence)
  /\ Unreleased(t) = {} => ClaimOn(t) = [holder |-> None, fence |-> ClaimOn(t).fence, until |-> 0]
  /\ \A c \in Unreleased(t) :
       ClaimOn(t) = [holder |-> claims[c].holder, fence |-> claims[c].fence,
                     until |-> claims[c].expires]
  /\ ClaimOn(t) \in Lock!Lease

LeasesFit == \A t \in Tasks : LeaseFacts(t)

LEMMA ClaimOnIs == LedgerTypeOK /\ LeaseInv => LeasesFit
<1> SUFFICES ASSUME LedgerTypeOK, LeaseInv, NEW t \in Tasks PROVE LeaseFacts(t)
  BY DEF LeasesFit
<1>1. /\ \A c \in DOMAIN claims : claims[c] \in ClaimRecord
      /\ DOMAIN claims = 1..Len(claims) /\ Len(claims) \in Nat
  BY Rows
<1>2. \A c \in DOMAIN claims : /\ claims[c].fence \in Nat /\ claims[c].expires \in Nat
                               /\ claims[c].holder \in Principals
  BY <1>1 DEF ClaimRecord, Times
<1>3. Fences(t) \in SUBSET Nat
  BY <1>2 DEF Fences
<1>4. CASE Unreleased(t) = {}
  <2>1. /\ NextFence(t) - 1 \in Nat
        /\ \A c \in DOMAIN claims : claims[c].task = t => claims[c].fence <= NextFence(t) - 1
        /\ \/ NextFence(t) - 1 = 0
           \/ \E c \in DOMAIN claims : claims[c].task = t /\ claims[c].fence = NextFence(t) - 1
    BY <1>1, <1>2, NextFenceExceeds DEF LedgerTypeOK, LeaseInv, ClaimInv
  <2>2. Highest(Fences(t), NextFence(t) - 1)
    BY <2>1 DEF Highest, Fences
  <2>3. ClaimOn(t) = [holder |-> None, fence |-> NextFence(t) - 1, until |-> 0]
    BY <1>4 DEF ClaimOn
  <2> QED BY <1>3, <1>4, <2>1, <2>2, <2>3 DEF LeaseFacts, Lock!Lease
<1>5. CASE Unreleased(t) # {}
  <2>1. PICK c : c = HeldClaim(t) /\ c \in Unreleased(t)
    BY <1>5 DEF HeldClaim
  <2>2. \A d \in Unreleased(t) : d = c
    BY <2>1 DEF LeaseInv, ClaimInv, OneUnreleasedClaim
  <2>3. ClaimOn(t) = [holder |-> claims[c].holder, fence |-> claims[c].fence,
                      until |-> claims[c].expires]
    BY <1>5, <2>1 DEF ClaimOn
  <2>4. c \in DOMAIN claims /\ claims[c].task = t
    BY <2>1 DEF Unreleased
  <2>5. ASSUME NEW d \in DOMAIN claims, claims[d].task = t
        PROVE  claims[d].fence <= claims[c].fence
    <3>1. d <= c
      BY <2>1, <2>5 DEF LeaseInv, UnreleasedIsLast
    <3>2. CASE d = c
      BY <3>2, <1>2, <2>4
    <3>3. CASE d < c
      BY <3>3, <1>2, <2>4, <2>5 DEF LeaseInv, ClaimInv, FencesGrow
    <3> QED BY <3>1, <3>2, <3>3, <2>4, <1>1
  <2>6. Highest(Fences(t), claims[c].fence)
    BY <1>2, <2>4, <2>5 DEF Highest, Fences
  <2> QED BY <1>2, <1>3, <1>5, <2>2, <2>3, <2>4, <2>6 DEF LeaseFacts, Lock!Lease
<1> QED BY <1>4, <1>5

\* The same after a step.
LEMMA ClaimOnIsNext == LedgerTypeOK' /\ LeaseInv' => LeasesFit'
BY ClaimOnIs, PTL

\* A grant on t leaves every other row as it was, but for the ends it records on t.
LEMMA GrantedTable ==
  ASSUME LedgerTypeOK, ClaimInv, ClaimGranted
  PROVE  \E t \in Tasks, p \in Principals, until \in Nat :
           /\ \A c \in Unreleased(t) : claims[c].expires <= clock
           /\ Len(claims) \in Nat /\ DOMAIN claims = 1..Len(claims)
           /\ DOMAIN claims' = 1..(Len(claims) + 1)
           /\ \A c \in DOMAIN claims :
                /\ claims'[c].task = claims[c].task /\ claims'[c].fence = claims[c].fence
                /\ claims'[c].holder = claims[c].holder /\ claims'[c].expires = claims[c].expires
                /\ claims'[c].reason = IF c \in Unreleased(t) THEN "expired" ELSE claims[c].reason
           /\ claims'[Len(claims) + 1].task = t /\ claims'[Len(claims) + 1].holder = p
           /\ claims'[Len(claims) + 1].fence = NextFence(t)
           /\ claims'[Len(claims) + 1].expires = until /\ claims'[Len(claims) + 1].reason = None
<1>1. PICK t \in Tasks, p \in Principals, now \in Sampled, until \in Nat :
        /\ LiveClaims(t, now) = {}
        /\ claims' = Append(EndClaims(Unreleased(t), "expired", p, now),
             [task |-> t, holder |-> p, fence |-> NextFence(t), acquired |-> now,
              heartbeat |-> now, expires |-> until, reason |-> None,
              endedBy |-> None, ended |-> None, rev |-> 1])
  BY DEF ClaimGranted
<1> DEFINE kept == EndClaims(Unreleased(t), "expired", p, now)
           new == [task |-> t, holder |-> p, fence |-> NextFence(t), acquired |-> now,
                   heartbeat |-> now, expires |-> until, reason |-> None,
                   endedBy |-> None, ended |-> None, rev |-> 1]
           n == Len(claims)
<1>2. claims' = Append(kept, new)
  BY <1>1
<1>3. /\ n \in Nat /\ DOMAIN claims = 1..n /\ DOMAIN claims' = 1..(n + 1)
      /\ \A c \in DOMAIN claims : claims'[c] = kept[c]
      /\ claims'[n + 1] = new
  BY <1>2, GrantedRows DEF ClaimInv
<1>4. ASSUME NEW c \in DOMAIN claims
      PROVE  /\ kept[c].task = claims[c].task /\ kept[c].fence = claims[c].fence
             /\ kept[c].holder = claims[c].holder /\ kept[c].expires = claims[c].expires
             /\ kept[c].reason = IF c \in Unreleased(t) THEN "expired" ELSE claims[c].reason
  <2>1. claims \in Seq(ClaimRecord) /\ "expired" \in ReleaseReasons
    BY DEF LedgerTypeOK, ReleaseReasons
  <2> QED BY <2>1, EndedRows
<1>5. ASSUME NEW c \in Unreleased(t) PROVE claims[c].expires <= clock
  <2>1. claims[c] \in ClaimRecord /\ c \in DOMAIN claims
    BY Rows DEF Unreleased
  <2>2. claims[c].expires \in Nat /\ now \in 0..clock /\ clock \in Nat
    BY <2>1 DEF ClaimRecord, Times, Sampled, LedgerTypeOK
  <2> QED BY <1>1, <2>2 DEF LiveClaims
<1>6. /\ new.task = t /\ new.holder = p /\ new.fence = NextFence(t) /\ new.expires = until
      /\ new.reason = None
  OBVIOUS
<1> HIDE DEF kept, new
<1> QED BY <1>3, <1>4, <1>5, <1>6

\* Only the last claim of a task is unreleased, after every step.
LEMMA LeaseInvStep ==
  LedgerTypeOK /\ LeaseInv /\ [LedgerNext]_ledgerVars => LeaseInv'
<1> SUFFICES ASSUME LedgerTypeOK, LeaseInv, [LedgerNext]_ledgerVars PROVE UnreleasedIsLast'
  BY ClaimInvStep DEF LeaseInv
<1>1. ASSUME DOMAIN claims' = DOMAIN claims,
             \A c \in DOMAIN claims :
               /\ claims'[c].task = claims[c].task
               /\ claims'[c].reason = None => claims[c].reason = None
      PROVE  UnreleasedIsLast'
  BY <1>1 DEF LeaseInv, UnreleasedIsLast, Unreleased
<1>2. CASE claims' = claims
  BY <1>1, <1>2
<1>3. CASE ClaimsEnd
  <2>1. PICK C \in SUBSET DOMAIN claims, reason \in ReleaseReasons, p \in Principals,
             now \in Sampled :
          claims' = EndClaims(C, reason, p, now)
    BY <1>3 DEF ClaimsEnd
  <2>2. claims \in Seq(ClaimRecord) /\ reason # None /\ clock \in Nat
    BY LedgerAssumption DEF LedgerTypeOK
  <2>3. DOMAIN claims' = DOMAIN claims
    BY <2>1, <2>2, EndClaimsType
  <2>4. \A c \in DOMAIN claims :
               /\ claims'[c].task = claims[c].task
               /\ claims'[c].reason = None => claims[c].reason = None
    BY <2>1, <2>2, EndedRows
  <2> QED BY <1>1, <2>3, <2>4
<1>4. CASE ClaimRenewed
  <2>1. PICK r \in DOMAIN claims : \E now, until : claims' = Renewed(r, now, until)
    BY <1>4 DEF ClaimRenewed, LiveClaims, Unreleased
  <2> QED BY <1>1, <2>1, RenewedRows
<1>5. CASE ClaimGranted
  <2>1. PICK t \in Tasks :
           /\ Len(claims) \in Nat /\ DOMAIN claims = 1..Len(claims)
           /\ DOMAIN claims' = 1..(Len(claims) + 1)
           /\ \A c \in DOMAIN claims :
                /\ claims'[c].task = claims[c].task
                /\ claims'[c].reason = IF c \in Unreleased(t) THEN "expired" ELSE claims[c].reason
           /\ claims'[Len(claims) + 1].task = t
    BY <1>5, GrantedTable DEF LeaseInv
  <2>2. ASSUME NEW u \in Tasks, NEW c \in Unreleased(u)', NEW d \in DOMAIN claims',
               claims'[d].task = u
        PROVE  d <= c
    <3>1. c \in DOMAIN claims' /\ claims'[c].task = u /\ claims'[c].reason = None
      BY DEF Unreleased
    <3>2. CASE c = Len(claims) + 1
      BY <2>1, <3>2
    <3>3. CASE c \in DOMAIN claims
      <4>1. c \in Unreleased(u) /\ u # t
        BY <2>1, <3>1, <3>3, LedgerAssumption DEF Unreleased, ReleaseReasons
      <4>2. d \in DOMAIN claims /\ claims[d].task = u
        BY <2>1, <2>2, <4>1
      <4> QED BY <4>1, <4>2 DEF LeaseInv, UnreleasedIsLast
    <3> QED BY <2>1, <3>1, <3>2, <3>3
  <2> QED BY <2>2 DEF UnreleasedIsLast
<1> QED BY <1>2, <1>3, <1>4, <1>5, ClaimSteps DEF LeaseInv

\* A task whose fences did not change keeps its fence; with no unreleased claim left
\* its lease has ended, with the same one it is the same lease.
LEMMA LeaseAfter ==
  ASSUME LeasesFit, LeasesFit', NEW u \in Tasks, Fences(u)' = Fences(u)
  PROVE  /\ ClaimOn(u)'.fence = ClaimOn(u).fence
         /\ Unreleased(u)' = {} =>
              ClaimOn(u)' = [holder |-> None, fence |-> ClaimOn(u).fence, until |-> 0]
         /\ (Unreleased(u)' = {} /\ Unreleased(u) = {}) => ClaimOn(u)' = ClaimOn(u)
         /\ \A c \in Unreleased(u) \cap Unreleased(u)' :
              /\ claims'[c].holder = claims[c].holder => ClaimOn(u)'.holder = ClaimOn(u).holder
              /\ ( /\ claims'[c].holder = claims[c].holder /\ claims'[c].fence = claims[c].fence
                   /\ claims'[c].expires = claims[c].expires ) => ClaimOn(u)' = ClaimOn(u)
<1>1. LeaseFacts(u) /\ LeaseFacts(u)'
  BY DEF LeasesFit
<1>2. ClaimOn(u)'.fence = ClaimOn(u).fence
  BY <1>1, HighestIsUnique DEF LeaseFacts
<1> QED BY <1>1, <1>2 DEF LeaseFacts

\* The fences of a task are those of its rows, so a step that keeps the rows keeps them.
LEMMA FencesKept ==
  ASSUME DOMAIN claims' = DOMAIN claims,
         \A c \in DOMAIN claims : claims'[c].task = claims[c].task /\ claims'[c].fence = claims[c].fence
  PROVE  \A u \in Tasks : Fences(u)' = Fences(u)
BY DEF Fences

\* Ended claims end their leases; the others stay.
LEMMA EndIsLeaseStep ==
  ASSUME LedgerTypeOK, LeaseInv, LeasesFit, LeasesFit', ClaimsEnd
  PROVE  \A u \in Tasks :
           \/ ClaimOn(u)' = ClaimOn(u)
           \/ ClaimOn(u)' = [holder |-> None, fence |-> ClaimOn(u).fence, until |-> 0]
<1>1. PICK C \in SUBSET DOMAIN claims, reason \in ReleaseReasons, p \in Principals,
           now \in Sampled :
        claims' = EndClaims(C, reason, p, now)
  BY DEF ClaimsEnd
<1>2. claims \in Seq(ClaimRecord) /\ reason # None /\ clock \in Nat
  BY LedgerAssumption DEF LedgerTypeOK
<1>3. /\ DOMAIN claims' = DOMAIN claims
      /\ \A c \in DOMAIN claims :
           /\ claims'[c].task = claims[c].task /\ claims'[c].fence = claims[c].fence
           /\ claims'[c].holder = claims[c].holder /\ claims'[c].expires = claims[c].expires
           /\ claims'[c].reason = IF c \in C THEN reason ELSE claims[c].reason
  BY <1>1, <1>2, EndClaimsType, EndedRows
<1>4. \A u \in Tasks : Fences(u)' = Fences(u)
  BY <1>3, FencesKept
<1> SUFFICES ASSUME NEW u \in Tasks, Unreleased(u)' # {}
             PROVE  ClaimOn(u)' = ClaimOn(u)
  BY <1>4, LeaseAfter
<1>5. PICK c : c \in Unreleased(u)'
  OBVIOUS
<1>6. c \in Unreleased(u) /\ c \in DOMAIN claims
  BY <1>2, <1>3, <1>5 DEF Unreleased
<1> QED BY <1>3, <1>4, <1>5, <1>6, LeaseAfter

\* A renewal extends the lease of its task.
LEMMA RenewalIsLeaseStep ==
  ASSUME LedgerTypeOK, LeaseInv, LeasesFit, LeasesFit', ClaimRenewed
  PROVE  \E t \in Tasks :
           /\ ClaimOn(t).holder # None
           /\ ClaimOn(t)'.holder = ClaimOn(t).holder /\ ClaimOn(t)'.fence = ClaimOn(t).fence
           /\ \A u \in Tasks \ {t} : ClaimOn(u)' = ClaimOn(u)
<1>1. PICK t \in Tasks, now \in Sampled, until \in Nat : \E r \in LiveClaims(t, now) :
        claims' = Renewed(r, now, until)
  BY DEF ClaimRenewed
<1>2. PICK r \in LiveClaims(t, now) : claims' = Renewed(r, now, until)
  BY <1>1
<1>3. r \in DOMAIN claims /\ r \in Unreleased(t) /\ claims[r].task = t
  BY DEF LiveClaims, Unreleased
<1>4. /\ DOMAIN claims' = DOMAIN claims
      /\ \A c \in DOMAIN claims :
              /\ claims'[c].task = claims[c].task /\ claims'[c].fence = claims[c].fence
              /\ claims'[c].reason = claims[c].reason /\ claims'[c].holder = claims[c].holder
              /\ c # r => claims'[c] = claims[c]
  BY <1>2, <1>3, RenewedRows
<1>5. \A u \in Tasks : Fences(u)' = Fences(u) /\ Unreleased(u)' = Unreleased(u)
  BY <1>4, FencesKept DEF Unreleased
<1>6. ClaimOn(t)'.holder = ClaimOn(t).holder /\ ClaimOn(t)'.fence = ClaimOn(t).fence
  BY <1>3, <1>4, <1>5, LeaseAfter
<1>7. ClaimOn(t).holder # None
  <2>1. claims[r] \in ClaimRecord
    BY <1>3, Rows
  <2>2. ClaimOn(t).holder = claims[r].holder
    BY <1>3 DEF LeasesFit, LeaseFacts
  <2> QED BY <2>1, <2>2, LedgerAssumption DEF ClaimRecord
<1>8. ASSUME NEW u \in Tasks \ {t} PROVE ClaimOn(u)' = ClaimOn(u)
  <2>1. CASE Unreleased(u) = {}
    BY <2>1, <1>5, LeaseAfter
  <2>2. CASE Unreleased(u) # {}
    <3>1. PICK c : c \in Unreleased(u)
      BY <2>2
    <3>2. c \in DOMAIN claims /\ c # r
      BY <1>3, <3>1 DEF Unreleased
    <3> QED BY <1>4, <1>5, <3>1, <3>2, LeaseAfter
  <2> QED BY <2>1, <2>2
<1> QED BY <1>6, <1>7, <1>8

\* A grant finds no lease in force on its task and adds one with the next fence.
LEMMA GrantIsLeaseStep ==
  ASSUME LedgerTypeOK, LeaseInv, LeasesFit, LeasesFit', ClaimGranted
  PROVE  \E t \in Tasks :
           /\ ~(ClaimOn(t).holder # None /\ clock < ClaimOn(t).until)
           /\ ClaimOn(t)'.holder \in Principals /\ ClaimOn(t)'.fence = ClaimOn(t).fence + 1
           /\ \A u \in Tasks \ {t} : ClaimOn(u)' = ClaimOn(u)
<1> DEFINE n == Len(claims)
<1>1. PICK t \in Tasks, p \in Principals, until \in Nat :
           /\ \A c \in Unreleased(t) : claims[c].expires <= clock
           /\ n \in Nat /\ DOMAIN claims = 1..n
           /\ DOMAIN claims' = 1..(n + 1)
           /\ \A c \in DOMAIN claims :
                /\ claims'[c].task = claims[c].task /\ claims'[c].fence = claims[c].fence
                /\ claims'[c].holder = claims[c].holder /\ claims'[c].expires = claims[c].expires
                /\ claims'[c].reason = IF c \in Unreleased(t) THEN "expired" ELSE claims[c].reason
           /\ claims'[n + 1].task = t /\ claims'[n + 1].holder = p
           /\ claims'[n + 1].fence = NextFence(t)
           /\ claims'[n + 1].expires = until /\ claims'[n + 1].reason = None
  BY GrantedTable DEF LeaseInv
<1> HIDE DEF n
<1>2. n + 1 \in Unreleased(t)' /\ n + 1 \notin DOMAIN claims
  BY <1>1 DEF Unreleased
<1>3. ClaimOn(t)'.holder = p /\ ClaimOn(t)'.fence = NextFence(t)
  BY <1>1, <1>2 DEF LeasesFit, LeaseFacts
<1>4. /\ NextFence(t) \in Nat /\ NextFence(t) - 1 \in Nat
      /\ Highest(Fences(t), NextFence(t) - 1)
  <2>1. \A c \in DOMAIN claims : claims[c].fence \in Nat
    BY Rows DEF ClaimRecord
  <2>2. /\ NextFence(t) \in 1..(Len(claims) + 1) /\ Len(claims) \in Nat
        /\ \A c \in DOMAIN claims : claims[c].task = t => claims[c].fence < NextFence(t)
        /\ \/ NextFence(t) = 1
           \/ \E c \in DOMAIN claims : claims[c].task = t /\ claims[c].fence = NextFence(t) - 1
    BY NextFenceExceeds, Rows DEF LedgerTypeOK, LeaseInv, ClaimInv
  <2>3. \A c \in DOMAIN claims : claims[c].task = t => claims[c].fence <= NextFence(t) - 1
    BY <2>1, <2>2
  <2> QED BY <2>2, <2>3 DEF Highest, Fences
<1>5. ClaimOn(t)'.fence = ClaimOn(t).fence + 1
  <2>1. ClaimOn(t).fence = NextFence(t) - 1
    BY <1>4, HighestIsUnique DEF LeasesFit, LeaseFacts
  <2> QED BY <1>3, <1>4, <2>1
<1>6. ~(ClaimOn(t).holder # None /\ clock < ClaimOn(t).until)
  <2>1. CASE Unreleased(t) = {}
    BY <2>1 DEF LeasesFit, LeaseFacts
  <2>2. CASE Unreleased(t) # {}
    <3>1. PICK c \in Unreleased(t) : ClaimOn(t).until = claims[c].expires
      BY <2>2 DEF LeasesFit, LeaseFacts
    <3>2. claims[c].expires \in Nat /\ clock \in Nat
      BY <3>1, Rows DEF Unreleased, ClaimRecord, Times, LedgerTypeOK
    <3> QED BY <1>1, <3>1, <3>2
  <2> QED BY <2>1, <2>2
<1>7. ASSUME NEW u \in Tasks \ {t} PROVE ClaimOn(u)' = ClaimOn(u)
  <2>1. Fences(u)' = Fences(u)
    BY <1>1 DEF Fences
  <2>2. Unreleased(u)' = Unreleased(u)
    <3>1. \A c \in DOMAIN claims : claims[c].task = u => claims'[c].reason = claims[c].reason
      BY <1>1 DEF Unreleased
    <3>2. \A c \in DOMAIN claims' : c \in DOMAIN claims \/ claims'[c].task # u
      BY <1>1
    <3>3. \A c \in DOMAIN claims : c \in DOMAIN claims' /\ claims'[c].task = claims[c].task
      BY <1>1
    <3> QED BY <3>1, <3>2, <3>3 DEF Unreleased
  <2>3. CASE Unreleased(u) = {}
    BY <2>1, <2>2, <2>3, LeaseAfter
  <2>4. CASE Unreleased(u) # {}
    <3>1. PICK c : c \in Unreleased(u)
      BY <2>4
    <3>2. c \in DOMAIN claims
      BY <3>1 DEF Unreleased
    <3> QED BY <1>1, <2>1, <2>2, <3>1, <3>2, LeaseAfter
  <2> QED BY <2>3, <2>4
<1> QED BY <1>1, <1>3, <1>5, <1>6, <1>7

\* Every step of the ledger is a step of the abstract lease, or leaves it alone.
LEMMA LedgerStepIsLeaseStep ==
  LedgerTypeOK /\ LeaseInv /\ [LedgerNext]_ledgerVars => [Lock!LeaseNext]_(Lock!leaseVars)
<1> SUFFICES ASSUME LedgerTypeOK, LeaseInv, [LedgerNext]_ledgerVars
             PROVE  [Lock!LeaseNext]_(Lock!leaseVars)
  OBVIOUS
<1> DEFINE before == [t \in Tasks |-> ClaimOn(t)]
           after == [t \in Tasks |-> ClaimOn(t)']
<1>1. LedgerTypeOK' /\ LeaseInv'
  BY TypeStep, LeaseInvStep DEF LeaseInv, ClaimInv
<1>2. LeasesFit /\ LeasesFit'
  BY <1>1, ClaimOnIs, ClaimOnIsNext
<1>3. \A t \in Tasks : ClaimOn(t)' \in Lock!Lease
  BY <1>2 DEF LeasesFit, LeaseFacts, Lock!Lease
<1>4. after \in [Tasks -> Lock!Lease] /\ clock' \in Nat
  BY <1>1, <1>3 DEF LedgerTypeOK
<1>5. CASE claims' = claims
  <2>1. \A t \in Tasks : ClaimOn(t)' = ClaimOn(t)
    BY <1>5 DEF ClaimOn, Unreleased, NextFence, HeldClaim
  <2>2. after = before
    BY <2>1
  <2> QED BY <1>4, <2>2 DEF Lock!LeaseNext, Lock!Clock
<1>6. CASE ClaimsEnd
  <2>1. Lock!End
    BY <1>2, <1>6, EndIsLeaseStep DEF Lock!End
  <2> QED BY <1>4, <1>6, <2>1 DEF Lock!LeaseNext, ClaimsEnd
<1>7. CASE ClaimRenewed
  <2>1. \E t \in Tasks : Lock!Extend(t)
    BY <1>2, <1>7, RenewalIsLeaseStep DEF Lock!Extend, Lock!Others
  <2> QED BY <1>4, <1>7, <2>1 DEF Lock!LeaseNext, ClaimRenewed
<1>8. CASE ClaimGranted
  <2>1. \E t \in Tasks : Lock!Grant(t)
    BY <1>2, <1>8, GrantIsLeaseStep DEF Lock!Grant, Lock!InForce, Lock!Others
  <2> QED BY <1>4, <1>8, <2>1 DEF Lock!LeaseNext, ClaimGranted
<1> QED BY <1>5, <1>6, <1>7, <1>8, ClaimSteps

\* The last claim of a task is the only one ever unreleased, in every reachable state.
LEMMA LeaseInvariant == LedgerSpec => [](LedgerTypeOK /\ LeaseInv)
<1>1. LedgerInit => LeaseInv
  <2>1. LedgerInit => DOMAIN claims = {}
    BY EmptySeq, LenProperties DEF LedgerInit
  <2>2. LedgerInit => UnreleasedIsLast
    BY <2>1 DEF UnreleasedIsLast, Unreleased
  <2> QED BY <2>2, LedgerInitially DEF LeaseInv
<1>2. LedgerTypeOK /\ LeaseInv /\ [LedgerNext]_ledgerVars => LeaseInv'
  BY LeaseInvStep
<1> QED BY <1>1, <1>2, LedgerInvariant, PTL DEF LedgerSpec

\* Every history of claims is a history of the abstract fenced lease, for any number
\* of tasks and agents, any clock lag and any lease lengths: a claim is granted only
\* where none is in force, by the wall clock, and with the next fence.
THEOREM LedgerImplementsFencedLease == LedgerSpec => ImplementsFencedLease
<1>1. LedgerInit => Lock!LeaseInit
  <2> SUFFICES ASSUME LedgerInit PROVE Lock!LeaseInit
    OBVIOUS
  <2>1. DOMAIN claims = {}
    BY EmptySeq, LenProperties DEF LedgerInit
  <2>2. LedgerTypeOK /\ LeaseInv
    <3>1. UnreleasedIsLast
      BY <2>1 DEF UnreleasedIsLast, Unreleased
    <3> QED BY <3>1, LedgerInitially DEF LeaseInv
  <2>3. ASSUME NEW t \in Tasks
        PROVE  ClaimOn(t) = [holder |-> None, fence |-> 0, until |-> 0]
    <3>1. LeaseFacts(t)
      BY <2>2, ClaimOnIs DEF LeasesFit
    <3>2. Unreleased(t) = {} /\ Fences(t) = {}
      BY <2>1 DEF Unreleased, Fences
    <3> QED BY <3>1, <3>2 DEF LeaseFacts, Highest
  <2> QED BY <2>3 DEF LedgerInit, Lock!LeaseInit
<1> QED BY <1>1, LedgerStepIsLeaseStep, LeaseInvariant, PTL
       DEF LedgerSpec, ImplementsFencedLease, Lock!LeaseSpec

-----------------------------------------------------------------------------
(* What every implementation of the lease inherits. *)

\* A step of the abstract lease passes on nothing that is in force and never reuses
\* a fence.
LeasePromises ==
  \A t \in Tasks :
    /\ ClaimOn(t)'.fence >= ClaimOn(t).fence
    /\ (ClaimOn(t)'.holder # ClaimOn(t).holder /\ ClaimOn(t)'.holder # None) =>
          ClaimOn(t)'.fence > ClaimOn(t).fence
    /\ Lock!InForce(t) => ClaimOn(t)'.holder \in {ClaimOn(t).holder, None}

LEMMA LeaseStepIsSafe ==
  ASSUME \A t \in Tasks : ClaimOn(t).fence \in Nat, Lock!LeaseNext
  PROVE  LeasePromises
<1> SUFFICES ASSUME NEW t \in Tasks
             PROVE  /\ ClaimOn(t)'.fence >= ClaimOn(t).fence
                    /\ (ClaimOn(t)'.holder # ClaimOn(t).holder /\ ClaimOn(t)'.holder # None) =>
                          ClaimOn(t)'.fence > ClaimOn(t).fence
                    /\ Lock!InForce(t) => ClaimOn(t)'.holder \in {ClaimOn(t).holder, None}
  BY DEF LeasePromises
<1>1. ClaimOn(t).fence \in Nat
  OBVIOUS
<1>2. CASE ClaimOn(t)' = ClaimOn(t)
  BY <1>1, <1>2
<1>3. CASE ClaimOn(t)' = [holder |-> None, fence |-> ClaimOn(t).fence, until |-> 0]
  BY <1>1, <1>3
<1>4. CASE Lock!Clock
  <2>1. [u \in Tasks |-> ClaimOn(u)'][t] = [u \in Tasks |-> ClaimOn(u)][t]
    BY <1>4 DEF Lock!Clock
  <2> QED BY <1>2, <2>1
<1>5. CASE Lock!End
  BY <1>2, <1>3, <1>5 DEF Lock!End
<1>6. ASSUME NEW r \in Tasks, Lock!Extend(r) \/ Lock!Grant(r), ClaimOn(t)' # ClaimOn(t)
      PROVE  r = t
  BY <1>6 DEF Lock!Extend, Lock!Grant, Lock!Others
<1>7. CASE Lock!Extend(t)
  BY <1>1, <1>7 DEF Lock!Extend
<1>8. CASE Lock!Grant(t)
  <2>1. /\ ~Lock!InForce(t)
        /\ ClaimOn(t)'.fence = ClaimOn(t).fence + 1
    BY <1>8 DEF Lock!Grant
  <2> QED BY <1>1, <2>1
<1> QED BY <1>2, <1>4, <1>5, <1>6, <1>7, <1>8 DEF Lock!LeaseNext

\* So a claim in force passes to nobody else before it ends, and whoever takes a task
\* over carries a larger fence than every holder before.
THEOREM LedgerKeepsLeasePromises ==
  LedgerSpec => Lock!NoStealing /\ Lock!NewHolderNewFence
<1>1. LedgerTypeOK /\ LeaseInv /\ [LedgerNext]_ledgerVars =>
        [LeasePromises]_(Lock!leaseVars)
  <2> SUFFICES ASSUME LedgerTypeOK, LeaseInv, [LedgerNext]_ledgerVars,
                      ~UNCHANGED Lock!leaseVars
               PROVE  LeasePromises
    OBVIOUS
  <2>1. \A t \in Tasks : ClaimOn(t).fence \in Nat
    BY ClaimOnIs DEF LeasesFit, LeaseFacts, Lock!Lease
  <2>2. Lock!LeaseNext
    BY LedgerStepIsLeaseStep
  <2> QED BY <2>1, <2>2, LeaseStepIsSafe
<1> DEFINE held == [t \in Tasks |-> ClaimOn(t)]
           Fenced ==
             \A r \in Tasks :
               /\ held'[r].fence >= held[r].fence
               /\ (held'[r].holder # held[r].holder /\ held'[r].holder # None) =>
                     held'[r].fence > held[r].fence
           Honoured ==
             \A r \in Tasks : Lock!InForce(r) => held'[r].holder \in {held[r].holder, None}
<1>2. LeasePromises => Fenced /\ Honoured
  BY DEF LeasePromises
<1>3. /\ Lock!NewHolderNewFence <=> [][Fenced]_(Lock!leaseVars)
      /\ Lock!NoStealing <=> [][Honoured]_(Lock!leaseVars)
  BY DEF Lock!NewHolderNewFence, Lock!NoStealing
<1> HIDE DEF Fenced, Honoured
<1>4. LedgerTypeOK /\ LeaseInv /\ [LedgerNext]_ledgerVars =>
        [Fenced]_(Lock!leaseVars) /\ [Honoured]_(Lock!leaseVars)
  BY <1>1, <1>2
<1> QED BY <1>3, <1>4, LeaseInvariant, PTL DEF LedgerSpec

-----------------------------------------------------------------------------
(* The tree under the ledger. *)

\* Whatever a ledger operation does besides, the tree sees one of its own four
\* operations or nothing.
LEMMA LedgerStepIsTreeStep == [LedgerNext]_ledgerVars => [TreeNext]_treeVars
<1> SUFFICES ASSUME [LedgerNext]_ledgerVars PROVE [TreeNext]_treeVars
  OBVIOUS
<1>1. CASE UNCHANGED ledgerVars
  BY <1>1 DEF ledgerVars
<1>2. CASE Tick
  BY <1>2 DEF Tick
<1>3. ASSUME NEW t \in Tasks, TaskOps(t)
      PROVE  [TreeNext]_treeVars
  <2>1. ASSUME NEW p \in Tasks \cup {NoTask}, NEW mode \in Modes, CreateTask(t, p, mode)
        PROVE  TreeNext
    BY <2>1 DEF CreateTask, TreeNext
  <2>2. ASSUME NEW cascade \in BOOLEAN, NEW p \in Principals, NEW now \in Sampled,
               SoftDelete(t, cascade, p, now)
        PROVE  TreeNext
    BY <2>2 DEF SoftDelete, TreeNext
  <2>3. CASE RestoreTask(t)
    BY <2>3 DEF RestoreTask, TreeNext
  <2>4. ASSUME NEW p \in Principals, NEW now \in Sampled, NEW force \in BOOLEAN,
               \/ \E cites \in SUBSET DOMAIN evidence : Complete(t, p, now, force, cites)
               \/ Cancel(t, p, now, force)
        PROVE  UNCHANGED treeVars
    BY <2>4 DEF Complete, Cancel, CloseExecution
  <2>5. ASSUME (\E mode \in Modes : UpdateTask(t, mode)) \/ \E to \in Statuses : Transition(t, to)
        PROVE  UNCHANGED treeVars
    BY <2>5 DEF UpdateTask, Transition
  <2>6. CASE \E p \in Principals, now \in Sampled, force \in BOOLEAN :
               \/ \E cites \in SUBSET DOMAIN evidence : Complete(t, p, now, force, cites)
               \/ Cancel(t, p, now, force)
               \/ SoftDelete(t, force, p, now)
    BY <2>2, <2>4, <2>6
  <2>7. CASE \E p \in Tasks \cup {NoTask}, mode \in Modes : CreateTask(t, p, mode)
    BY <2>1, <2>7
  <2>8. CASE \E p \in Tasks \cup {NoTask} : MoveTask(t, p)
    BY <2>8 DEF MoveTask, TreeNext
  <2> QED BY <1>3, <2>3, <2>5, <2>6, <2>7, <2>8 DEF TaskOps
<1>4. ASSUME NEW t \in Tasks, ClaimOps(t)
      PROVE  UNCHANGED treeVars
  BY <1>4, ClaimOpsWrite
<1>5. ASSUME NEW t \in Tasks, WorkOps(t)
      PROVE  UNCHANGED treeVars
  BY <1>5 DEF WorkOps, StartAttempt, OpenWait, CloseWait, AddEvidence
<1>6. ASSUME NEW a \in DOMAIN attempts, NEW to \in AttemptStatuses, NEW now \in Stated,
             TransitionAttempt(a, to, now)
      PROVE  UNCHANGED treeVars
  BY <1>6 DEF TransitionAttempt
<1> QED BY <1>1, <1>2, <1>3, <1>4, <1>5, <1>6 DEF LedgerNext

\* The ledger implements the decomposition tree on its own.
THEOREM LedgerImplementsTree == LedgerSpec => TreeSpec
<1>1. LedgerInit => TreeInit
  BY DEF LedgerInit
<1> QED BY <1>1, LedgerStepIsTreeStep, PTL DEF LedgerSpec, TreeSpec

\* So create, update, delete and restore, whatever claims, attempts and completions
\* surround them, leave no live commitment under a deleted one and close no loop.
THEOREM LedgerTreeIsSound == LedgerSpec => [](LiveChildHasLiveParent /\ Acyclic)
BY LedgerImplementsTree, TreeIsAcyclic, NoOrphans, PTL
=============================================================================
