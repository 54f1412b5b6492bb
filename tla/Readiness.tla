----------------------------- MODULE Readiness ------------------------------
(***************************************************************************)
(* What may be worked on next: dependencies between commitments, the       *)
(* assumptions they rest on and the premises they were made for.           *)
(*                                                                         *)
(* A dependency is kept twice.  `commitment_relation` is the authority, and*)
(* a claim is refused by it (collaboration.ts); `task_dependency` is the   *)
(* table of the first version, and the next-action queue reads that one    *)
(* (dependencies.ts, prioritizer.ts).  Each of the two interfaces writes   *)
(* both tables, and looks for cycles in its own.                           *)
(*                                                                         *)
(* Every operation is one BEGIN IMMEDIATE transaction, hence one action.   *)
(* Manually blocked and started commitments count as open: neither the     *)
(* blockers nor the claim ask for more.                                    *)
(***************************************************************************)
EXTENDS Naturals

CONSTANTS
  Tasks,     \* commitments
  Texts,     \* normalised sentences of assumptions
  Resting,   \* the commitments that assumptions are ever attached to
  Premised   \* the commitments created with a motivating premise

ASSUME ReadinessAssumption == Resting \subseteq Tasks /\ Premised \subseteq Tasks

VARIABLES
  status,       \* status[t]: "open" or "closed" (done or cancelled)
  deleted,      \* the commitments with deleted_at
  dependency,   \* dependency[e]: the `blocks` rows of task_dependency for the edge e
  relation,     \* relation[e]: the active `depends_on` row of commitment_relation
  standing,     \* the texts with a standing assumption row
  rests,        \* <<t, x>>: an active link from t to the standing row of x
  paused,       \* the commitments with an active link to a withdrawn row
  invalidated   \* the commitments whose premise was refuted

graphVars == <<dependency, relation>>
workVars == <<status, deleted>>
beliefVars == <<standing, rests, paused, invalidated>>
readinessVars == <<graphVars, workVars, beliefVars>>

\* <<f, t>>: f depends on t.
Edges == {e \in Tasks \X Tasks : e[1] # e[2]}

ReadinessTypeOK ==
  /\ status \in [Tasks -> {"open", "closed"}]
  /\ deleted \in SUBSET Tasks
  \* no row yet, tombstones only, or a live row
  /\ dependency \in [Edges -> {"never", "ended", "live"}]
  \* none, one with the id of the live task_dependency row, or one with its own id
  /\ relation \in [Edges -> {"none", "twin", "stranger"}]
  /\ standing \in SUBSET Texts
  /\ rests \in SUBSET (Tasks \X Texts)
  /\ paused \in SUBSET Tasks
  /\ invalidated \in SUBSET Tasks

ReadinessInit ==
  /\ status = [t \in Tasks |-> "open"]
  /\ deleted = {}
  /\ dependency = [e \in Edges |-> "never"]
  /\ relation = [e \in Edges |-> "none"]
  /\ standing = {} /\ rests = {} /\ paused = {} /\ invalidated = {}

-----------------------------------------------------------------------------
(* Queries. *)

LiveDependencies == {e \in Edges : dependency[e] = "live"}
ActiveRelations == {e \in Edges : relation[e] # "none"}

Workable == {t \in Tasks : status[t] = "open" /\ t \notin deleted}

\* What a walk along E that starts at t reaches: the least closed set with t in it.
Reached(t, E) ==
  {u \in Tasks : \A S \in SUBSET Tasks :
     (t \in S /\ \A e \in E : e[1] \in S => e[2] \in S) => u \in S}

\* Wrong on purpose: looks one step ahead only.
NoMutualEdge(f, t, E) == <<t, f>> \notin E

\* assertNoDependencyCycle on one table and assertNoCycle on the other: from the
\* blocker, the walk never comes back to the dependent.
NoCycle(f, t, E) == f \notin Reached(t, E)

\* unresolvedBlockers: what the claim asks.
Blockers(t) == {u \in Workable : <<t, u>> \in ActiveRelations}

\* What acquireTaskClaim asks besides other claims and the budget.
Claimable(t) ==
  /\ t \in Workable
  /\ t \notin invalidated
  /\ t \notin paused
  /\ Blockers(t) = {}

\* pickNext over the commitments that match its filter.  The rows it loaded are
\* also its map of blocker statuses, so a blocker outside the filter is resolved.
\* The code asks for rows, premises, assumptions and edges one after the other; they
\* are taken of one moment, since what is offered may be taken back at any later one.
Offered(filter) ==
  {t \in Workable \cap filter :
     /\ t \notin invalidated
     /\ t \notin paused
     /\ \A u \in Workable \cap filter : <<t, u>> \notin LiveDependencies}

-----------------------------------------------------------------------------
(* Dependencies. *)

Present(f, t) == f \notin deleted /\ t \notin deleted

\* dependTask: a live row is returned as it is, a tombstone comes back with its
\* old id, and a relation with an id of its own is added unless one is active.
Depend(f, t) ==
  /\ Present(f, t)
  /\ NoCycle(f, t, LiveDependencies)
  /\ dependency[<<f, t>>] # "live"
  /\ dependency' = [dependency EXCEPT ![<<f, t>>] = "live"]
  /\ relation' = [relation EXCEPT ![<<f, t>>] =
       IF @ # "none" THEN @ ELSE IF dependency[<<f, t>>] = "never" THEN "twin" ELSE "stranger"]
  /\ UNCHANGED <<workVars, beliefVars>>

\* Wrong on purpose: the authority keeps the relation.
UndependRow(f, t) ==
  /\ dependency[<<f, t>>] = "live"
  /\ dependency' = [dependency EXCEPT ![<<f, t>>] = "ended"]
  /\ UNCHANGED <<relation, workVars, beliefVars>>

\* undependTask: the row goes, and the relation of the same two commitments.
Undepend(f, t) ==
  /\ dependency[<<f, t>>] = "live"
  /\ dependency' = [dependency EXCEPT ![<<f, t>>] = "ended"]
  /\ relation' = [relation EXCEPT ![<<f, t>>] = "none"]
  /\ UNCHANGED <<workVars, beliefVars>>

\* addCommitmentRelation: the same id in both tables, each of which refuses a
\* second live row for the edge (uniq_commitment_relation_active, uniq_task_dep).
AddRelation(f, t) ==
  /\ Present(f, t)
  /\ NoCycle(f, t, ActiveRelations)
  /\ relation[<<f, t>>] = "none" /\ dependency[<<f, t>>] # "live"
  /\ relation' = [relation EXCEPT ![<<f, t>>] = "twin"]
  /\ dependency' = [dependency EXCEPT ![<<f, t>>] = "live"]
  /\ UNCHANGED <<workVars, beliefVars>>

\* endCommitmentRelation: of task_dependency it ends the row with the same id.
EndRelation(f, t) ==
  /\ relation[<<f, t>>] # "none"
  /\ relation' = [relation EXCEPT ![<<f, t>>] = "none"]
  /\ dependency' = [dependency EXCEPT ![<<f, t>>] =
       IF relation[<<f, t>>] = "twin" THEN "ended" ELSE @]
  /\ UNCHANGED <<workVars, beliefVars>>

-----------------------------------------------------------------------------
(* Commitments, as far as their blockers see them. *)

Close(t) ==
  /\ t \in Workable
  /\ status' = [status EXCEPT ![t] = "closed"]
  /\ UNCHANGED <<deleted, graphVars, beliefVars>>

Reopen(t) ==
  /\ status[t] = "closed" /\ t \notin deleted
  /\ status' = [status EXCEPT ![t] = "open"]
  /\ UNCHANGED <<deleted, graphVars, beliefVars>>

\* Edges, links and premises of a deleted commitment stay.
Delete(t) ==
  /\ t \notin deleted
  /\ deleted' = deleted \cup {t}
  /\ UNCHANGED <<status, graphVars, beliefVars>>

Restore(t) ==
  /\ t \in deleted
  /\ deleted' = deleted \ {t}
  /\ UNCHANGED <<status, graphVars, beliefVars>>

-----------------------------------------------------------------------------
(* Assumptions and premises. *)

\* attachInTransaction: find or create the standing row, then link.
Attach(t, x) ==
  /\ t \in Resting \ deleted
  /\ standing' = standing \cup {x}
  /\ rests' = rests \cup {<<t, x>>}
  /\ UNCHANGED <<paused, invalidated, graphVars, workVars>>

\* withdrawAssumption: every link to the row counts from now on, also that of a
\* closed or deleted commitment.  Of a row that is withdrawn it is a replay.
Withdraw(x) ==
  /\ x \in standing
  /\ standing' = standing \ {x}
  /\ rests' = {l \in rests : l[2] # x}
  /\ paused' = paused \cup {t \in Tasks : <<t, x>> \in rests}
  /\ UNCHANGED <<invalidated, graphVars, workVars>>

\* resumeCommitment: unlinks every withdrawn row, and no standing one.
Resume(t) ==
  /\ t \in paused
  /\ paused' = paused \ {t}
  /\ UNCHANGED <<standing, rests, invalidated, graphVars, workVars>>

\* decideTaskPremise accepts a refutation.  It is not taken back.
Refute(t) ==
  /\ t \in Premised \ invalidated
  /\ invalidated' = invalidated \cup {t}
  /\ UNCHANGED <<standing, rests, paused, graphVars, workVars>>

ReadinessNext ==
  \/ \E e \in Edges :
       \/ Depend(e[1], e[2]) \/ Undepend(e[1], e[2])
       \/ AddRelation(e[1], e[2]) \/ EndRelation(e[1], e[2])
  \/ \E t \in Tasks :
       \/ Close(t) \/ Reopen(t) \/ Delete(t) \/ Restore(t) \/ Resume(t) \/ Refute(t)
       \/ \E x \in Texts : Attach(t, x)
  \/ \E x \in Texts : Withdraw(x)

ReadinessSpec == ReadinessInit /\ [][ReadinessNext]_readinessVars

-----------------------------------------------------------------------------
(* Properties. *)

\* What the queue offers, the claim grants (prioritizer.ts and agentic.ts:193):
\* the two read different tables, written by two interfaces.
OfferedIsClaimable == \A t \in Offered(Tasks) : Claimable(t)

\* However the two interfaces are mixed, no commitments wait for each other: of any
\* set of open commitments, one waits for none of the set (assertNoDependencyCycle
\* and assertNoCycle, which walk different tables).
SomebodyCanMove ==
  \A S \in SUBSET Workable : S # {} => \E t \in S : Blockers(t) \cap S = {}

\* The edges the claim obeys are edges the queue sees.
RelationsAreSeen == ActiveRelations \subseteq LiveDependencies

\* No set of commitments has an active relation out of each member into the set.
RelationsAreWellFounded ==
  \A S \in SUBSET Tasks :
    S # {} => \E t \in S : \A u \in S : <<t, u>> \notin ActiveRelations

\* dependencies.ts:253 calls the older interface "a transactional compatibility adapter
\* instead of a second graph".
NoSecondGraph == LiveDependencies \subseteq ActiveRelations

\* prioritizer.ts:274 says the blocker statuses are "built from the UNFILTERED candidate
\* rows (every live open/in_progress/blocked task in the tenant)"; the rows are those
\* that the area, goal, project or priority asked for leaves.
FilteredOfferIsClaimable == \A filter \in SUBSET Tasks : \A t \in Offered(filter) : Claimable(t)
=============================================================================
