------------------------------ MODULE TaskTree ------------------------------
(***************************************************************************)
(* The decomposition of commitments into sub-commitments: the parent link  *)
(* and the tombstone of the `task` table, and the four operations of       *)
(* tasq-core/src/service/tasks.ts that move them (createTask, updateTask   *)
(* with a new parentTaskId, softDeleteTask, restoreTask).  Each of them is *)
(* one BEGIN IMMEDIATE transaction, so each is one action.                 *)
(*                                                                         *)
(* Walks over the tree are loops in the code.  Here they are the least set *)
(* closed under the step of the walk, which needs no recursion.            *)
(***************************************************************************)
EXTENDS Naturals, FiniteSets

CONSTANTS
  Tasks,      \* the identifiers a task row can have
  NoTask,     \* parent_task_id IS NULL
  MaxDepth    \* MAX_TASK_DEPTH (5 in tasq-schema/src/types.ts)

ASSUME NoTaskAssumption == NoTask \notin Tasks
ASSUME MaxDepthAssumption == MaxDepth \in Nat \ {0}

VARIABLES
  row,        \* row[t]: "absent", "live" or "deleted" (deleted_at IS NOT NULL)
  parent      \* parent[t]: parent_task_id

treeVars == <<row, parent>>

RowStates == {"absent", "live", "deleted"}

TreeTypeOK ==
  /\ row \in [Tasks -> RowStates]
  /\ parent \in [Tasks -> Tasks \cup {NoTask}]

TreeInit ==
  /\ row = [t \in Tasks |-> "absent"]
  /\ parent = [t \in Tasks |-> NoTask]

-----------------------------------------------------------------------------
(* The walks. *)

\* Closed under parent_task_id, whatever the tombstones say.
ClosedUp(S) == \A u \in S : parent[u] # NoTask => parent[u] \in S

\* The proper ancestors of t: the rows the upward walk of getTaskDepth visits.
Ancestors(t) ==
  {a \in Tasks : /\ parent[t] # NoTask
                  /\ \A S \in SUBSET Tasks :
                       (parent[t] \in S /\ ClosedUp(S)) => a \in S}

\* Closed under "live direct subtask of" (liveSubtaskIds).
ClosedDown(S) == \A u \in Tasks : (row[u] = "live" /\ parent[u] \in S) => u \in S

\* t and everything the downward walk over live subtasks reaches.
LiveSubtree(t) ==
  {u \in Tasks : \A S \in SUBSET Tasks : (t \in S /\ ClosedDown(S)) => u \in S}

LiveChildren(t) == {u \in Tasks : row[u] = "live" /\ parent[u] = t}

\* getTaskDepth counts every ancestor, tombstoned ones too ...
Depth(t) == 1 + Cardinality(Ancestors(t))

\* ... while subtreeHeight descends through live subtasks only.
Height(t) ==
  LET level(u) == 1 + Cardinality(Ancestors(u) \cap LiveSubtree(t))
  IN  CHOOSE h \in 1..Cardinality(Tasks) :
        /\ \E u \in LiveSubtree(t) : level(u) = h
        /\ \A u \in LiveSubtree(t) : level(u) <= h

\* resolveScope of the flat policy: the named parent exists and is not deleted.
ParentIsLive(p) == p # NoTask => row[p] = "live"

-----------------------------------------------------------------------------
(* The operations. *)

\* createTaskInTransaction with an optional parent.
CreateRow(t, p) ==
  /\ row[t] = "absent"
  /\ p # t
  /\ ParentIsLive(p)
  /\ p # NoTask => Depth(p) + 1 <= MaxDepth
  /\ row' = [row EXCEPT ![t] = "live"]
  /\ parent' = [parent EXCEPT ![t] = p]

\* Wrong on purpose: forgets to look for a cycle.
ReparentBlindly(t, p) ==
  /\ row[t] = "live" /\ p # parent[t] /\ p # t /\ ParentIsLive(p)
  /\ parent' = [parent EXCEPT ![t] = p]
  /\ UNCHANGED row

\* updateTaskInTransaction that names a different parentTaskId.
Reparent(t, p) ==
  /\ row[t] = "live"
  /\ p # parent[t]
  /\ p # t
  /\ p # NoTask => /\ t \notin Ancestors(p)
                   /\ Depth(p) + Height(t) <= MaxDepth
  /\ ParentIsLive(p)
  /\ parent' = [parent EXCEPT ![t] = p]
  /\ UNCHANGED row

\* softDeleteTask: the live subtree goes too, and only when asked to.
DeleteRow(t, cascade) ==
  /\ row[t] = "live"
  /\ LiveChildren(t) # {} => cascade
  /\ row' = [u \in Tasks |-> IF u \in LiveSubtree(t) THEN "deleted" ELSE row[u]]
  /\ UNCHANGED parent

\* Wrong on purpose: restores the row whatever became of its parent.
RestoreAnyRow(t) ==
  row[t] = "deleted" /\ row' = [row EXCEPT ![t] = "live"] /\ UNCHANGED parent

\* restoreTaskInTransaction: one row, and only under a live parent.
RestoreRow(t) ==
  /\ row[t] = "deleted"
  /\ ParentIsLive(parent[t])
  /\ row' = [row EXCEPT ![t] = "live"]
  /\ UNCHANGED parent

TreeNext ==
  \E t \in Tasks :
    \/ \E p \in Tasks \cup {NoTask} : CreateRow(t, p) \/ Reparent(t, p)
    \/ \E cascade \in BOOLEAN : DeleteRow(t, cascade)
    \/ RestoreRow(t)

TreeSpec == TreeInit /\ [][TreeNext]_treeVars

-----------------------------------------------------------------------------
(* What the tree promises. *)

\* A live commitment never hangs under a tombstoned or missing one: cascade,
\* restore, create and reparent, in any order, leave no orphan.
LiveChildHasLiveParent ==
  \A t \in Tasks : (row[t] = "live" /\ parent[t] # NoTask) => row[parent[t]] = "live"

\* No commitment is its own ancestor, although every reparent is checked
\* against the tree of its own transaction only (tasks.ts:595, "classic
\* concurrent A->B / B->A race").
Acyclic == \A t \in Tasks : t \notin Ancestors(t)
=============================================================================
