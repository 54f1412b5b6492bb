----------------------------- MODULE TaskLedger -----------------------------
(***************************************************************************)
(* The commitment ledger of tasq-core: commitments (`task`), exclusive     *)
(* expiring claims (`task_claim`), execution attempts (`task_attempt`),    *)
(* evidence (`task_evidence`), wait conditions and completion records,     *)
(* with the operations of service/tasks.ts and service/agentic.ts.         *)
(*                                                                         *)
(* Every operation runs in one BEGIN IMMEDIATE transaction of the shared   *)
(* SQLite file, so it is one action; a refusal rolls back and is a stutter.*)
(* What is not atomic is the CLOCK: these services read it before they     *)
(* queue for the write lock, so a transaction that commits at `clock` may  *)
(* reason with any earlier `now` (see Sampled).                            *)
(*                                                                         *)
(* Rows are numbered in the order of insertion and are never removed: a    *)
(* row's number is its id, and an update is an EXCEPT.  Event rows and     *)
(* idempotency records, written by the same transactions, are the subject  *)
(* of Outbox; expectedRevision only strengthens a guard (it refuses        *)
(* otherwise), and what makes it useful is RevisionNamesTheContent below.  *)
(***************************************************************************)
EXTENDS TaskTree, Sequences

CONSTANTS
  Principals,    \* authenticated callers
  Forcers,       \* the callers that ever pass force ("a deliberate takeover")
  Deciders,      \* the callers that may refute the premise of a commitment
  LeaseLengths,  \* the leaseMs a caller may ask for
  None,          \* SQL NULL
  MaxLag,        \* how old a clock sample can be when its transaction commits
  Modes,         \* the completion modes in use, of "assertion" and "evidence"
  MaxClock,      \* bound of the instance: wall-clock time
  MaxTaskRev,    \* bound: revisions of a commitment
  MaxRev,        \* bound: revisions of a claim or an attempt
  MaxClaims, MaxAttempts, MaxEvidence, MaxWaits  \* bounds: rows of each kind

VARIABLES
  clock,         \* wall-clock time
  task,          \* task[t]: status, completion mode and revision of row t
  claims,        \* task_claim, a sequence
  attempts,      \* task_attempt, a sequence
  evidence,      \* task_evidence, a sequence
  completions,   \* completion_record, a sequence
  waits          \* waits[t]: creation times of the conditions still waiting

execVars == <<claims, attempts, evidence, completions, waits>>
ledgerVars == <<clock, task, execVars, treeVars>>

Statuses == {"open", "in_progress", "blocked", "done", "cancelled"}
Closed == {"done", "cancelled"}
AttemptStatuses == {"running", "input_required", "succeeded", "failed", "cancelled"}
ActiveAttempt == {"running", "input_required"}
ReleaseReasons == {"expired", "released", "task_done", "task_cancelled", "task_deleted",
                   "premise_invalidated"}
Times == Nat

ASSUME LedgerAssumption ==
  /\ Forcers \subseteq Principals /\ Deciders \subseteq Principals
  /\ LeaseLengths \subseteq Nat \ {0}
  /\ MaxLag \in Nat /\ MaxClock \in Nat
  /\ None \notin Principals \cup ReleaseReasons \cup Nat
  /\ Modes \subseteq {"assertion", "evidence"}

TaskRecord == [status : Statuses, mode : Modes, rev : Nat]
ClaimRecord ==
  [task : Tasks, holder : Principals, fence : Nat, acquired : Times, heartbeat : Times,
   expires : Times, reason : ReleaseReasons \cup {None},
   endedBy : Principals \cup {None}, ended : Times \cup {None}, rev : Nat]
AttemptRecord ==
  [task : Tasks, claim : Nat \cup {None}, by : Principals, status : AttemptStatuses,
   started : Times, updated : Times, rev : Nat]
EvidenceRecord == [task : Tasks, supersedes : Nat \cup {None}]
\* known: how many evidence rows existed when the task closed.
CompletionRecord == [task : Tasks, rev : Nat, cites : SUBSET Nat, known : Nat]

LedgerTypeOK ==
  /\ TreeTypeOK
  /\ clock \in Nat
  /\ task \in [Tasks -> TaskRecord]
  /\ claims \in Seq(ClaimRecord)
  /\ attempts \in Seq(AttemptRecord)
  /\ evidence \in Seq(EvidenceRecord)
  /\ completions \in Seq(CompletionRecord)
  /\ waits \in [Tasks -> SUBSET Times]

LedgerInit ==
  /\ TreeInit
  /\ clock = 0
  /\ task \in [Tasks -> [status : {"open"}, mode : Modes, rev : {0}]]
  /\ claims = << >>
  /\ attempts = << >>
  /\ evidence = << >>
  /\ completions = << >>
  /\ waits = [t \in Tasks |-> {}]

-----------------------------------------------------------------------------
(* Queries. *)

\* serviceNow() runs before runInTransaction: the sample a committing
\* transaction carries is at most MaxLag old and never from the future.
Sampled == {now \in 0..clock : clock <= now + MaxLag}

\* startTaskAttempt and transitionTaskAttempt take occurredAt from their caller: any
\* time, also one to come (bound: MaxClock); left out, it is the sample.
Stated == Sampled \cup 0..MaxClock

\* requireLiveTask plus the terminal check of its callers.
Workable(t) == row[t] = "live" /\ task[t].status \notin Closed

\* The claims of t with released_at IS NULL.
Unreleased(t) == {c \in DOMAIN claims : claims[c].task = t /\ claims[c].reason = None}

\* getActiveTaskClaim: unreleased and, by the caller's clock, not expired.
LiveClaims(t, now) == {c \in Unreleased(t) : claims[c].expires > now}

ActiveAttempts(t) ==
  {a \in DOMAIN attempts : attempts[a].task = t /\ attempts[a].status \in ActiveAttempt}

Superseded(e) == \E s \in DOMAIN evidence : evidence[s].supersedes = e

\* Wrong on purpose: the fence after that of the unreleased claim, if any.
FenceOfTheUnreleased(t) ==
  IF Unreleased(t) = {} THEN 1 ELSE 1 + claims[CHOOSE c \in Unreleased(t) : TRUE].fence

\* SELECT fence ... ORDER BY fence DESC LIMIT 1, plus one.
NextFence(t) ==
  1 + CHOOSE f \in 0..Len(claims) :
        /\ \A c \in DOMAIN claims : claims[c].task = t => claims[c].fence <= f
        /\ f = 0 \/ \E c \in DOMAIN claims : claims[c].task = t /\ claims[c].fence = f

\* Wrong on purpose: an expired claim of another caller still refuses.
NoRivalEver(t, p, now) == \A c \in Unreleased(t) : claims[c].holder = p

\* No claim that is live by the caller's clock belongs to another caller.
NoRival(t, p, now) == \A c \in LiveClaims(t, now) : claims[c].holder = p

\* A released claim: released_at and release_reason set, revision bumped.
Ended(c, reason, p, now) ==
  [claims[c] EXCEPT !.reason = reason, !.endedBy = p, !.ended = now, !.rev = @ + 1]

\* Wrong on purpose: an UPDATE that forgets released_at IS NULL.
EndEveryClaim(C, reason, p, now) ==
  [c \in DOMAIN claims |->
     IF \E d \in C : claims[d].task = claims[c].task THEN Ended(c, reason, p, now) ELSE claims[c]]

\* Every row of the set C released at once (UPDATE ... WHERE released_at IS NULL).
EndClaims(C, reason, p, now) ==
  [c \in DOMAIN claims |-> IF c \in C THEN Ended(c, reason, p, now) ELSE claims[c]]

\* Wrong on purpose: the revision is left alone.
RenewedSilently(c, now, until) ==
  [claims EXCEPT ![c].heartbeat = now, ![c].expires = until]

\* A renewed claim: later heartbeat and expiry, same holder and fence.
Renewed(c, now, until) ==
  [claims EXCEPT ![c].heartbeat = now, ![c].expires = until, ![c].rev = @ + 1]

\* Trigger task_claim_validate_update: released_at >= acquired_at, or the whole
\* transaction aborts.  A sample older than the claim meets it.
MayEnd(C, now) == \A c \in C : now >= claims[c].acquired

\* Trigger task_attempt_validate_update: ended_at >= started_at.
MayStop(A, now) == \A a \in A : now >= attempts[a].started /\ attempts[a].rev < MaxRev

\* The attempts of the set A cancelled at once.
Stopped(A, now) ==
  [a \in DOMAIN attempts |->
     IF a \in A
     THEN [attempts[a] EXCEPT !.status = "cancelled", !.updated = now, !.rev = @ + 1]
     ELSE attempts[a]]

Bump(t) == [task EXCEPT ![t].rev = @ + 1]
CanBump(t) == task[t].rev < MaxTaskRev
CanEnd(C) == \A c \in C : claims[c].rev < MaxRev

-----------------------------------------------------------------------------
(* Commitments: service/tasks.ts. *)

Tick ==
  /\ clock < MaxClock
  /\ clock' = clock + 1
  /\ UNCHANGED <<task, execVars, treeVars>>

CreateTask(t, p, mode) ==
  /\ CreateRow(t, p)
  /\ task' = [task EXCEPT ![t] = [status |-> "open", mode |-> mode, rev |-> 1]]
  /\ UNCHANGED <<clock, execVars>>

\* updateTaskInTransaction, any patch but a new parent: the completion mode of
\* a closed task cannot change, its other fields can (mode = task[t].mode).
UpdateTask(t, mode) ==
  /\ row[t] = "live"
  /\ CanBump(t)
  /\ mode # task[t].mode => task[t].status \notin Closed
  /\ ParentIsLive(parent[t])
  /\ task' = [Bump(t) EXCEPT ![t].mode = mode]
  /\ UNCHANGED <<clock, execVars, treeVars>>

\* The same call with a new parentTaskId.
MoveTask(t, p) ==
  /\ CanBump(t)
  /\ Reparent(t, p)
  /\ task' = Bump(t)
  /\ UNCHANGED <<clock, execVars>>

\* STATUS_TRANSITIONS.
Allowed(from) ==
  CASE from = "open"        -> {"in_progress", "blocked", "done", "cancelled"}
    [] from = "in_progress" -> {"open", "blocked", "done", "cancelled"}
    [] from = "blocked"     -> {"open", "in_progress", "done", "cancelled"}
    [] from = "done"        -> {"in_progress", "open"}
    [] from = "cancelled"   -> {"open"}

\* transitionTaskStatus to a status that does not close the task.
Transition(t, to) ==
  /\ row[t] = "live"
  /\ CanBump(t)
  /\ to \in Allowed(task[t].status) \ Closed
  /\ task' = [Bump(t) EXCEPT ![t].status = to]
  /\ UNCHANGED <<clock, execVars, treeVars>>

\* Wrong on purpose: whose claim it is, is not asked.
MayCloseForAnyone(t, p, now, force) ==
  /\ row[t] = "live" /\ CanBump(t) /\ ActiveAttempts(t) = {}
  /\ MayEnd(Unreleased(t), now) /\ CanEnd(Unreleased(t))

\* Wrong on purpose: an attempt may still be running.
MayCloseWhileRunning(t, p, now, force) ==
  /\ row[t] = "live" /\ CanBump(t)
  /\ \A c \in LiveClaims(t, now) : claims[c].holder = p \/ (force /\ p \in Forcers)
  /\ MayEnd(Unreleased(t), now) /\ CanEnd(Unreleased(t))

\* The guards transitionTaskStatus adds before a task closes: the live claim is
\* the caller's (or is overridden), and no attempt is still active.
MayClose(t, p, now, force) ==
  /\ row[t] = "live"
  /\ CanBump(t)
  /\ \A c \in LiveClaims(t, now) : claims[c].holder = p \/ (force /\ p \in Forcers)
  /\ ActiveAttempts(t) = {}
  /\ MayEnd(Unreleased(t), now)
  /\ \A w \in waits[t] : now >= w
  /\ CanEnd(Unreleased(t))

\* Wrong on purpose: superseded evidence may be cited.
MayCiteAny(t, cites) ==
  /\ task[t].mode = "evidence" => cites # {}
  /\ \A e \in cites : evidence[e].task = t

\* Evidence a completion may cite: of this task, and superseded by none.
MayCite(t, cites) ==
  /\ task[t].mode = "evidence" => cites # {}
  /\ \A e \in cites : evidence[e].task = t /\ ~Superseded(e)

\* What closing does besides the status: every unreleased claim is released and
\* every waiting condition is cancelled.
CloseExecution(t, to, p, now) ==
  /\ claims' = EndClaims(Unreleased(t), IF to = "done" THEN "task_done" ELSE "task_cancelled",
                         p, now)
  /\ waits' = [waits EXCEPT ![t] = {}]
  /\ task' = [Bump(t) EXCEPT ![t].status = to]
  /\ UNCHANGED <<clock, attempts, evidence, treeVars>>

\* transitionTaskStatus to "done".
Complete(t, p, now, force, cites) ==
  /\ "done" \in Allowed(task[t].status)
  /\ MayClose(t, p, now, force)
  /\ MayCite(t, cites)
  /\ CloseExecution(t, "done", p, now)
  /\ completions' = Append(completions,
       [task |-> t, rev |-> task[t].rev + 1, cites |-> cites, known |-> Len(evidence)])

\* transitionTaskStatus to "cancelled".
Cancel(t, p, now, force) ==
  /\ "cancelled" \in Allowed(task[t].status)
  /\ MayClose(t, p, now, force)
  /\ CloseExecution(t, "cancelled", p, now)
  /\ UNCHANGED completions

\* The rows whose execution a deletion closes: the task and its live subtree.
Doomed(t) == LiveSubtree(t)

\* softDeleteTask with closeAgentExecutionForDeletion on every doomed row: claims
\* released, active attempts cancelled, waits cancelled, whoever holds the claim.
SoftDelete(t, cascade, p, now) ==
  LET doomed == Doomed(t)
      theirClaims == UNION {Unreleased(u) : u \in doomed}
      theirAttempts == UNION {ActiveAttempts(u) : u \in doomed}
  IN  /\ DeleteRow(t, cascade)
      /\ \A u \in doomed : CanBump(u) /\ \A w \in waits[u] : now >= w
      /\ MayEnd(theirClaims, now) /\ CanEnd(theirClaims)
      /\ MayStop(theirAttempts, now)
      /\ claims' = EndClaims(theirClaims, "task_deleted", p, now)
      /\ attempts' = Stopped(theirAttempts, now)
      /\ waits' = [u \in Tasks |-> IF u \in doomed THEN {} ELSE waits[u]]
      /\ task' = [u \in Tasks |-> IF u \in doomed THEN [task[u] EXCEPT !.rev = @ + 1]
                                                  ELSE task[u]]
      /\ UNCHANGED <<clock, evidence, completions>>

RestoreTask(t) ==
  /\ CanBump(t)
  /\ RestoreRow(t)
  /\ task' = Bump(t)
  /\ UNCHANGED <<clock, execVars>>

-----------------------------------------------------------------------------
(* Claims: service/agentic.ts. *)

\* What acquireTaskClaim asks of other services in its transaction: an
\* invalidated premise, a withdrawn assumption or an exceeded budget refuses;
\* unresolved blockers refuse unless forced (any caller may force that).  When they
\* answer which is the subject of Readiness.
GateAnswers == {"clear", "blocked", "refused"}

AcquireClaim(t, p, now, lease, gate, force) ==
  /\ Workable(t)
  /\ gate = "clear" \/ (gate = "blocked" /\ force)
  /\ \A c \in Unreleased(t) : now >= claims[c].heartbeat
  /\ NoRival(t, p, now)
  /\ \/ \* the caller's own live claim: renew it
        \E c \in LiveClaims(t, now) :
          /\ claims[c].rev < MaxRev
          /\ claims' = Renewed(c, now, now + lease)
     \/ \* none, or an expired one to release first: a new row, a higher fence
        /\ LiveClaims(t, now) = {}
        /\ Len(claims) < MaxClaims
        /\ CanEnd(Unreleased(t))
        /\ claims' = Append(EndClaims(Unreleased(t), "expired", p, now),
             [task |-> t, holder |-> p, fence |-> NextFence(t), acquired |-> now,
              heartbeat |-> now, expires |-> now + lease, reason |-> None,
              endedBy |-> None, ended |-> None, rev |-> 1])
  /\ UNCHANGED <<clock, task, attempts, evidence, completions, waits, treeVars>>

\* Wrong on purpose: a sample older than the claim may end it.
ReleaseByAnySample(t, p, now, force) ==
  /\ row[t] = "live"
  /\ \E c \in Unreleased(t) :
       /\ claims[c].holder = p \/ (force /\ p \in Forcers)
       /\ claims[c].rev < MaxRev
       /\ claims' = [claims EXCEPT ![c] =
            Ended(c, IF claims[c].expires <= now THEN "expired" ELSE "released", p, now)]
  /\ UNCHANGED <<clock, task, attempts, evidence, completions, waits, treeVars>>

ReleaseClaim(t, p, now, force) ==
  /\ row[t] = "live"
  /\ \E c \in Unreleased(t) :
       /\ now >= claims[c].acquired
       /\ claims[c].holder = p \/ (force /\ p \in Forcers)
       /\ claims[c].rev < MaxRev
       /\ claims' = [claims EXCEPT ![c] =
            Ended(c, IF claims[c].expires <= now THEN "expired" ELSE "released", p, now)]
  /\ UNCHANGED <<clock, task, attempts, evidence, completions, waits, treeVars>>

\* decideTaskPremise accepts a refutation (premises.ts): whoever holds a claim of the
\* commitment loses it and its attempts are cancelled, closed and deleted
\* commitments included.
RefutePremise(t, p, now) ==
  /\ p \in Deciders
  /\ row[t] # "absent"
  /\ MayEnd(Unreleased(t), now) /\ CanEnd(Unreleased(t))
  /\ MayStop(ActiveAttempts(t), now)
  /\ claims' = EndClaims(Unreleased(t), "premise_invalidated", p, now)
  /\ attempts' = Stopped(ActiveAttempts(t), now)
  /\ UNCHANGED <<clock, task, evidence, completions, waits, treeVars>>

-----------------------------------------------------------------------------
(* Attempts, evidence and waits. *)

\* The claim an attempt is bound to: the one named, else the active one, else none;
\* active at the time the caller states (Stated).
StartAttempt(t, p, now, named) ==
  /\ Workable(t)
  /\ Len(attempts) < MaxAttempts
  /\ NoRival(t, p, now)
  /\ named # None => /\ named \in LiveClaims(t, now)
                     /\ claims[named].holder = p
  /\ \E bound \in DOMAIN claims \cup {None} :
       /\ named # None => bound = named
       /\ named = None => IF LiveClaims(t, now) = {} THEN bound = None
                                                    ELSE bound \in LiveClaims(t, now)
       /\ attempts' = Append(attempts,
            [task |-> t, claim |-> bound, by |-> p, status |-> "running",
             started |-> now, updated |-> now, rev |-> 1])
  /\ UNCHANGED <<clock, task, claims, evidence, completions, waits, treeVars>>

\* transitionTaskAttempt checks neither the claim nor the caller, only that the
\* attempt is not terminal and that time does not run backwards.
TransitionAttempt(a, to, now) ==
  /\ attempts[a].status \in ActiveAttempt
  /\ now >= attempts[a].started /\ now >= attempts[a].updated
  /\ attempts[a].rev < MaxRev
  /\ attempts' = [attempts EXCEPT ![a].status = to, ![a].updated = now, ![a].rev = @ + 1]
  /\ UNCHANGED <<clock, task, claims, evidence, completions, waits, treeVars>>

\* addTaskEvidence, also on a closed task, optionally superseding a row of it.
AddEvidence(t, supersedes) ==
  /\ row[t] = "live"
  /\ Len(evidence) < MaxEvidence
  /\ supersedes # None => evidence[supersedes].task = t
  /\ evidence' = Append(evidence, [task |-> t, supersedes |-> supersedes])
  /\ UNCHANGED <<clock, task, claims, attempts, completions, waits, treeVars>>

\* createWaitCondition.
OpenWait(t, now) ==
  /\ Workable(t)
  /\ now \notin waits[t]
  /\ Cardinality(waits[t]) < MaxWaits
  /\ waits' = [waits EXCEPT ![t] = @ \cup {now}]
  /\ UNCHANGED <<clock, task, claims, attempts, evidence, completions, treeVars>>

\* A waiting condition is satisfied, expires or is cancelled by a caller.
CloseWait(t, w, now) ==
  /\ w \in waits[t]
  /\ now >= w
  /\ waits' = [waits EXCEPT ![t] = @ \ {w}]
  /\ UNCHANGED <<clock, task, claims, attempts, evidence, completions, treeVars>>

-----------------------------------------------------------------------------
TaskOps(t) ==
  \/ \E p \in Tasks \cup {NoTask}, mode \in Modes : CreateTask(t, p, mode)
  \/ \E p \in Tasks \cup {NoTask} : MoveTask(t, p)
  \/ \E mode \in Modes : UpdateTask(t, mode)
  \/ \E to \in Statuses : Transition(t, to)
  \/ \E p \in Principals, now \in Sampled, force \in BOOLEAN :
       \/ \E cites \in SUBSET DOMAIN evidence : Complete(t, p, now, force, cites)
       \/ Cancel(t, p, now, force)
       \/ SoftDelete(t, force, p, now)
  \/ RestoreTask(t)

ClaimOps(t) ==
  \E p \in Principals, now \in Sampled, force \in BOOLEAN :
    \/ \E lease \in LeaseLengths, gate \in GateAnswers :
         AcquireClaim(t, p, now, lease, gate, force)
    \/ ReleaseClaim(t, p, now, force)
    \/ RefutePremise(t, p, now)

WorkOps(t) ==
  \/ \E now \in Stated, p \in Principals, named \in DOMAIN claims \cup {None} :
       StartAttempt(t, p, now, named)
  \/ \E now \in Sampled :
       \/ OpenWait(t, now)
       \/ \E w \in waits[t] : CloseWait(t, w, now)
  \/ \E supersedes \in DOMAIN evidence \cup {None} : AddEvidence(t, supersedes)

LedgerNext ==
  \/ Tick
  \/ \E t \in Tasks : TaskOps(t) \/ ClaimOps(t) \/ WorkOps(t)
  \/ \E a \in DOMAIN attempts, to \in AttemptStatuses, now \in Stated :
       TransitionAttempt(a, to, now)

LedgerSpec == LedgerInit /\ [][LedgerNext]_ledgerVars

-----------------------------------------------------------------------------
(* What the ledger promises. *)

\* A closed, tombstoned or missing commitment has no unreleased claim, no active
\* attempt and no waiting condition, in whatever order workers claim, start,
\* close, delete and restore (tasks.ts:1003, "A durable commitment cannot become
\* terminal while an execution attempt still claims to be running").
ClosedIsQuiet ==
  \A t \in Tasks : ~Workable(t) =>
    Unreleased(t) = {} /\ ActiveAttempts(t) = {} /\ waits[t] = {}

\* Two agents racing to replace a stale claim cannot both win it
\* (agentic.ts:275): a task has at most one unreleased claim.
OneUnreleasedClaim ==
  \A t \in Tasks : \A c, d \in Unreleased(t) : c = d

\* The claims of a task take turns, in the order of their rows: an earlier claim is
\* released, not before it was acquired, and by its recorded times at most the lag
\* of a clock sample after its successor was acquired (agentic.ts:275, "Two agents
\* racing to replace a stale claim cannot both win it").
ClaimsTakeTurns ==
  /\ \A c \in DOMAIN claims :
       claims[c].reason # None => claims[c].ended \in claims[c].acquired..clock
  /\ \A d \in DOMAIN claims : \A c \in 1..(d - 1) :
       claims[c].task = claims[d].task =>
         claims[c].reason # None /\ claims[c].ended <= claims[d].acquired + MaxLag

\* Fencing: among the claims of a task, a later row has a larger fence, so a
\* worker that lost its claim never holds a token as large as its successor's.
FencesGrow ==
  \A c, d \in DOMAIN claims :
    (c < d /\ claims[c].task = claims[d].task) => claims[c].fence < claims[d].fence

\* A closed commitment in evidence mode rests on a completion record that cites
\* evidence of that commitment, none of it superseded when the task closed, and
\* no later record contradicts it.  The mode may be switched and the evidence
\* superseded by another caller right before or after the completion.
DoneOnEvidence ==
  \A t \in Tasks :
    (task[t].status = "done" /\ task[t].mode = "evidence") =>
      \E k \in DOMAIN completions :
        /\ completions[k].task = t
        /\ completions[k].cites # {}
        /\ \A e \in completions[k].cites : e \in DOMAIN evidence /\ evidence[e].task = t
        /\ \A s \in DOMAIN evidence :
             evidence[s].supersedes \in completions[k].cites => s > completions[k].known
        /\ \A j \in DOMAIN completions :
             completions[j].task = t => completions[j].rev <= completions[k].rev

\* An expired or released claim leaves the task to anyone who asks ("a crashed
\* worker never blocks", tasks.ts:857): with nothing live on it, every
\* principal can take a workable task at once.
ExpiryFreesTheTask ==
  \A t \in Tasks, p \in Principals :
    ( /\ Workable(t) /\ LiveClaims(t, clock) = {}
      /\ Len(claims) < MaxClaims /\ CanEnd(Unreleased(t)) ) =>
    \E lease \in LeaseLengths : ENABLED AcquireClaim(t, p, clock, lease, "clear", FALSE)

\* While a claim is live by the wall clock, only its holder, a caller who forces
\* it, or the end of the task or its premise ends it; nobody else closes the task and
\* nobody is told that it expired (README.md:38), however old the clock sample
\* of the transaction that ends it.
NoSilentTakeover ==
  [][\A c \in DOMAIN claims :
       (claims[c].reason = None /\ claims'[c].reason # None /\ clock < claims[c].expires) =>
         \/ claims'[c].endedBy = claims[c].holder
         \/ claims'[c].endedBy \in Forcers
         \/ claims'[c].reason \in {"task_deleted", "premise_invalidated"}]_ledgerVars

\* Compare-and-set on a revision is sound: a commitment, claim or attempt whose
\* revision did not move did not change, and a change moves it by one.
RevisionNamesTheContent ==
  [][/\ \A t \in Tasks :
          <<task'[t], row'[t], parent'[t]>> # <<task[t], row[t], parent[t]>> =>
             task'[t].rev = task[t].rev + 1
     /\ \A c \in DOMAIN claims :
          claims'[c] # claims[c] => claims'[c].rev = claims[c].rev + 1
     /\ \A a \in DOMAIN attempts :
          attempts'[a] # attempts[a] => attempts'[a].rev = attempts[a].rev + 1]_ledgerVars

\* History is append-only (0007_agent_invariants.sql): no operation rewrites a
\* released claim, a terminal attempt, evidence or a completion record.
HistoryIsImmutable ==
  [][/\ \A c \in DOMAIN claims : claims[c].reason # None => claims'[c] = claims[c]
     /\ \A a \in DOMAIN attempts :
          attempts[a].status \notin ActiveAttempt => attempts'[a] = attempts[a]
     /\ \A e \in DOMAIN evidence : evidence'[e] = evidence[e]
     /\ \A k \in DOMAIN completions : completions'[k] = completions[k]]_ledgerVars

\* The implemented promise: the claim of a task is a fenced lease on it.
HeldClaim(t) == CHOOSE c \in Unreleased(t) : TRUE

ClaimOn(t) ==
  IF Unreleased(t) = {}
  THEN [holder |-> None, fence |-> NextFence(t) - 1, until |-> 0]
  ELSE [holder |-> claims[HeldClaim(t)].holder, fence |-> claims[HeldClaim(t)].fence,
        until |-> claims[HeldClaim(t)].expires]

Lock == INSTANCE FencedLease
          WITH Resources <- Tasks, Holders <- Principals, Nobody <- None,
               time <- clock, lease <- [t \in Tasks |-> ClaimOn(t)]

\* Every history of claims is a history of the abstract fenced lease, although
\* each transaction decides on a clock sample taken before it got the lock.
ImplementsFencedLease == Lock!LeaseSpec
=============================================================================
