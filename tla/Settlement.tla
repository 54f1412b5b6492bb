----------------------------- MODULE Settlement -----------------------------
(***************************************************************************)
(* What becomes owed after an obligation of an agreement (settlement.ts):  *)
(* decisions that settle it, decisions of recourse against such a one, the *)
(* entitlement of each decision, which is an ordinary commitment, and the  *)
(* effects proposed on that commitment (effects.ts).                       *)
(*                                                                         *)
(* One obligation.  The facts of the obligation that policies look at are  *)
(* left out: any policy may apply at any time.  A decision has at most one *)
(* entitlement, and that at most one attempt.                              *)
(***************************************************************************)
EXTENDS Naturals, Sequences

CONSTANTS MaxDecisions, MaxEffects  \* bounds: rows of settlement_decision and effect

ASSUME SettlementAssumption == MaxDecisions \in Nat /\ MaxEffects \in Nat

VARIABLES
  decisions,  \* settlement_decision with its materialization
  task,       \* task[d]: status of the commitment d created
  revived,    \* the commitments that were closed and opened again
  attempt,    \* attempt[d]: the attempt on that commitment
  effects     \* effect: the decision whose commitment it is for, whether it names the
              \* attempt, and its status

settlementVars == <<decisions, task, revived, attempt, effects>>

Decisions == DOMAIN decisions
EffectRows == DOMAIN effects

Statuses == {"none", "open", "in_progress", "blocked", "done", "cancelled"}

\* 0 is NULL in references to decisions and effects.
DecisionRecord ==
  [kind : {"settlement", "recourse"}, prior : Nat, supersedes : Nat,
   entitled : BOOLEAN, effect : Nat]

EffectRecord ==
  [for : Nat, attached : BOOLEAN,
   status : {"proposed", "authorized", "executing", "indeterminate",
             "committed", "failed", "cancelled"}]

SettlementTypeOK ==
  /\ decisions \in Seq(DecisionRecord)
  /\ task \in Seq(Statuses)
  /\ revived \in SUBSET Nat
  /\ attempt \in Seq({"none", "running", "ended"})
  /\ effects \in Seq(EffectRecord)
  /\ Len(task) = Len(decisions) /\ Len(attempt) = Len(decisions)

SettlementInit ==
  /\ decisions = <<>> /\ task = <<>> /\ revived = {} /\ attempt = <<>> /\ effects = <<>>

-----------------------------------------------------------------------------
(* Decisions. *)

Superseded(d) == \E s \in Decisions : decisions[s].supersedes = d

\* Wrong on purpose: without the index on the decision that is superseded.
OneRootOnly(kind, prior, supersedes) ==
  supersedes = 0 => \A d \in Decisions :
    ~(decisions[d].kind = kind /\ decisions[d].prior = prior /\ decisions[d].supersedes = 0)

\* uniq_settlement_decision_settlement_root, ..._recourse_root and ..._successor.
IndexesAllow(kind, prior, supersedes) ==
  \A d \in Decisions :
    /\ supersedes = 0 =>
         ~(decisions[d].kind = kind /\ decisions[d].prior = prior /\ decisions[d].supersedes = 0)
    /\ supersedes # 0 => decisions[d].supersedes # supersedes

\* The refusals of retireSupersededMaterializations, of cancelEffect and of the
\* transition to cancelled.  That the commitment is deleted, or that somebody else
\* holds it, would also refuse: left out, so that more may be superseded here.
Retirable(d) ==
  decisions[d].entitled =>
    /\ decisions[d].effect # 0 =>
         effects[decisions[d].effect].status \in {"proposed", "authorized", "failed", "cancelled"}
    /\ task[d] \in {"open", "blocked", "cancelled"}
    /\ attempt[d] # "running"

Withdrawn(effect) ==
  IF effect.status \in {"proposed", "authorized"}
  THEN [effect EXCEPT !.status = "cancelled"] ELSE effect

\* The decision 0 supersedes nothing.
EffectsAfter(supersedes) ==
  [e \in EffectRows |->
    IF supersedes # 0 /\ decisions[supersedes].effect = e THEN Withdrawn(effects[e]) ELSE effects[e]]

TasksAfter(supersedes) ==
  [d \in Decisions |-> IF d = supersedes /\ decisions[d].entitled THEN "cancelled" ELSE task[d]]

\* exactBasis: a decision on a prior one is recourse against it.
KindOf(prior) == IF prior = 0 THEN "settlement" ELSE "recourse"

\* materializeEntitlement: the effect names the commitment and no attempt.
Materialized(d, proposes) ==
  IF proposes THEN <<[for |-> d, attached |-> FALSE, status |-> "proposed"]>> ELSE <<>>

\* evaluateSettlementOrRecourse: a decision, and its entitlement with or without an
\* effect.
Evaluate(prior, supersedes, entitled, proposes) ==
  LET new == Len(decisions) + 1
      effect == IF proposes THEN Len(effects) + 1 ELSE 0
  IN /\ new <= MaxDecisions /\ effect <= MaxEffects
     /\ proposes => entitled
     /\ supersedes # 0 => decisions[supersedes].kind = KindOf(prior) /\ Retirable(supersedes)
     /\ IndexesAllow(KindOf(prior), prior, supersedes)
     /\ decisions' = Append(decisions,
          [kind |-> KindOf(prior), prior |-> prior, supersedes |-> supersedes,
           entitled |-> entitled, effect |-> effect])
     /\ task' = Append(TasksAfter(supersedes), IF entitled THEN "open" ELSE "none")
     /\ revived' = revived \ {supersedes}
     /\ attempt' = Append(attempt, "none")
     /\ effects' = EffectsAfter(supersedes) \o Materialized(new, proposes)

-----------------------------------------------------------------------------
(* Work on the commitment of a decision. *)

Transitions ==
  [from \in Statuses \ {"none"} |->
    CASE from = "open" -> {"in_progress", "blocked", "done", "cancelled"}
      [] from = "in_progress" -> {"open", "blocked", "done", "cancelled"}
      [] from = "blocked" -> {"open", "in_progress", "done", "cancelled"}
      [] from = "done" -> {"open", "in_progress"}
      [] from = "cancelled" -> {"open"}]

Closed == {"done", "cancelled"}

\* transitionTaskStatus
Transition(d, to) ==
  /\ task[d] # "none" /\ to \in Transitions[task[d]]
  /\ to \in Closed => attempt[d] # "running"
  /\ task' = [task EXCEPT ![d] = to]
  /\ revived' = IF task[d] \in Closed THEN revived \cup {d}
                ELSE IF to \in Closed THEN revived \ {d} ELSE revived
  /\ UNCHANGED <<decisions, attempt, effects>>

\* startTaskAttempt leaves the status of the commitment alone.
StartAttempt(d) ==
  /\ task[d] \notin Closed \cup {"none"} /\ attempt[d] = "none"
  /\ attempt' = [attempt EXCEPT ![d] = "running"]
  /\ UNCHANGED <<decisions, task, revived, effects>>

EndAttempt(d) ==
  /\ attempt[d] = "running"
  /\ attempt' = [attempt EXCEPT ![d] = "ended"]
  /\ UNCHANGED <<decisions, task, revived, effects>>

-----------------------------------------------------------------------------
(* Effects. *)

\* proposeEffect on the commitment of a decision, for its attempt or for none.
Propose(d, attached) ==
  /\ Len(effects) < MaxEffects
  /\ task[d] # "none"
  /\ attached => attempt[d] # "none"
  /\ effects' = Append(effects, [for |-> d, attached |-> attached, status |-> "proposed"])
  /\ UNCHANGED <<decisions, task, revived, attempt>>

Becomes(e, status) ==
  /\ effects' = [effects EXCEPT ![e].status = status]
  /\ UNCHANGED <<decisions, task, revived, attempt>>

Cancel(e) == effects[e].status \in {"proposed", "authorized"} /\ Becomes(e, "cancelled")

Authorize(e) == effects[e].status = "proposed" /\ Becomes(e, "authorized")

\* beginEffectExecution: only for a running attempt that the effect names.
Begin(e) ==
  /\ effects[e].status = "authorized"
  /\ effects[e].attached /\ attempt[effects[e].for] = "running"
  /\ Becomes(e, "executing")

\* recordEffectReceipt
Receive(e, outcome) ==
  /\ \/ effects[e].status = "executing"
     \/ effects[e].status = "indeterminate" /\ outcome # "indeterminate"
  /\ Becomes(e, outcome)

SettlementNext ==
  \/ \E prior, supersedes \in {0} \cup Decisions, entitled, proposes \in BOOLEAN :
       Evaluate(prior, supersedes, entitled, proposes)
  \/ \E d \in Decisions :
       \/ \E to \in Statuses \ {"none"} : Transition(d, to)
       \/ StartAttempt(d) \/ EndAttempt(d)
       \/ \E attached \in BOOLEAN : Propose(d, attached)
  \/ \E e \in EffectRows :
       \/ Cancel(e) \/ Authorize(e) \/ Begin(e)
       \/ \E outcome \in {"indeterminate", "committed", "failed"} : Receive(e, outcome)

SettlementSpec == SettlementInit /\ [][SettlementNext]_settlementVars

-----------------------------------------------------------------------------
(* Properties. *)

\* However evaluations race, one settlement of the obligation stands, and no other is
\* owed: the entitlement of a settlement that another one replaced is open only when
\* somebody opened it again (the indexes and retireSupersededMaterializations).
OneSettlementIsOwed ==
  \A d \in Decisions : decisions[d].kind = "settlement" =>
    /\ Superseded(d) => task[d] \in Closed \cup {"none"} \/ d \in revived
    /\ \A other \in Decisions \ {d} :
         decisions[other].kind = "settlement" => Superseded(d) \/ Superseded(other)

Sent == {"executing", "indeterminate", "committed"}

\* ADR-016:37 says that a supersession "may retire only pre-dispatch effects and
\* non-performed commitments.  Once execution or performance happened, the caller must
\* create recourse"; settlement.ts:264 refuses "an effect after dispatch".
NothingSentIsSuperseded ==
  [][\A d \in Decisions : ~Superseded(d) /\ Superseded(d)' =>
       \A e \in EffectRows : effects[e].for = d => effects[e].status \notin Sent]_settlementVars

\* ADR-016:42 says that one root of recourse per source decision and a single chain of
\* supersession leave no "duplicate entitlement trees".
OneRecoursePerDecision ==
  \A d, other \in Decisions :
    /\ d # other /\ decisions[d].kind = "recourse" /\ decisions[other].kind = "recourse"
    /\ decisions[d].prior = decisions[other].prior
    => Superseded(d) \/ Superseded(other)
=============================================================================
