------------------------------ MODULE Effects -------------------------------
(***************************************************************************)
(* One external effect: its row, approvals and receipts                    *)
(* (tasq-core/src/service/effects.ts with migrations 0014 to 0016), the    *)
(* runners that dispatch and recover it (tasq-delegated-runner/src/        *)
(* runner.ts) and the provider behind their connector.                     *)
(*                                                                         *)
(* A runner's runEffect is a sequence of awaits: read the effect, begin    *)
(* its execution (one transaction), pass the connector's live guard, send, *)
(* hear, read again, record the receipt (one transaction).  Runners of one *)
(* principal interleave at every await and may crash there; a transaction  *)
(* acts on a clock sample taken before it got the write lock.              *)
(*                                                                         *)
(* The effect was proposed for one attempt, whose claim is here one row:   *)
(* TaskLedger shows that no later claim of the task is that row again, and *)
(* that an attempt does not outlast it.  The connector keeps its contract  *)
(* (it calls the live guard first, and reports what the provider said) and *)
(* its policy allows what was approved.  Only the ids a guard compares are *)
(* kept of permits and reports; evidence and event rows are left out.      *)
(***************************************************************************)
EXTENDS Naturals, Sequences

CONSTANTS
  Runners,        \* runEffect calls that may be in progress at once
  Unknown,        \* the provider has decided nothing
  Windows,        \* <<validFrom, expiresAt>> of an approval
  MaxLag,         \* how old the clock sample of a transaction may be
  Lease,          \* how long a heartbeat keeps the claim
  MaxClock, MaxApprovals, MaxSent   \* bounds

ASSUME EffectAssumption ==
  /\ Windows \subseteq Nat \X Nat
  /\ MaxLag \in Nat /\ Lease \in Nat
  /\ Unknown \notin {"committed", "failed"}

VARIABLES
  clock,
  claim,       \* the claim of the attempt: expires_at, and whether unreleased
  attempt,     \* "running" or "over"
  effect,      \* the row; `basis` is the revision its begin expected, 0 before;
               \* authorized_at is kept only while something is checked against it
  approvals,   \* effect_approval: each supersedes the one before it
  receipts,    \* effect_receipt, a sequence
  runner,      \* the locals of each runEffect call that a later step still reads
  provider,    \* what the provider decided for the dispatch key
  sent, handled   \* dispatch requests that left a runner; that reached the provider

effectVars ==
  <<clock, claim, attempt, effect, approvals, receipts, runner, provider, sent, handled>>

ledger == <<claim, attempt, effect, approvals, receipts>>
world == <<clock, provider, sent, handled>>

Terminal == {"committed", "failed"}
Begun == Terminal \cup {"executing", "indeterminate"}
Statuses == Begun \cup {"proposed", "authorized", "cancelled"}

EffectRecord ==
  [status : Statuses, rev : Nat, approval : Nat, authorizedAt : Nat, basis : Nat, receipt : Nat]

ApprovalRecord ==
  [decision : {"approved", "denied", "revoked"}, window : Windows, at : Nat]

ReceiptRecord == [outcome : Terminal \cup {"indeterminate"}, resolves : Nat]

RunnerRecord ==
  [pc : {"idle", "read", "begun", "cleared", "sent", "told", "reread"},
   seen : Statuses, expected : Nat, until : Nat, resolves : Nat,
   outcome : Terminal \cup {"indeterminate"}, rev : Nat]

Idle == [pc |-> "idle", seen |-> "proposed", expected |-> 0, until |-> 0, resolves |-> 0,
         outcome |-> "indeterminate", rev |-> 0]

EffectTypeOK ==
  /\ clock \in Nat /\ attempt \in {"running", "over"}
  /\ claim \in [until : Nat, live : BOOLEAN]
  /\ effect \in EffectRecord
  /\ effect.approval \in 0..Len(approvals) /\ effect.receipt \in 0..Len(receipts)
  /\ approvals \in Seq(ApprovalRecord)
  /\ receipts \in Seq(ReceiptRecord)
  /\ runner \in [Runners -> RunnerRecord]
  /\ provider \in Terminal \cup {Unknown}
  /\ sent \in Nat /\ handled \in 0..sent

\* At time 0 the worker has claimed the task, started the attempt and proposed the
\* effect for it (proposeEffect).
EffectInit ==
  /\ clock = 0
  /\ claim = [until |-> Lease, live |-> TRUE] /\ attempt = "running"
  /\ effect = [status |-> "proposed", rev |-> 1, approval |-> 0, authorizedAt |-> 0,
               basis |-> 0, receipt |-> 0]
  /\ approvals = << >> /\ receipts = << >>
  /\ runner = [r \in Runners |-> Idle]
  /\ provider = Unknown /\ sent = 0 /\ handled = 0

Sampled(now) == now \in {t \in 0..clock : t + MaxLag >= clock}

\* getEffectiveEffectApproval: the decision no other supersedes.
Leaf == Len(approvals)

Approves(a) == a > 0 /\ approvals[a].decision = "approved"

ValidAt(a, now) == approvals[a].window[1] <= now /\ now < approvals[a].window[2]

-----------------------------------------------------------------------------
(* The claim and the attempt, as TaskLedger moves them. *)

Tick == clock < MaxClock /\ clock' = clock + 1 /\ UNCHANGED <<ledger, runner, provider, sent, handled>>

\* The holder's next heartbeat, not before the last one.
RenewClaim(now) ==
  /\ claim.live /\ now < claim.until /\ claim.until <= now + Lease
  /\ claim' = [claim EXCEPT !.until = now + Lease]
  /\ UNCHANGED <<attempt, effect, approvals, receipts, runner, world>>

EndAttempt ==
  /\ attempt = "running" /\ attempt' = "over"
  /\ UNCHANGED <<claim, effect, approvals, receipts, runner, world>>

\* Released, reclaimed by another, or closed with its task.
EndClaim ==
  /\ claim.live
  /\ claim' = [claim EXCEPT !.live = FALSE] /\ attempt' = "over"
  /\ UNCHANGED <<effect, approvals, receipts, runner, world>>

-----------------------------------------------------------------------------
(* The effect ledger. *)

\* Wrong on purpose: the authority that rests on the superseded decision stays.
NothingWithdrawn == effect

\* Wrong on purpose: a decision changes the row whatever its status.
TouchedAlways == [effect EXCEPT !.rev = @ + 1]

\* An authorization goes with the decision it rests on.
Withdrawn ==
  IF effect.status = "authorized" /\ effect.approval = Leaf
  THEN [effect EXCEPT !.status = "proposed", !.approval = 0, !.authorizedAt = 0, !.rev = @ + 1]
  ELSE effect

\* recordEffectApproval, superseding the leaf, at any status of the effect.
RecordApproval(decision, window, now) ==
  /\ Leaf < MaxApprovals
  /\ decision = "revoked" => Approves(Leaf)
  /\ now < window[2]
  /\ Leaf > 0 => approvals[Leaf].at <= now
  /\ approvals' = Append(approvals, [decision |-> decision, window |-> window, at |-> now])
  /\ effect' = Withdrawn
  /\ UNCHANGED <<claim, attempt, receipts, runner, world>>

Authorize(now) ==
  /\ effect.status = "proposed"
  /\ Approves(Leaf) /\ ValidAt(Leaf, now)
  /\ effect' = [effect EXCEPT !.status = "authorized", !.approval = Leaf,
                              !.authorizedAt = now, !.rev = @ + 1]
  /\ UNCHANGED <<claim, attempt, approvals, receipts, runner, world>>

\* Wrong on purpose: what is executing can be cancelled.
CancellableLate == effect.status \in {"proposed", "authorized", "executing"}

Cancellable == effect.status \in {"proposed", "authorized"}

Cancel ==
  /\ Cancellable
  /\ effect' = [effect EXCEPT !.status = "cancelled", !.approval = 0,
                              !.authorizedAt = 0, !.rev = @ + 1]
  /\ UNCHANGED <<claim, attempt, approvals, receipts, runner, world>>

-----------------------------------------------------------------------------
(* A runner. *)

Goes(r, step) == runner' = [runner EXCEPT ![r] = step]

\* The call ends early: every refusal and error below, and the process's crash.
Stop(r) ==
  /\ runner[r].pc # "idle"
  /\ Goes(r, Idle)
  /\ UNCHANGED <<ledger, world>>

\* authorizedRevision: what the begin of this execution expected.
AuthorizedRevision ==
  CASE effect.status = "authorized" -> effect.rev
    [] effect.status = "executing" -> effect.rev - 1
    [] effect.status = "indeterminate" -> effect.rev - 2

\* runEffect, first await.  Terminal effects return; proposed ones are refused.
Read(r) ==
  /\ runner[r].pc = "idle"
  /\ effect.status \in {"authorized", "executing", "indeterminate"}
  /\ Goes(r, [Idle EXCEPT !.pc = "read", !.seen = effect.status,
                          !.expected = AuthorizedRevision, !.resolves = effect.receipt])
  /\ UNCHANGED <<ledger, world>>

\* The permit binds the claim's expiry as it is now.
Permitted(r) ==
  Goes(r, [runner[r] EXCEPT !.pc = "begun", !.expected = 0, !.until = claim.until])

\* beginEffectExecution under the runner's one idempotency key, for the first
\* time: the point of no return.
Begin(r, now) ==
  /\ runner[r].pc = "read"
  /\ effect.basis = 0
  /\ effect.status = "authorized" /\ effect.rev = runner[r].expected
  /\ effect.approval = Leaf /\ Approves(Leaf) /\ ValidAt(Leaf, now)
  /\ attempt = "running"
  /\ claim.live /\ now < claim.until
  /\ effect.authorizedAt <= now
  /\ effect' = [effect EXCEPT !.status = "executing", !.basis = runner[r].expected,
                              !.authorizedAt = 0, !.rev = @ + 1]
  /\ Permitted(r)
  /\ UNCHANGED <<claim, attempt, approvals, receipts, world>>

\* The same call again, by whichever runner: the same request gets the permit
\* once more until the effect is resolved; no clock, claim or attempt is asked.
BeginAgain(r) ==
  /\ runner[r].pc = "read"
  /\ effect.basis # 0 /\ effect.basis = runner[r].expected
  /\ effect.status \in {"executing", "indeterminate"}
  /\ Permitted(r)
  /\ UNCHANGED <<ledger, world>>

\* freshDispatch: decided by the status read first.
Fresh(r) == runner[r].seen = "authorized"

\* enforceEffectDispatch and #assertLiveFence.
Guard(r) ==
  /\ runner[r].pc = "begun" /\ Fresh(r)
  /\ claim.live /\ clock < claim.until /\ claim.until = runner[r].until
  /\ ValidAt(effect.approval, clock)
  /\ Goes(r, [Idle EXCEPT !.pc = "cleared"])
  /\ UNCHANGED <<ledger, world>>

\* The request to the provider leaves the connector.
Send(r) ==
  /\ runner[r].pc = "cleared"
  /\ sent < MaxSent
  /\ sent' = sent + 1
  /\ Goes(r, [runner[r] EXCEPT !.pc = "sent"])
  /\ UNCHANGED <<ledger, clock, provider, handled>>

\* A request arrives, perhaps long after its runner gave up.  The provider
\* decides a dispatch key once.
Provide ==
  /\ handled < sent
  /\ handled' = handled + 1
  /\ provider' \in IF provider = Unknown THEN Terminal ELSE {provider}
  /\ UNCHANGED <<ledger, runner, clock, sent>>

Reports(r, outcome, resolves) ==
  Goes(r, [Idle EXCEPT !.pc = "told", !.outcome = outcome, !.resolves = resolves])

\* dispatch returns: the provider's word, or the transport lost it.
Answer(r) ==
  /\ runner[r].pc = "sent"
  /\ \E outcome \in {"indeterminate", provider} \ {Unknown} : Reports(r, outcome, 0)
  /\ UNCHANGED <<ledger, world>>

\* Wrong on purpose: an operation the provider has not seen has failed.
UnseenHasFailed == IF provider = Unknown THEN "failed" ELSE provider

Found == IF provider = Unknown THEN "indeterminate" ELSE provider

\* lookup, for an effect that was executing or indeterminate when first read.
Lookup(r) ==
  /\ runner[r].pc = "begun" /\ ~Fresh(r)
  /\ Reports(r, Found, IF Found = "indeterminate" THEN 0 ELSE runner[r].resolves)
  /\ UNCHANGED <<ledger, world>>

\* The effect is read again; an unknown outcome already on record is enough.
Reread(r) ==
  /\ runner[r].pc = "told"
  /\ IF runner[r].outcome = "indeterminate" /\ effect.status = "indeterminate"
     THEN Goes(r, Idle)
     ELSE Goes(r, [runner[r] EXCEPT !.pc = "reread", !.rev = effect.rev])
  /\ UNCHANGED <<ledger, world>>

\* The external receipt id is one for the unknown outcome and one for the
\* provider's receipt, so each is recorded once.
Delivered(outcome) ==
  \E i \in DOMAIN receipts :
    (receipts[i].outcome = "indeterminate") <=> (outcome = "indeterminate")

\* Wrong on purpose: a terminal receipt need not name the one it resolves.
FitsAnyReceipt(outcome, resolves) ==
  outcome = "indeterminate" => effect.status = "executing"

Fits(outcome, resolves) ==
  IF effect.status = "indeterminate"
  THEN outcome # "indeterminate" /\ resolves = effect.receipt
  ELSE resolves = 0

\* recordEffectReceipt.
Record(r) ==
  /\ runner[r].pc = "reread"
  /\ ~Delivered(runner[r].outcome)
  /\ effect.rev = runner[r].rev
  /\ effect.status \in {"executing", "indeterminate"}
  /\ Fits(runner[r].outcome, runner[r].resolves)
  /\ receipts' = Append(receipts, [outcome |-> runner[r].outcome, resolves |-> runner[r].resolves])
  /\ effect' = [effect EXCEPT !.status = runner[r].outcome, !.receipt = Len(receipts'),
                              !.rev = @ + 1]
  /\ Goes(r, Idle)
  /\ UNCHANGED <<claim, attempt, approvals, world>>

EffectNext ==
  \/ Tick \/ EndAttempt \/ EndClaim \/ Cancel \/ Provide
  \/ \E now \in 0..clock :
       /\ Sampled(now)
       /\ \/ RenewClaim(now)
          \/ Authorize(now)
          \/ \E r \in Runners : Begin(r, now)
          \/ \E decision \in {"approved", "denied", "revoked"}, window \in Windows :
               RecordApproval(decision, window, now)
  \/ \E r \in Runners :
       \/ Stop(r) \/ Read(r) \/ BeginAgain(r) \/ Guard(r) \/ Send(r) \/ Answer(r)
       \/ Lookup(r) \/ Reread(r) \/ Record(r)

EffectSpec == EffectInit /\ [][EffectNext]_effectVars

-----------------------------------------------------------------------------
(* What the effect ledger promises. *)

\* An effect is authorized only as long as the decision it was authorized by is
\* the last word and approves: a denial, revocation or new approval by another
\* principal, in whatever order with authorizeEffect, takes the authority back.
AuthorityIsCurrent ==
  effect.status = "authorized" => effect.approval = Leaf /\ Approves(Leaf)

\* Cancellation and dispatch of one effect race and exactly one wins: no request
\* for a cancelled, or not yet executing, effect has left a runner or will, as
\* no runner holds a permit for it.
CancelledIsNeverSent ==
  (sent > 0 \/ \E r \in Runners : runner[r].pc \in {"begun", "cleared"}) =>
    effect.status \in Begun

\* The ledger never guesses: committed and failed are what the provider decided,
\* whichever of a lost answer, a late request and a lookup came first.
OutcomeIsProven == effect.status \in Terminal => provider = effect.status

\* The receipts tell one story: at most one unknown outcome, then at most one
\* terminal one that resolves it, and the effect points at the last.
ReceiptsTellOneStory ==
  /\ effect.receipt = Len(receipts)
  /\ Len(receipts) <= 2
  /\ Len(receipts) = 2 =>
       receipts[1].outcome = "indeterminate" /\ receipts[2].outcome \in Terminal
         /\ receipts[2].resolves = 1
  /\ receipts # << >> => effect.status = receipts[Len(receipts)].outcome

\* After a crash the runner rebuilds the begin request from the row alone, by
\* counting revisions (authorizedRevision).  It finds the revision the begin
\* expected as long as nothing else revises an executing effect; if it did not,
\* every recovery would be refused as a conflicting retry.
RecoveryRebuildsTheBegin ==
  effect.status \in {"executing", "indeterminate"} => AuthorizedRevision = effect.basis

\* "A persisted executing or indeterminate effect is reconciled by provider
\* lookup.  It is never blindly dispatched again" (tasq-delegated-runner
\* README.md:19).  Two runners that both read "authorized" refute it.
DispatchedOnce == sent <= 1
=============================================================================
