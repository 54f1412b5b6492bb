# Tasq in TLA+

Tasq is a project tracker that people and agents share. One LibSQL (SQLite)
database holds the commitments, who works on them, what was observed and what
was decided; everything else (command line, MCP server, HTTP server, delegated
runner, bridges) calls the services of `packages/tasq-core` and
`packages/tasq-service` on that database. This directory models the parts where
independent processes meet, checks them with TLC and proves with TLAPS all that
is not about liveness.

Run from this directory: `tlc -config <cfg> <module>` for a run of
`PROJECT.json`, and `tlapm <module>` on `TaskLedgerProofs.tla`, `EffectsProofs.tla`,
`ReadinessProofs.tla`, `ObligationsProofs.tla`, `ResourceLeasesProofs.tla`,
`ResolutionProofs.tla`, `WaitsProofs.tla` and `DeliveryProofs.tla` for the proofs
(`DeliveryProofs` takes about ten minutes, the others less).

## How the code executes

Every service operation is one `BEGIN IMMEDIATE` transaction
(`tasq-core/src/db.ts:109-162`): it takes SQLite's write lock first, reads,
checks, writes its rows, its event row and its idempotency record, and commits or
rolls back as a whole. Processes of different agents therefore interleave per
OPERATION, and each operation is one action in the models; a refusal is a
stuttering step. Three things are not atomic, and they are where the models look:

1. **The clock.** Most services sample `now` before they queue for the lock
   (`agentic.ts:169`), so a transaction that commits now reasons with a time of its
   past. `Sampled` in TaskLedger, Effects, Resolution and Waits. Resource leases sample
   inside the transaction, but on the clock of whichever device runs them, which may be
   behind (`ClockStepsBack` in ResourceLeases).
2. **Two stores.** The journal is a file next to the database, the provider of an
   external effect a service elsewhere. There is no common transaction: a process
   steps between them and may die between any two steps (Outbox, Effects).
3. **Reads outside a transaction.** Fence verification, the doctor, the checkpoint
   command, the runner, a decision on a completion and a sweep of deadlines read,
   then decide, then write.
4. **Several transactions per call.** A push of a replica is accepted operation by
   operation, a sweep expires wait by wait; the call may end between two of them
   and its reply may be lost (Replication, Waits).

## Inventory

For each component: its state; its operations; what is hard; what makes it
correct. `PROJECT.json` lists the same components with their files and status.

| Component | State | Operations | Hard behaviour | Correct when | Module |
|---|---|---|---|---|---|
| Commitments and their tree (`tasks.ts`) | `task`: status, completion mode, parent, tombstone, revision; `completion_record` | create, update, move, transition, complete, cancel, delete (cascade), restore | closing and deleting end what other callers hold; the tree is reshaped while parts of it are deleted; revisions are compared by callers | closed means nothing runs; live children have live parents; no cycles; evidence mode means evidence | TaskTree, TaskLedger |
| Claims, attempts, evidence (`agentic.ts`) | `task_claim` (holder, fence, expiry), `task_attempt`, `task_evidence` | acquire, renew, reclaim, release; start, transition; add, supersede | stale clock samples, races for an expired claim, forced takeover, crashed holders | one unreleased claim per task, growing fences, no silent takeover, immutable history | TaskLedger, FencedLease |
| Resource leases (`resources.ts`) | `resource_lease` | acquire, reclaim, renew, release, sweep, verify fence | clocks of several devices, sweep against renewal, verification is no transaction | one holder per key, growing fences, a "valid" verdict is never about a lost lease | ResourceLeases, FencedLease |
| Transactional outbox (`delivery.ts`) | `delivery_sink`, `delivery_outbox` | enqueue (trigger), lease, complete, fail, repair, enable, disable | leases outlived, crashes between stores, backoff, quarantine | delivered rows are in the journal; order; eventual settlement | Outbox, OrderedDelivery |
| Event journal and its drain (`runtime.ts`, `journal.ts`, doctor, checkpoint) | JSONL segment, checkpoint chain | append, verify coverage, checkpoint, doctor repair | maintenance decides from stale reads of two stores | no gap, nothing forgotten | Outbox, OrderedDelivery |
| Effect ledger (`effects.ts`) | `effect`, `effect_approval`, `effect_receipt` | propose, approve/deny/revoke, authorize, begin, cancel, record receipt | revocation and cancellation race dispatch; begin is the point of no return | authority is current; cancelled is never sent; outcomes are proven | Effects |
| Delegated runner, connectors | the locals of `runEffect`; the provider's record | read, begin, live guard, dispatch, lookup, record | crash at every await, two runners, lost answers, late requests | recovery can go on; one story of receipts | Effects |
| Wait conditions, observations, reconciliation, deadlines (`tasq-service`) | `wait_condition`, `observation`, `reconciliation` | create, observe, match, satisfy, expire, fall back, cancel | a satisfying observation races the deadline sweep; two matchers of one wait | a wait is resolved once, and an observation before the deadline wins | Waits; in TaskLedger as opened and closed waits |
| Completion resolution (`resolution.ts`) | contract, trust record, proposal, challenge, decision | contract, attest, revoke, propose, challenge, evaluate, attest, settle, adjudicate, complete | a decision is several reads and one write; challenges are listed outside the accepting transaction; a decision is used later by a completion | decisions on a proposal form one chain; acceptance is earned; done means accepted on the criteria of the commitment | Resolution |
| Idempotency (`idempotency.ts`) | retry records: caller, operation, key, digest, result | every mutation | a record expires after thirty days; a replay returns the row as it is now | the same key acts once within its retention | planned |
| Transactions (`db.ts`, CLI retry) | SQLite's lock, the per-process chain | begin, commit, roll back, retry a busy command | a retried command must not have committed part of itself | one operation, one step | assumed by every module; retry planned |
| Dependencies (`collaboration.ts`, `dependencies.ts`) and the next-action queue (`prioritizer.ts`) | `commitment_relation`, `task_dependency`: one graph kept twice | add and end by either interface; ask for the next action; the gate of a claim | each interface looks for cycles in its own table and writes both; the queue reads one, the claim the other | commitments never wait for each other; what the queue offers the claim grants | Readiness |
| Assumptions, premises (`assumptions.ts`, `premises.ts`); costs, assignments | assumptions and their links, premises; reservations, roles | attach, withdraw, resume, refute; reserve, assign | a withdrawal reaches commitments that are closed, deleted or shared; a refutation ends what other callers hold | no work starts on a withdrawn assumption or a refuted premise | Readiness; the refutation in TaskLedger; costs and assignments not modelled |
| Replication (`replication.ts`) | authority epoch and log, replica cursors, queued operations, projections | register, queue, push, acknowledge, pull, rebase, retire, prune, recover | partial pushes, lost replies, resent operations, silent replicas, recovery into a new epoch from an old backup | each operation is decided once and in order; a decision is final, also across a recovery; a retired record stays retired; quiet replicas agree with the authority and installed snapshots are shown | Replication |
| Agreements (`agreements.ts`) | offers, acceptances, terminations, activations and the commitments they compile to | offer, amend, accept, reject, withdraw | an amendment takes over while older terms are worked on; its ancestors were accepted, rejected or withdrawn; the state of an offer is derived by walks over the chain | one set of terms in force; nothing of replaced terms stays owed | Agreements |
| Settlement and recourse (`settlement.ts`) | decisions, materialised entitlements and effects | evaluate, supersede, materialise, recourse | supersessions race each other and the work on what the superseded decision made owed | one settlement stands, only its entitlement is owed | Settlement |
| Signed statements, attestations, devices | append-only records | attest, enrol, revoke | cryptography and validation | - | not modelled |
| Events, summaries, discoveries, contention counters; principals, spaces, extensions | append-only or derived rows; registries | record, derive, register | - | - | events appear as Outbox's sequence; callers as constants |
| Planning profile (areas, goals, projects, recurrence, progress) | planning rows | create, archive, schedule | pure projections | - | not modelled |
| Custody; bridges (webhook, filesystem, GitHub) | append-only records; cursors | translate outside facts into service calls | redelivery | - | not modelled |
| CLI, MCP, HTTP server, clients; authority and control plane; inspector, bundles, evaluations, site | none of the ledger's own | call the services | I/O and authentication | - | not modelled |

Interactions: claims gate attempts and effects (an effect is proposed for an attempt and
begins only under its live claim); closing a commitment ends claims and waits and is
refused by a running attempt; every mutation inserts event rows and the outbox trigger
enqueues them in the same transaction; the drain and the runner are clients that act
between transactions; reconciliation resolves waits and may reactivate a blocked
commitment; dependencies, assumptions, premises and budgets answer the claim gate; an
accepted agreement and a settlement make ordinary commitments, which a later agreement
or settlement cancels; a decision on a proposal is what the completion of a commitment
with `validationRequired` needs; replicas keep projections of their own and meet the
ledger only through the authority's log.

## Modules

| Module | Models | State to code |
|---|---|---|
| `FencedLease` | the abstract promise of an exclusive, expiring, fenced lease | - |
| `OrderedDelivery` | the abstract promise of an outbox and its journal: in order, without a gap, acknowledged afterwards | - |
| `TaskTree` | the parent link and tombstone of `task`, the tree half of four operations of `tasks.ts` | `row` = existence and `deleted_at`; `parent` = `parent_task_id` |
| `TaskLedger` | commitments, claims, attempts, evidence, completions, waits; EXTENDS `TaskTree` and adds to each tree operation what it does to the rest of the row and to the execution on it | a sequence per table, indexed by row id; NULL is `None` |
| `ResourceLeases` | `resource_lease` and fence verification | `leases`, `checks` (the row `verifyResourceFence` has read and not yet judged) |
| `Outbox` | sink, outbox rows, journal, drain loops, doctor, checkpoint | `outbox[e]` is the row of event `e`; `journal` the active segment, the archive and the checkpoint cursors; program counters per process |
| `Effects` | one effect, its approvals and receipts, the runners and the provider | rows as records, `runner[r]` the locals a later step still reads |
| `Replication` | the authority, the replicas and what is under way between them | `authority` = epoch, log, projection and the authority's row per replica; `local`, `outgoing`, `view` = a replica's cursors, its queue and its projection; pushes, replies and snapshots in flight |
| `Resolution` | one commitment under resolution: contracts, trust, proposals, challenges, decisions, completions | a sequence or set per table; `calls[d]` is what the deciding call `d` has read so far |
| `Waits` | waits, observations, reconciliations and the sweeps of deadlines | a sequence per table; `sweep[s]` is the list a sweep has read and its clock sample |
| `Readiness` | dependencies in both tables, assumptions, premises, the queue and the gate of the claim | `dependency[e]`, `relation[e]` = the rows of the edge `e`, and whether they share an id; `rests`, `paused` = links to standing and to withdrawn assumptions |
| `Agreements` | the offers of one agreement and its amendments, their activations and the work these compile to | a sequence per table; `work[a][p]` is the commitment of party `p` under activation `a` |
| `Settlement` | the decisions on one obligation, the commitment, attempt and effects of each | a sequence per table, indexed by the decision |
| `EffectsProofs`, `ReadinessProofs`, `ResourceLeasesProofs`, `ResolutionProofs`, `WaitsProofs` | the theorems about the module of that name | - |
| `TaskLedgerProofs`, `DeliveryProofs`, `ObligationsProofs` | the theorems about `TaskTree` and `TaskLedger`; `Outbox` and `Replication`; `Agreements` and `Settlement` | - |
| `MCTaskLedger`, `MCOutbox`, `MCEffects`, `MCReplication`, `MCResolution`, `MCWaits`, `MCReadiness`, `MCAgreements` | definitions for TLC: symmetry sets, worker names, approval windows, kinds of wait | - |

`PROJECT.json` maps every action and helper to its lines. Some readings need a
word:

- The loops that walk the tree (`getTaskDepth`, `subtreeHeight`,
  `liveSubtaskIds`) are least sets closed under one step, which TLC evaluates
  and the provers reason about without recursion. `getTaskDepth` climbs through
  tombstones while `subtreeHeight` descends through live rows only; the model
  keeps that difference, and the sixth of the findings below comes from it.
- The update triggers of the migrations abort a transaction whose times run
  backwards; they are guards (`MayEnd`, the `started` and `updated` checks of
  attempts), which matters because stale samples do meet them.
- Time comes from two places. What a service samples is at most `MaxLag` old
  (`Sampled`); `startTaskAttempt` and `transitionTaskAttempt` take a time that the
  caller states (`occurredAt`), which may be any, also one still to come (`Stated`), and
  which then decides whether a claim counts as expired. A claim keeps when it ended and a
  completion how much evidence had been recorded (`ended`, `known`), because the
  properties ask for it.
- A caller that passes `force` is one of `Forcers`, so that a property can tell
  a deliberate takeover from a silent one.
- `GateAnswers` is everything dependencies, assumptions and budgets can answer to
  `acquireTaskClaim`; in TaskLedger any answer may come at any time, and `Readiness`
  says when dependencies, assumptions and premises give which.
- `Deciders` are the principals that may decide on a premise. `RefutePremise` is that
  decision: it ends the claim and cancels the attempts of the commitment in one
  transaction, whoever holds them. That the commitment cannot be claimed again is in
  `Readiness`.
- `expectedRevision` refuses more and never allows more, so it is left out of
  guards; that comparing revisions is sound is `RevisionNamesTheContent`.
- In Outbox, times are kept as what is left of them, so no clock is needed, and
  the attempt count stops at `maxAttempts`, after which no branch reads it.
  `Maintenance` names the maintenance commands (`doctor`, `checkpoint`) in use.
- In Effects the attempt has one claim. That no later claim is mistaken for it is
  the business of TaskLedger; here it is renewed, expires and is lost. The begin
  request of all runners of a principal has one idempotency key, derived from
  the effect; `effect.basis` stands for that retry record. The connector keeps
  its contract (calls the live guard before it sends, reports what it heard); the
  reference connector's `dispatch` does not take the guard's argument, which the
  runner notices only after the connector returned: such connectors are left
  out. Late delivery is modelled: a request may reach the provider after its
  runner died, and after a lookup found nothing.
- In Replication the authority accepts one operation per step, so a push stops
  anywhere. A digest is what it covers: two operations have the same digest when
  they are equal. What is `Pending` is given by its property: the undecided entries in
  counter order. The rebase is a fold of `ReplayStep` over them, from `ReplayStart`. One
  counter, `incidents`, bounds what operators and disasters do:
  writes of the authority itself, replicas declared silent, prunings and recoveries
  from any earlier state.
- In Resolution a deciding call is a small program: the commitment and the cited
  evidence, then the trust records, then the current decision, then the
  challenges, then the transaction that writes. What makes evidence unfit
  (kind, source, age, authenticity, retention) is abstracted to its trust record.
- In Readiness a manually blocked and a started commitment count as open, since neither
  the blockers nor the gate ask for more. `Resting` and `Premised` are the commitments
  that ever get an assumption or a premise. `pickNext` asks for rows, premises,
  assumptions and edges one query after the other, outside a transaction; `Offered` takes
  them of one moment. Nothing is lost: an offer binds nobody, whatever the queue read may
  have changed by the time of the claim anyhow, and `OfferedIsClaimable` compares what the
  two would answer at the same moment.
- In Agreements `held` stands for every reason why a commitment cannot be cancelled at
  the moment: it is deleted, has a running attempt or somebody else's claim. Both walks
  of the code give up after a hundred amendments, which only refuses more.
- In Settlement any policy may apply at any time, and a decision has at most one
  entitlement, whose commitment has at most one attempt. A supersession is also refused
  while the commitment it would retire is deleted or held by somebody else. That is left
  out: nothing in the model has to happen, so that a refusal is one of its
  behaviours anyhow, and what holds of all of them holds of those the code has.
- In Replication a command carries the body it leaves, where the code merges a patch; the
  rule that a closed commitment keeps its completion criteria is left out. An operation is
  applied only to the very base it names, on which its replica has asked the same
  question, so the authority never answers it differently.
- In Waits a commitment is open, closed or deleted, and both kinds of fallback may fail:
  the target of an activation may be closed or deleted, the parent of a new commitment
  deleted. A fact either occurred early enough for a wait to count it or not; the
  matchers that compare repositories, threads or amounts are left out, because
  a fact that does not match leaves a row that nothing reads. The list a sweep reads is
  given by its property (`DueLists`: the due waits in the order of the query, up to the
  limit), not by a sort.
- A mutated form of a definition, marked "Wrong on purpose", stands before the
  definition it mutates. No specification uses it; `PROJECT.json` names the
  property that fails when it is put in place of the original.

## Runs

Twelve runs, from seconds to about three and a half minutes each with two workers.

| Run | Asks | Instance | Shows |
|---|---|---|---|
| `ledger_claims` | turns, takeover, expiry, revisions, history, refinement | 1 task, 2 callers (one may force, one may refute the premise), samples up to a tick old, lease of 2 | claims follow each other and are an abstract fenced lease although deciding clocks are stale; nothing rewrites history |
| `ledger_tree` | `LiveChildHasLiveParent`, `Acyclic`, `ClosedIsQuiet`, `DoneOnEvidence` | parent and child, both modes, 2 pieces of evidence, an attempt, a wait | moves, cascades, restores, mode switches and superseded evidence around a completion |
| `resource_leases` | verdicts, refinement | 2 keys, 2 principals, clock may step back | the same promise under a clock nobody can trust |
| `outbox_journal` | refinement | 2 drain loops, doctor, checkpoint, 2 events, quarantine at the first failure | rows and journal are an abstract ordered delivery: crashes, overtaken leases, stale repairs and stale cursors lose and skip nothing |
| `outbox_liveness` | `EveryEventSettles` | 2 drain loops, 2 attempts with backoff, sink toggled, fairness | every event is delivered or waits behind a quarantined one |
| `effect_race` | authority, cancellation, outcomes, receipts, recovery | 2 runners, approver, claim, late provider | the ledger never guesses and never acts on withdrawn authority |
| `replication` | order, agreement, chains, retirement, finality, snapshots | 2 replicas, 1 record, 2 operations between them, 1 incident | every operation is decided once and for good, quiet replicas agree and current snapshots are shown |
| `resolution` | chain, acceptance, completion, challenges | 1 proposal, every policy, 2 deciding calls, 3 decisions, samples up to 1 tick old | decisions on stale reads still form one chain, and completions rest on earned ones |
| `waits` | one deciding fact, timely facts, fallbacks, liveness | 3 waits or facts in any mixture on two commitments, a sweeper that dies, sweeps of 2, samples up to 1 tick old, fairness | one fact decides, a timely one beats the expiry, fallbacks happen once, sweeps get through |
| `readiness` | `SomebodyCanMove`, `OfferedIsClaimable` | 3 commitments, every dependency graph two interfaces can build, an assumption and a premise on one of them; deadlock checked | no commitments wait for each other; the queue offers what the claim grants |
| `agreements` | `OneSetOfTermsInForce`, `OnlyTheTermsInForceAreOwed` | 2 parties, a chain of up to 3 offers, samples up to 1 tick old | two walks over the chain agree; replaced terms owe nothing |
| `settlement` | `OneSettlementIsOwed` | 3 decisions, an effect | one settlement stands and only its entitlement is owed |

The properties, by what they protect:

- `ClaimsTakeTurns`: of two claims of a task the earlier one is released, did not end
  before it began, and ended at most a sample's lag after the later one began. Mutual
  exclusion (`OneUnreleasedClaim`) and the token that makes a worker that lost its
  lease recognisable (`FencesGrow`) are proved.
- `ImplementsFencedLease` (both leases): every history is a history of
  `FencedLease`. There a lease in force passes to nobody else (`NoStealing`) and a
  new holder has a new fence (`NewHolderNewFence`). For claims the interesting
  part is that `now` is stale: an old sample can only find a claim MORE alive than
  it is, so it refuses where it might have granted. For resource leases it is the
  clock that is set back; `assertClockNotBefore` catches what matters.
- `NoSilentTakeover`: a claim that is live by the wall clock is ended by its
  holder, by force, or with the task or its premise.
- `ExpiryFreesTheTask`: the other half, a crashed worker blocks nobody.
- `ClosedIsQuiet`, `DoneOnEvidence`, `LiveChildHasLiveParent`, `Acyclic`: relations between
  tables that separate operations of separate callers must each keep. The second also
  says that nothing a completion cites was superseded when it was recorded.
- `RevisionNamesTheContent`, `HistoryIsImmutable`: what optimistic concurrency and
  the audit trail rest on.
- `ValidVerdictIsTheHolders`: fence verification reads the row and then the clock;
  between them the lease may be lost. When it nevertheless answers "valid", nobody
  else has taken the key - unless the clock was set back between the two reads,
  which the property excludes and the model can show. It is also where a renewal on a
  clock that is behind would be seen: it would take the expiry back before the time that
  a verification relies on.
- `ImplementsOrderedDelivery`: every history of the outbox is one of `OrderedDelivery`,
  which becomes owed an event at a time, whose journal takes the next ones in order and
  forgets none (`InOrder`, `NothingSkipped`), and whose ledger acknowledges only what the
  journal accounts for. An event is accounted for when the journal or its archive holds it
  or a checkpoint covers it. That the run is about steps matters: a doctor that marks a
  row as delivered, and a checkpoint that accounts for many events at once, are steps of
  the abstract delivery too. `EveryEventSettles`: no event waits for ever.
- `AuthorityIsCurrent`, `CancelledIsNeverSent`, `OutcomeIsProven`,
  `ReceiptsTellOneStory`, `RecoveryRebuildsTheBegin`: effects. The last one is
  about `authorizedRevision`, by which a restarted runner computes the revision
  its begin expected from the current one by counting back: it holds because no
  operation but begin and receipts revises an executing effect, and a new one
  that did would silently make every recovery a conflicting retry.

- `EachDotOnceInOrder`, `DecisionsAgreeWithTheLog`, `QueueIsOneChain`,
  `DeclaredOutcomesHold`: what the log holds of a replica is its operations 1, 2,
  3... once each; what a replica believes of an operation is what the log says; and
  what it still has queued continues exactly where the authority stopped,
  although pushes stop half-way, replies are lost and snapshots renumber the queue.
- `RetiredStaysRetired`: no replica and no recovery brings a retired record back.
- `DecisionsAreFinal`: a verdict that a queue has is never revised, neither by a reply
  that comes twice nor by a snapshot or a recovery; the log of an epoch only grows, and
  what it grows by was made for that epoch.
- `QuietReplicasAgree`: a replica with nothing outstanding shows what the authority
  shows. It is promised only where no operator incident intervened, since a write of the
  authority itself is no row of its log and a replica does not see it until it pulls.
  `CurrentSnapshotIsShown` has no such condition: a snapshot that says what
  the authority has now makes the replica that installs it show exactly that, except for
  the commitments that its own undecided operations are about. Nothing that it showed
  before, from earlier snapshots or from operations that were refused, stays.
- `DecisionsFormOneChain`: two calls that both found no decision, or the same one,
  do not both write. `AcceptanceIsEarned`: an accepted decision rests on attested
  evidence, a decider other than the proposer, a passed window or an adjudicated
  dispute. `TimelyChallengeIsHeard`: a challenge that precedes the deadline by more
  than the lag stops a settlement. `DoneOnItsCriteria`: a done commitment was
  accepted on the criteria it has.
- `OneFactDecides`, `TimelyFactIsHeard`, `FallbackIsTheExpirys`: a wait is decided
  once, by one fact or by its deadline, and not by the deadline where a timely fact
  was there; what the deadline triggers happens once.
- `EveryDueWaitIsDecided`: a sweep goes on after a failing wait. The bound it states
  is sharp: as many failing fallbacks as a sweep takes do starve the rest.
- `SomebodyCanMove`, `OfferedIsClaimable`: a dependency added by the older interface is
  checked against `task_dependency`, one added by the newer against
  `commitment_relation`, and the two tables may differ. Every active relation still is
  a live dependency row, never the other way round, and that is just enough: the
  relations stay without a cycle and the queue is never more generous than the claim.
- `OneSetOfTermsInForce`: the view walks down the chain of amendments, the activation
  walks up it. They must agree although amendments in between may be rejected,
  withdrawn, expired or accepted out of order. `OnlyTheTermsInForceAreOwed`: what the
  newer terms do not cancel makes their acceptance fail, it does not stay behind.
- `OneSettlementIsOwed`: two unique indexes, on the root and on the superseded decision,
  make a single chain, and the supersession closes the entitlement it replaces.

### Bounds and why they are enough

Counters (time, rows, revisions, events, requests) are capped by constants in
guards: `MaxClock`, `MaxTaskRev`, `MaxRev`, `MaxClaims`, `MaxAttempts`,
`MaxEvidence`, `MaxWaits`, `MaxLeases`, `MaxEvents`, `MaxApprovals`, `MaxSent`,
`MaxOperations`, `MaxIncidents`, `MaxPushes`, `MaxContracts`, `MaxProposals`,
`MaxDecisions`, `MaxCompletions`, `MaxRows`, `MaxOffers`, `MaxEffects`. An
instance ends when its counters are used up, so deadlock is not checked there
(Readiness has no counters, never stops and is checked for deadlock).

- Two callers show every race over one task: claims of different tasks share
  nothing but the clock, and a third caller plays the part of the second.
- A lease of 2 with samples up to a tick old and time up to 3 has every relation
  of a sample to an expiry: before, at and after.
- Two claims per task suffice for a reclaim, three resource leases on two keys for
  a reclaim next to another key's lease, and sweep limits of 1 and 5 for a sweep
  that cuts off and one that does not.
- A parent and a child show a cascade, a restore, an orphan and the shortest loop. That
  no larger tree does worse is proved (`TaskLedgerProofs`).
- `ledger_tree` has attempts and waits but no claims, `ledger_claims` claims but no
  attempts: `ClosedIsQuiet` and `HistoryIsImmutable` are each checked on one of the two
  and proved for all of it, also with the times that callers of an attempt state.
- Three commitments are the first graph whose cycle a check that looks one edge ahead
  would miss.
- Three offers are a chain in which the middle one may be accepted, rejected, withdrawn
  or expire. Three decisions are a settlement, one that supersedes it and either a
  recourse or a second supersession.
- Two events show order and gaps. One attempt reaches quarantine, which the doctor
  repairs; two attempts show a retry with backoff.
- Two approvals show replacement, revocation and denial; windows `<<0, 2>>` and
  `<<1, 9>>` a lapse and a start that is not yet. Two requests show the second
  dispatch.
- Two replicas with two operations between them on one record show a conflict, a rebase, a
  stopped push and a chain that continues; one incident shows each kind of incident
  at every point, not two of them in a row.
- Two deciding calls show every race for the leaf of the chain; three decisions are
  "too early", "challenged" and its adjudication. One proposal: proposals
  share only the commitment and the trust records.
- Three rows of Waits are two waits and a fact, a wait and two facts, or three
  waits, of which a sweep takes two. One sweeper is enough to
  act on an old list and to starve a wait; that any number of them that overlap keep the
  three safety properties is proved (`WaitsProofs`).

`TaskSymmetry`, `RunnerSymmetry`, `WorkerSymmetry`, `ReplicaSymmetry`,
`ResolutionSymmetry`, `PlainSymmetry` and `PartySymmetry` permute interchangeable rows,
processes or names, and are used only in runs without liveness properties.

### Fairness

Two runs need it. In `outbox_liveness`, `DrainFairness` says that time passes and that
commands keep being run; every command drains first. `Lease`, the append attempt and the
refusals are weakly fair. Completing, failing and appending WHILE THE ROW IS STILL OWNED
are strongly fair: a run may die or outlive its lease any number of times, but not
always exactly there. Without that no retry scheme settles anything, and the code does
assume it: the drain leases a row for thirty seconds (`runtime.ts:386`), far longer than
an append takes. Nothing says an append succeeds: it may fail each time, which is why
the property ends in delivery OR quarantine. Crashes, commits and maintenance commands
have no fairness.

In `waits`, `SweepFairness` says that time passes, that sweeps keep being
started (`tasq wait sweep`, which the architecture document leaves to the runtime to
invoke: `docs/concepts/ARCHITECTURE.md:326`), and that a sweep may die, but not every
time it gets to the same wait. Reconciliation, ingestion and everything that
callers do have no fairness: the deadline is what decides in the end.

## Proofs

All theorems hold for every value of the constants that the named assumptions of their
module admit; TLC evaluates these in every run. They are: NULL markers are no values
(`None` is no principal and no reason, `NoTask` no task, `"none"` no state of a
commitment), durations are positive, lags and bounds are numbers, forcers, deciders and
verifiers are callers, and the policies in use are among those `Means` describes.

The first part of `TaskLedgerProofs` is about `TaskTree`. The ancestors of a row are the
least set closed under the parent link; restated over an arbitrary parent function
(`Above`), two lemmas say that they are closed and least, and every other fact follows
without induction. `GraftMakesNoLoop` is the heart: hanging `t` under a row that is not
below `t` makes no loop. The invariant `TreeInv` adds `UnusedRows` to the two properties,
since an insert is a graft of a row that must be nobody's parent. `TreeIsAcyclic` and
`NoOrphans` follow, and `LedgerImplementsTree` (`LedgerSpec => TreeSpec`) carries them
over to the ledger as `LedgerTreeIsSound`.

The rest is about `TaskLedger`.

- `LedgerTypes`: `LedgerTypeOK` is invariant, action by action. `EndClaimsType`
  and the `Rows`, `EndedRows`, `RenewedRows`, `GrantedRows` lemmas say what the
  three ways of changing the claim table do to it; all later proofs use those
  instead of the sequences.
- `ClaimsAreExclusive` (`OneUnreleasedClaim`) and `ClaimsAreFenced` (`FencesGrow`):
  neither is inductive alone. That a grant leaves one unreleased claim needs the
  reclaim to end all of the task's claims; that its fence is larger needs
  `NextFence`, a CHOOSE of the largest fence, to exist, hence fences bounded by
  the number of rows. The inductive invariant is `ClaimInv`, the conjunction of
  `FencesBounded`, `FencesGrow` and `OneUnreleasedClaim` on top of the types.
- `ClaimsFollowEachOther` (`ClaimsTakeTurns`): `TurnInv` adds that no claim was acquired
  or heard of later than the wall clock. An end is refused on a sample older than the
  claim's beginning (`MayEnd`), and a claim replaces only what is released or
  expired, so that an end before its beginning, or long after its successor's, would need
  a sample from outside the lag.
- `LedgerImplementsFencedLease` and `LedgerKeepsLeasePromises`: every step of the ledger
  is a step of `FencedLease` or leaves it alone, hence its `NoStealing` and
  `NewHolderNewFence` hold of claims. `LeaseInv` adds to `ClaimInv` that the unreleased
  claim of a task is its last one (`UnreleasedIsLast`): without it the abstract fence,
  the highest granted (`Highest`), need not be the holder's.
- `TakeoverIsNeverSilent` (`NoSilentTakeover`): no invariant beyond types and
  `ClaimInv`; the step is arithmetic on the sample. Because `now <= clock`, a claim
  the wall clock still honours is honoured by every sample.
- `ClosedTasksAreQuiet` (`ClosedIsQuiet`): whoever starts something checks
  `Workable` in the same transaction, whoever ends workability ends what runs.
  `QuietCarriesOver` disposes of the actions that touch neither side.
- `HistoryIsNeverRewritten` (`HistoryIsImmutable`): the ways of changing the claim
  table touch unreleased rows only; a transition, a deletion and the refutation of a
  premise write attempts, and they ask for active ones; the other two tables are
  appended to.
- `RevisionsAreSound` (`RevisionNamesTheContent`): each operation moves the revision of
  each row it writes by one (`RowRevisedStep`), several rows at a time when a subtree is
  deleted. `AbsentIsNew`, a row that does not exist has revision 0, covers creation.
- `DoneRestsOnEvidence` (`DoneOnEvidence`): in `EvidenceInv` a completion names a
  revision that its commitment has reached, so that the record of the latest completion
  has the highest one; the same commitment may have been completed, and reopened,
  without evidence before. `CitedWhenValid`: evidence that supersedes a cited piece was
  recorded after the completion, which reads the evidence in its own transaction.

`ResourceLeasesProofs` has the types, the same refinement (`ResourceImplementsFencedLease`,
`ResourceKeepsLeasePromises`) from a `LeaseInv` of its own, also when the clock is set
back, and `ValidVerdictsHold`. The last needs `CheckInv`: since the row was read its
expiry only moved forward, and while the clock is steady it was recorded as expired only
when the expiry that was read had passed.

`EffectsProofs` proves all six invariants of `Effects` for any number of runners,
any approval windows and any bounds. They follow from one inductive invariant,
`EffectInv`, which adds to them what the runner's program relies on without saying so:

- `BasisIsCounted`: an executing row is exactly one revision past the one its begin
  expected, an indeterminate row two. This is what `authorizedRevision` counts on;
  `RecoveryIsPossible` is its consequence (lemma `Recovered`).
- `BegunBeforeSent`: a runner past the begin works on a begun effect, and a begun
  effect stays begun (`BegunForGood`). `CancellationBeatsDispatch` follows: the
  guard of a cancellation and the conditional begin exclude each other.
- `ReportsAreProven`: a terminal outcome on its way from a runner to the ledger is
  the provider's, which decides once (`ProviderDecidesOnce`). `LedgerNeverGuesses`
  needs it for the receipt that is recorded after a crash, a resend or a lookup.
- `ResolvedByReceipt`: a resolved effect has a receipt, for `OneStory`.

`RowMoves`, `RowAfter` and `DecisionAfter` say once which operations write the row
and what they leave in it; `AuthorizedByTheLastWord` is read off them.

`ReadinessProofs` holds for any commitments, assumptions and premises. `ReadinessInv` is
types, `RelationsAreSeen` (an active relation is a live dependency row) and
`RelationsAreWellFounded`. The first makes either interface's walk sound: a walk over
`task_dependency` covers more than the relations, and a walk over the relations covers
them all (`CheckedEdgeIsSafe`, `GrownGraph`, `ShrunkGraph`). `OfferedIsAlwaysClaimable`
needs only the first, `SomebodyCanAlwaysMove` the second.

`ResolutionProofs` holds for any number of calls that decide at once. A call reads in
several transactions and writes in a last one, so `ResolutionInv` says what it still
knows then: `CallsFit` gives, for each step of a call, what is true of the decision it is
about to write, for as long as the call lives, and `DecisionsFit` what a decision keeps of
it. What a call has read stays good because it cannot be undone: that the evidence was
attested (revoked later or not, as the code allows), that the window has passed, that any
other challenge comes too late. With `LeafExists` a call that
supersedes nothing finds no decision at all, hence `OneChainOfDecisions`;
`AcceptanceMustBeEarned`, `TimelyChallengeHeard` and `DoneUnderItsCriteria` are read off
the written decisions.

`WaitsProofs` holds for any number of sweeps. In `WaitsInv`, `VerdictInv` says that a
satisfied wait and its satisfying verdict name each other (`OneVerdictDecides`);
`ExpiryInv` that a wait expired after its deadline with no fact in time on the table, so
that a fact it should have counted was recorded on a sample that was already late
(`TimelyFactHeard`); `SpawnInv` that the commitments created by fallbacks are one for each
expired wait that creates one (`OneFallbackPerExpiry`): a sweep acts on a list it read
earlier, and what keeps it from acting twice is the status it reads again.

The first part of `DeliveryProofs` is about `Outbox`, whatever dies and whichever
commands are in use. What the journal accounts for, in a line or under a checkpoint, it
never forgets. `OutboxInv` says for each process what it relies on from its last read:
`WorkerInv`, that everything enqueued before a worker's event is accounted for, and that
after the append so is the event; `DoctorInv`, that what a repair takes for delivered is;
`JournalInv`, that the segment continues a checkpoint of its chain.
`AcknowledgedIsAccounted` and `JournalIsGapless` follow.

`OutboxImplementsOrderedDelivery` takes `OutboxInv` as it is: it says for every step what
the step does to the events owed, accounted for and acknowledged. An append comes after
all earlier events (`WorkerInv`), and so does what a checkpoint covers; an acknowledgement
and a repair speak of an event that is accounted for (`WorkerInv`, `DoctorInv`), although
they act on readings that are old. `OutboxKeepsDeliveryPromises` then proves `InOrder` and
`NothingSkipped` of the abstract delivery and carries them over. The refinement implies
that `DeliveredIsAccounted` and `JournalHasNoGap` hold, which therefore have theorems and
no run of their own.

The second part is about `Replication`. An operation holds its predecessor, which holds
its own: no set that can be written down contains all operations, so the invariant says
which fields the tables have, and there is no theorem of its types. Three invariants
build on each other:

- `ReplicationInv` is about the authority: what it takes for a replica's last operation
  is the last one of its log (`FrontierInv`), a retired commitment is absent from its
  projection, the present one and those of the log (`DataInv`), and the results on the
  way are those of the log unless their replica is of an earlier epoch (`NetworkInv`,
  `EpochInv`). Hence `DotsOnceInOrder`, `DecisionsAgree` and `RetiredIsGone`.
- `QueueInv` adds that a replica's queue is a chain whose decided entries come first
  (`ChainInv`), that what is on the way is a run of it (`RunInv`) and that every database
  shows states of commitments (`ShowInv`). `QueuesAreChains` and `OutcomesHold` follow.
  For `VerdictsAreFinal` every step says what it does to the queues (`QueuesKept`, by
  way of `Keeps`: a queue only grows and a verdict stands, also when an acknowledgement or
  a rebase rewrites the rest) and to the log (`RowsAreFinal`: within an epoch its rows
  stay, and a new one is of that epoch). An acknowledgement checks each result
  against the entry it is for; that an entry has no second, other result in the same
  reply takes `RunInv`.
- `CalmInv` says what a replica of the present epoch, or one that has joined none, may
  show: only what came from the authority or from its own queue (`CalmReplica`); a
  snapshot at the current sequence knows every operation the authority has accepted
  (`CalmMessage`). Replicas and snapshots of an earlier epoch are left out, because what
  a recovery from an older backup forgot may still be in them; `BlankInv`, that a replica
  without an epoch shows nothing, is where those start that rejoin. With them an install
  clears whatever else the replica had: `SnapshotsAreShown`, for all that operators do.
  The parts that need a quiet authority have `incidents = 0` as their hypothesis, as
  the property has; `QuietReplicasShowTheAuthority`, the convergence of replicas, is
  read off the same invariant.

The rebase is a fold over the pending operations, and `ReplayRuns` proves what it does
after each of them.

`ObligationsProofs` is about `Agreements` and `Settlement`. The offers of an agreement
form chains, since each amends an older one and is amended by one at most (`OffersInv`);
two walks down them that meet are one (`WalksMeet`). `ActivationsInv` says that of two
activated offers of a chain the lower one was replaced, which gives `OneSetOfTerms`, and
what `ReplacedTermsAreSettled` needs besides is that replaced terms were ended in the
transaction that replaced them. In Settlement the first decision is the only root
(`RootIsThere` and the root index), every later one supersedes, and the index on
successors makes it supersede the one that stands (`OneStands`); `SupersededIsClosed` is
what `retireSupersededMaterializations` leaves behind.

The induction theorems of the library take an operator as a parameter, which the provers
cannot instantiate. What needs induction, above all the walk down a chain of offers and
the replay of a queue, takes the least number at which the claim fails instead
(`LeastNumber`, from the well-foundedness of the numbers) and looks at the one before it.

Every safety invariant and every action property of the runs is stated by a theorem, and
so are the four refinements (claims and resource leases of `FencedLease`, the outbox of
`OrderedDelivery`, the ledger of `TaskTree`). Left to TLC: `EveryEventSettles` and
`EveryDueWaitIsDecided`, which are liveness under fairness, and `ExpiryFreesTheTask`, which
says that an action is ENABLED; the provers reason about neither. Nothing is proved of the values TLC gives the
constants in the MC modules, nor that the models match the code.

## Findings

Places where the code does less than a document, or one of its own comments, says.
None is among the standing runs, which all pass. For the first five a property and a
`.cfg` are kept, so that TLC shows the behaviour: `tlc -config <cfg> <module>` reports
the property violated within seconds. The others were met while modelling.

1. `EffectOnce.cfg` on `MCEffects`, `DispatchedOnce`. The runner's README:19 says an
   executing effect "is never blindly dispatched again". Dispatch or lookup is decided
   by the status read BEFORE the begin call (`runner.ts:271`), and a repeated begin of
   an executing effect is answered with the permit again (`effects.ts:660-692`). Two
   runners that both read "authorized" both dispatch. The provider's idempotency on the
   dispatch key keeps the operation itself single, and `OutcomeIsProven` holds; the
   sentence does not.
2. `ReadinessGraph.cfg` on `Readiness`, `NoSecondGraph`. `dependencies.ts:253` calls the
   older interface "a transactional compatibility adapter instead of a second graph".
   `dependTask` revives a removed edge under its old `task_dependency` id and gives the
   new relation an id of its own (`:269`); `endCommitmentRelation` ends the
   row with the relation's id only (`collaboration.ts:545-550`). Add, remove, add again
   by the older interface, end by the newer: the row stays live without a relation, the
   queue hides the commitment while its former blocker is open, and only `undependTask`
   can end it. (`0002_task_dependency.sql:3` also reads the edge the other way round
   than the code does.)
3. `ReadinessFilter.cfg` on `Readiness`, `FilteredOfferIsClaimable`. `prioritizer.ts:274`
   says that the blocker statuses are "built from the UNFILTERED candidate rows". The
   rows come from SQL that has already filtered by area, goal, project or priority
   (`:159-167`), and a blocker that is not among them counts as resolved: a filtered
   queue offers a commitment that the claim then refuses.
4. `SettlementSent.cfg` on `Settlement`, `NothingSentIsSuperseded`. ADR-016:37-39: a
   supersession "may retire only pre-dispatch effects and non-performed commitments".
   `retireSupersededMaterializations` looks at the effect that the settlement itself
   proposed (`settlement.ts:264`). That effect names no attempt, and
   `beginEffectExecution` asks for a running one, so it can never be sent; what is
   sent is an effect proposed for the attempt on the entitlement, which nothing looks at.
   The commitment is open again once that attempt has ended, and is retired.
5. `SettlementRecourse.cfg` on `Settlement`, `OneRecoursePerDecision`. ADR-016:42-45
   promises no "duplicate entitlement trees" per source decision. A recourse may
   supersede a recourse of ANOTHER source, which takes it past the root index and gives
   its own source a second standing recourse.
6. Depth of the tree. `tables.ts:298` states "no cycles, max depth 5". A subtask is
   deleted, its parent is moved one level down (`subtreeHeight` does not see the
   tombstone), and the subtask is restored (`restoreTaskInTransaction` looks at the
   parent only, not at the depth): it is now live below the limit. An invariant
   that bounds `Depth` over TaskTree fails with three rows and a limit of two.
7. Exactly-once journal. TQ-402:53 promises exactly-once journal records. `tasq
   journal checkpoint` reads the database cursor before it takes the journal lock. A
   line appended in between goes into the archive above the new cursor; if its
   worker dies before the acknowledgement, the retry finds it neither in the new
   segment nor covered and writes it again. Nothing is lost: `outbox_journal` shows
   `ImplementsOrderedDelivery` all the same.
8. Retried pushes. ADR-003:437 says that retrying after a lost response returns the
   same results. When the reply to a push is lost, or the push is accepted only in
   part, and the replica pulls a snapshot before it retries,
   `installReplicationSnapshotAndRebase` (`replication.ts:1950`) rebases what it still
   holds as pending, which changes its digest; `acceptOneOperation` (`:989`) then
   finds another digest under the same dot and refuses it as identity corruption, at
   every further attempt. `QueueIsOneChain` and `EachDotOnceInOrder` hold: the
   replica is stuck, not wrong.
9. Challenges. ADR-005:123-124 lets a settlement accept "only if no eligible
   challenge exists". The challenges are listed (`resolution.ts:689`) before the
   transaction that accepts, and a challenge is stamped with the sample of its
   caller, so that one made in the last moment of the window can be committed and
   overlooked; `TimelyChallengeIsHeard` states what does hold. A trust record that is
   revoked between the two steps is not looked at again either.
10. Doctor on validated completions. `doctor.ts:616-622` reports a completion whose
   decision is superseded. Accepting, completing, reopening and deciding again is a
   legal sequence that leaves such a record.
11. Observation feed. ADR-006:166-169 and `observations.ts:186` call the cursor
   lossless. `recordedAt` is sampled before the transaction and the ids of one
   instant are random, so a poller can pass an observation that is committed after
   its poll with an earlier position.
12. Sweeps. `docs/concepts/ARCHITECTURE.md:333` says one invalid fallback cannot starve
   other due work. That needs a limit above the number of failing fallbacks: `--limit 1`
   and one activation whose target was closed starve every later deadline.
13. Contention records. `contention.ts:95-101` records a refusal outside the transaction
   that threw, so that the rollback does not take it away. Where the refused operation is
   nested in another one (a compilation of an agreement that cancels a claimed
   commitment), the outer transaction rolls the record back all the same.
14. Reopened commitments. A commitment of replaced terms that the amendment cancelled
   can be reopened by hand like any other; `OnlyTheTermsInForceAreOwed` and
   `OneSettlementIsOwed` name that exception.

## Not modelled, and why

- Stealing the journal lock by age and torn lines: below the level at which a line
  is appended atomically; they appear as the failing branch of the append.
- Stored idempotency results: a replay is a stutter everywhere. That a record expires
  after thirty days is outside the model.
- The polling cursor of the observation feed: its promise does not hold (finding 11),
  and what does hold is the lag bound by itself.
- What a condition compares (matchers), the criteria of a contract one by one, and
  the bodies of replicated commands: data that no property tells apart.
- Corrections and compensations of effects: new effects or records that refer to a
  finished one and change nothing in it.
- The runner's own outbox sink: it follows the protocol of Outbox, where sinks do not
  interact.
- Around readiness: assignments, costs, informational relations, the lists of what a
  completion unblocked, the other filters of `pickNext`, and the proposals and
  challenges that precede the decision on a premise.
- Around agreements and settlement: the binding of signed statements, and the facts and
  policies that a settlement is computed from; any of their outcomes may come.
- The hosted control plane and the server's store: tenants, workspaces, backups and
  mandates around the ledger. Their writes between awaits make them worth a module
  (see the plan).
- Signatures, canonical JSON, digests: equality of digests is equality of contents.
- Formatting, transport, user interface, read-only views, benchmarks, packaging.

## Plan

In this order; each item names the abstract statement or theorem it is for.

1. `Idempotency`: retry records, expiry, the CLI's retry of a busy command, composed
   with a mutation. Property: at most one effect per key within its retention.
2. `CloudWorkspaces`: provisioning, suspension, reconciliation, backup, restore and
   retention of hosted workspaces, whose steps write without looking at the status
   again. Property: what a retention sweep leaves restorable is whole.
3. Composition of the runner's drain with Outbox, of Waits with the completion and
   reopening of TaskLedger, and of Readiness with its claims.

Theorems next: those of the modules above, from the start with their invariants; that a
composition keeps what its parts promise, which is a refinement proof per part; and,
for the runner's drain, that its sink implements `OrderedDelivery` too. New runs replace
or extend existing ones: a run asks one question and takes a small instance.
