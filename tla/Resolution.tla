----------------------------- MODULE Resolution -----------------------------
(***************************************************************************)
(* Independent completion resolution (tasq-core/src/service/resolution.ts  *)
(* and the completion that rests on it, tasks.ts): a contract freezes the  *)
(* success criteria of a commitment, a proposal cites evidence for them,   *)
(* others challenge it for a while, and a decision, superseded or not, is  *)
(* what a completion needs.                                                *)
(*                                                                         *)
(* Contracts, trust records, proposals, challenges, completions and the    *)
(* commitment's own changes are one transaction each.  A decision is not:  *)
(* a call reads the commitment, the trust records, the current decision    *)
(* and the challenges one after another, and only its last step, which     *)
(* writes the decision, is a transaction.  Clock samples are taken before  *)
(* the transaction that uses them, up to MaxLag ticks earlier.             *)
(*                                                                         *)
(* One commitment, with validationRequired.  What makes evidence unfit is  *)
(* its missing or revoked attestation, or that a proposal cites none; its  *)
(* kind, source and age and a contract's notBefore are further reasons of  *)
(* the same kind.  Only optimistic contracts have a challenge window       *)
(* (challengeWindowMs is 0 by default).  Idempotent replays change         *)
(* nothing.                                                                *)
(***************************************************************************)
EXTENDS Naturals, Sequences, FiniteSets

CONSTANTS
  Evidence,      \* the commitment's evidence
  Criteria,      \* texts its success criteria may have
  Principals,    \* who proposes, attests and adjudicates
  Validators,    \* those whom contracts name as validators and adjudicators
  Policies,      \* policies in use: deterministic, attestation, optimistic, adjudicated
  Callers,       \* concurrent calls that decide
  Window,        \* challengeWindowMs of an optimistic contract
  MaxLag,        \* bound: ticks between a clock sample and its transaction
  MaxClock,      \* bound: ticks
  MaxContracts,  \* bound: contracts
  MaxProposals,  \* bound: proposals
  MaxDecisions,  \* bound: decisions
  MaxCompletions \* bound: completions

\* Which calls a policy allows.
Means ==
  [deterministic |-> {"evaluate"}, attestation |-> {"attest"},
   optimistic |-> {"settle", "adjudicate"}, adjudicated |-> {"adjudicate"}]

ASSUME ResolutionAssumption ==
  /\ Policies \subseteq DOMAIN Means
  /\ Validators \subseteq Principals /\ Criteria # {}
  /\ Window \in Nat \ {0} /\ MaxLag \in Nat /\ MaxClock \in Nat
  /\ {MaxContracts, MaxProposals, MaxDecisions, MaxCompletions} \subseteq Nat

VARIABLES
  task,        \* the commitment: its status and success criteria
  superseded,  \* the evidence that newer evidence has superseded
  trust,       \* trust[e]: the leaf of e's trust records
  contracts,   \* resolution_contract, in the order of their creation
  proposals,   \* completion_proposal
  challenges,  \* completion_challenge: which proposal, and the clock sample
  decisions,   \* validation_decision
  completions, \* completion_record: the decision each one cites
  calls,       \* calls[d]: what the call in progress of d has read
  clock        \* the wall clock

resolutionVars == <<task, superseded, trust, contracts, proposals, challenges,
                    decisions, completions, calls, clock>>

Outcomes == {"accepted", "rejected", "too_early", "indeterminate", "challenged"}
Manual == {"attest", "adjudicate"}

Idle == [step |-> "idle"]

ResolutionInit ==
  /\ \E text \in Criteria : task = [status |-> "open", criteria |-> text]
  /\ superseded = {}
  /\ trust = [e \in Evidence |-> "none"]
  /\ contracts = << >> /\ proposals = << >> /\ challenges = {} /\ decisions = << >>
  /\ completions = << >>
  /\ calls = [d \in Callers |-> Idle]
  /\ clock = 0

\* A clock sample that a transaction may still rest on.
Sampled(now) == now \in 0..clock /\ clock <= now + MaxLag

ContractOf(p) == contracts[proposals[p].contract]
Deadline(p) == proposals[p].at + Window
DecisionsOn(p) == {i \in DOMAIN decisions : decisions[i].proposal = p}
IsSuperseded(i) == \E j \in DOMAIN decisions : decisions[j].supersedes = i

\* currentDecision: the leaf of the chain, 0 where there is none.
Current(p) ==
  IF DecisionsOn(p) = {} THEN 0 ELSE CHOOSE i \in DecisionsOn(p) : ~IsSuperseded(i)

-----------------------------------------------------------------------------
(* The commitment. *)

\* updateTaskInTransaction: the terms of a terminal commitment do not change.
UpdateTask(criteria) ==
  /\ task.status = "open"
  /\ task' = [task EXCEPT !.criteria = criteria]
  /\ UNCHANGED <<superseded, trust, contracts, proposals, challenges, decisions,
                 completions, calls, clock>>

\* A commitment that is cancelled or deleted is as closed as one that is done.
Reopen ==
  /\ task.status = "done"
  /\ task' = [task EXCEPT !.status = "open"]
  /\ UNCHANGED <<superseded, trust, contracts, proposals, challenges, decisions,
                 completions, calls, clock>>

\* addTaskEvidence with supersedesEvidenceId; the new evidence is not cited here.
SupersedeEvidence(e) ==
  /\ e \notin superseded
  /\ superseded' = superseded \cup {e}
  /\ UNCHANGED <<task, trust, contracts, proposals, challenges, decisions,
                 completions, calls, clock>>

-----------------------------------------------------------------------------
(* Contracts, trust, proposals and challenges. *)

CreateContract(policy) ==
  /\ Len(contracts) < MaxContracts
  /\ contracts' = Append(contracts, [criteria |-> task.criteria, policy |-> policy])
  /\ UNCHANGED <<task, superseded, trust, proposals, challenges, decisions,
                 completions, calls, clock>>

\* attestEvidenceTrust: one attestation per piece of evidence, ever.
AttestTrust(e) ==
  /\ trust[e] = "none"
  /\ trust' = [trust EXCEPT ![e] = "attested"]
  /\ UNCHANGED <<task, superseded, contracts, proposals, challenges, decisions,
                 completions, calls, clock>>

\* revokeEvidenceTrust, for good.
RevokeTrust(e) ==
  /\ trust[e] = "attested"
  /\ trust' = [trust EXCEPT ![e] = "revoked"]
  /\ UNCHANGED <<task, superseded, contracts, proposals, challenges, decisions,
                 completions, calls, clock>>

\* What proposeCompletion and prepareValidation demand of the commitment.
OpenUnder(contract, evidence) ==
  /\ task.status = "open"
  /\ task.criteria = contract.criteria
  /\ evidence \cap superseded = {}

ProposeCompletion(c, evidence, proposer, now) ==
  /\ Len(proposals) < MaxProposals
  /\ Sampled(now)
  /\ OpenUnder(contracts[c], evidence)
  /\ proposals' = Append(proposals, [contract |-> c, evidence |-> evidence,
                                     proposer |-> proposer, at |-> now])
  /\ UNCHANGED <<task, superseded, trust, contracts, challenges, decisions,
                 completions, calls, clock>>

\* Whatever became of the proposal meanwhile, only the deadline counts.  The
\* challenger has seen the proposal, so the sample is not older than it.
ChallengeCompletion(p, now) ==
  /\ ContractOf(p).policy = "optimistic"
  /\ Sampled(now) /\ now >= proposals[p].at
  /\ now < Deadline(p)
  /\ challenges' = challenges \cup {[proposal |-> p, at |-> now]}
  /\ UNCHANGED <<task, superseded, trust, contracts, proposals, decisions,
                 completions, calls, clock>>

-----------------------------------------------------------------------------
(* Decisions: evaluate, attest, settle and adjudicate, await by await. *)

\* A caller that the contract lets decide (allowSelfValidation is off).
MayDecide(p, principal) == principal \in Validators \ {proposals[p].proposer}

\* The beginning of a call, up to and with its reading of the commitment and of
\* the cited evidence.  A manual call brings its outcome and the decision it
\* supersedes, settlement reads that one later.  Nothing rests on the clock sample
\* of the other calls.
Begin(d, means, p, principal, outcome) ==
  /\ calls[d] = Idle
  /\ means \in Means[ContractOf(p).policy]
  /\ means \in Manual => MayDecide(p, principal)
  /\ OpenUnder(ContractOf(p), proposals[p].evidence)
  /\ calls' = [calls EXCEPT ![d] =
       [step |-> "trust", means |-> means, proposal |-> p, principal |-> principal,
        outcome |-> outcome, supersedes |-> Current(p),
        now |-> IF means = "settle" THEN clock ELSE 0]]
  /\ UNCHANGED <<task, superseded, trust, contracts, proposals, challenges,
                 decisions, completions, clock>>

\* Wrong on purpose: evidence nobody ever attested counts.
FitUnlessRevoked(p) ==
  /\ proposals[p].evidence # {}
  /\ \A e \in proposals[p].evidence : trust[e] # "revoked"

\* What prepareValidation finds of the evidence.
Fit(p) ==
  /\ proposals[p].evidence # {}
  /\ \A e \in proposals[p].evidence : trust[e] = "attested"

\* What settlement says of a proposal without a challenge.
Unchallenged(p) == IF Fit(p) THEN "accepted" ELSE "indeterminate"

\* The call d goes on with these fields, or is over.
Continue(d, call) ==
  /\ calls' = [calls EXCEPT ![d] = call]
  /\ UNCHANGED <<task, superseded, trust, contracts, proposals, challenges,
                 decisions, completions, clock>>

\* The end of prepareValidation.  Manual acceptance of unfit evidence throws; an
\* evaluator is not asked about it.
ReadTrust(d) ==
  LET call == calls[d]
      fit == Fit(call.proposal)
  IN  /\ call.step = "trust"
      /\ \/ /\ call.means = "evaluate"
            /\ Continue(d, [call EXCEPT !.step = "append",
                              !.outcome = IF fit THEN @ ELSE "indeterminate"])
         \/ /\ call.means = "settle"
            /\ Continue(d, [call EXCEPT !.step = "leaf", !.outcome = Unchallenged(call.proposal)])
         \/ /\ call.means \in Manual
            /\ call.outcome = "accepted" => fit
            /\ Continue(d, [call EXCEPT !.step =
                 IF ContractOf(call.proposal).policy = "optimistic" THEN "leaf" ELSE "append"])

\* settleOptimisticCompletion before the deadline: too early, said once.
SettleEarly(d) ==
  LET call == calls[d]
  IN  /\ call.step = "leaf" /\ call.means = "settle"
      /\ call.now < Deadline(call.proposal)
      /\ Continue(d, IF Current(call.proposal) # 0 THEN Idle
                     ELSE [call EXCEPT !.step = "append", !.outcome = "too_early", !.supersedes = 0])

\* ... and from the deadline on, where only "too early" may be superseded.
SettleDue(d) ==
  LET call == calls[d]
      leaf == Current(call.proposal)
  IN  /\ call.step = "leaf" /\ call.means = "settle"
      /\ call.now >= Deadline(call.proposal)
      /\ Continue(d, IF leaf # 0 /\ decisions[leaf].outcome # "too_early" THEN Idle
                     ELSE [call EXCEPT !.step = "challenges", !.supersedes = leaf])

\* Wrong on purpose: a challenge as old as the proposal is overlooked.
ChallengesAfter(p) == {c \in challenges : c.proposal = p /\ c.at > proposals[p].at}

\* listCompletionChallenges.
ChallengesOf(p) == {c \in challenges : c.proposal = p}

ReadChallenges(d) ==
  LET call == calls[d]
  IN  /\ call.step = "challenges"
      /\ Continue(d, [call EXCEPT !.step = "append",
           !.outcome = IF @ = "accepted" /\ ChallengesOf(call.proposal) # {}
                       THEN "challenged" ELSE @])

\* adjudicateCompletion of an optimistic proposal: only the current, challenged
\* decision is open to it.
AdjudicateDispute(d) ==
  LET call == calls[d]
      leaf == Current(call.proposal)
  IN  /\ call.step = "leaf" /\ call.means = "adjudicate"
      /\ leaf # 0 /\ call.supersedes = leaf
      /\ decisions[leaf].outcome = "challenged"
      /\ Continue(d, [call EXCEPT !.step = "append"])

\* Wrong on purpose: any decision on the proposal may be superseded.
MaySupersedeAny(p, i) == i \in DecisionsOn(p) \cup {0}

\* What appendDecision and the unique indexes demand: the root is free, or the
\* superseded decision is the current one.
MaySupersede(p, i) == i = Current(p)

\* appendDecision: neither the commitment nor the evidence, the trust records or
\* the challenges are looked at again.
AppendDecision(d) ==
  LET call == calls[d]
  IN  /\ call.step = "append"
      /\ Len(decisions) < MaxDecisions
      /\ MaySupersede(call.proposal, call.supersedes)
      /\ decisions' = Append(decisions,
           [proposal |-> call.proposal, outcome |-> call.outcome, means |-> call.means,
            supersedes |-> call.supersedes, principal |-> call.principal, at |-> call.now])
      /\ calls' = [calls EXCEPT ![d] = Idle]
      /\ UNCHANGED <<task, superseded, trust, contracts, proposals, challenges,
                     completions, clock>>

\* A call throws, or its process dies.
GiveUp(d) == calls[d] # Idle /\ Continue(d, Idle)

-----------------------------------------------------------------------------
(* Completion: transitionTaskStatus to done, and its trigger. *)

\* Wrong on purpose: the criteria of the decision's contract are not compared.
MayCompleteOnAnyCriteria(i) ==
  /\ decisions[i].outcome = "accepted" /\ ~IsSuperseded(i)
  /\ proposals[decisions[i].proposal].evidence \cap superseded = {}

\* Trust is not asked again.
MayCompleteOn(i) ==
  /\ decisions[i].outcome = "accepted" /\ ~IsSuperseded(i)
  /\ ContractOf(decisions[i].proposal).criteria = task.criteria
  /\ proposals[decisions[i].proposal].evidence \cap superseded = {}

CompleteOn(i) ==
  /\ Len(completions) < MaxCompletions
  /\ task.status = "open"
  /\ MayCompleteOn(i)
  /\ task' = [task EXCEPT !.status = "done"]
  /\ completions' = Append(completions, i)
  /\ UNCHANGED <<superseded, trust, contracts, proposals, challenges, decisions,
                 calls, clock>>

Tick ==
  /\ clock < MaxClock
  /\ clock' = clock + 1
  /\ UNCHANGED <<task, superseded, trust, contracts, proposals, challenges,
                 decisions, completions, calls>>

-----------------------------------------------------------------------------
\* The calls one can make on proposal p.  One that names another decision than
\* the current one is refused in the end; other outcomes fare as "rejected".
BeginSome(d, p) ==
  \/ Begin(d, "settle", p, "anyone", "none")
  \/ \E outcome \in {"accepted", "rejected"} :
       \/ Begin(d, "evaluate", p, "anyone", outcome)
       \/ \E means \in Manual, q \in Principals : Begin(d, means, p, q, outcome)

CallNext(d) ==
  \/ \E p \in DOMAIN proposals : BeginSome(d, p)
  \/ calls[d] # Idle /\ (\/ ReadTrust(d) \/ SettleEarly(d) \/ SettleDue(d)
                         \/ ReadChallenges(d) \/ AdjudicateDispute(d) \/ AppendDecision(d))
  \/ GiveUp(d)

ResolutionNext ==
  \/ Tick \/ Reopen
  \/ \E text \in Criteria : UpdateTask(text)
  \/ \E e \in Evidence : AttestTrust(e) \/ RevokeTrust(e) \/ SupersedeEvidence(e)
  \/ \E policy \in Policies : CreateContract(policy)
  \/ \E c \in DOMAIN contracts, evidence \in SUBSET Evidence, q \in Principals, now \in 0..clock :
       ProposeCompletion(c, evidence, q, now)
  \/ \E p \in DOMAIN proposals, now \in 0..clock : ChallengeCompletion(p, now)
  \/ \E d \in Callers : CallNext(d)
  \/ \E i \in DOMAIN decisions : CompleteOn(i)

ResolutionSpec == ResolutionInit /\ [][ResolutionNext]_resolutionVars

-----------------------------------------------------------------------------
(* What resolution promises. *)

\* The records refer to each other and outcomes are of the five.
ResolutionTypeOK ==
  /\ task \in [status : {"open", "done"}, criteria : Criteria]
  /\ superseded \subseteq Evidence
  /\ trust \in [Evidence -> {"none", "attested", "revoked"}]
  /\ contracts \in Seq([criteria : Criteria, policy : Policies])
  /\ proposals \in Seq([contract : DOMAIN contracts, evidence : SUBSET Evidence,
                        proposer : Principals, at : 0..clock])
  /\ challenges \subseteq [proposal : DOMAIN proposals, at : 0..clock]
  /\ \A i \in DOMAIN decisions :
       /\ decisions[i].proposal \in DOMAIN proposals
       /\ decisions[i].outcome \in Outcomes
       /\ decisions[i].supersedes \in 0..i - 1
  /\ \A k \in DOMAIN completions : completions[k] \in DOMAIN decisions

\* The decisions on a proposal are one chain, however many calls decide at once:
\* one root, and no decision superseded twice (appendDecision, uniq_validation_decision_*).
DecisionsFormOneChain ==
  \A i, j \in DOMAIN decisions :
    (decisions[i].proposal = decisions[j].proposal /\ decisions[i].supersedes = decisions[j].supersedes)
      => i = j

\* A proposal is accepted on evidence that was attested, by somebody else than
\* its proposer where somebody decides, and not before its challenge window ends
\* where nobody does; over a recorded challenge only an adjudicator accepts it.
AcceptanceIsEarned ==
  \A i \in DOMAIN decisions : decisions[i].outcome = "accepted" =>
    LET p == decisions[i].proposal
        below == decisions[i].supersedes
    IN  /\ proposals[p].evidence # {}
        /\ \A e \in proposals[p].evidence : trust[e] # "none"
        /\ decisions[i].means \in Manual => MayDecide(p, decisions[i].principal)
        /\ decisions[i].means = "settle" => decisions[i].at >= Deadline(p)
        /\ below # 0 /\ decisions[below].outcome = "challenged" => decisions[i].means = "adjudicate"

\* A validated commitment that is done was accepted under the criteria it has
\* now, whatever was edited, reopened and completed in between.
DoneOnItsCriteria ==
  task.status = "done" =>
    LET i == completions[Len(completions)]
    IN  /\ decisions[i].outcome = "accepted"
        /\ ContractOf(decisions[i].proposal).criteria = task.criteria

\* A challenge that was made in time, and more than the lag of a clock sample
\* before the deadline, stops the settlement: whoever settles sees it.
TimelyChallengeIsHeard ==
  \A i \in DOMAIN decisions, c \in challenges :
    (/\ decisions[i].outcome = "accepted" /\ decisions[i].means = "settle"
     /\ c.proposal = decisions[i].proposal)
      => c.at + MaxLag >= Deadline(c.proposal)
=============================================================================
