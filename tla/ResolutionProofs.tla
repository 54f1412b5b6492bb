--------------------------- MODULE ResolutionProofs ---------------------------
(***************************************************************************)
(* Proofs about Resolution, for every set of evidence, principals and      *)
(* criteria, any number of calls that decide at once, any challenge window *)
(* and any lag of a clock sample.                                          *)
(***************************************************************************)
EXTENDS Resolution, SequenceTheorems, TLAPS

-----------------------------------------------------------------------------
(* The invariant. *)

AllMeans == {"evaluate", "attest", "settle", "adjudicate"}

\* What a call in progress has read and will write.
CallRecord ==
  [step : {"trust", "leaf", "challenges", "append"}, means : AllMeans,
   proposal : DOMAIN proposals, principal : Principals \cup {"anyone"},
   outcome : Outcomes \cup {"none"}, supersedes : {0} \cup DOMAIN decisions, now : 0..clock]

ContractRecord == [criteria : Criteria, policy : Policies]

ProposalRecord ==
  [contract : DOMAIN contracts, evidence : SUBSET Evidence, proposer : Principals, at : 0..clock]

DecisionRecord ==
  [proposal : DOMAIN proposals, outcome : Outcomes, means : AllMeans,
   supersedes : {0} \cup DOMAIN decisions, principal : Principals \cup {"anyone"}, at : 0..clock]

Tables ==
  /\ task \in [status : {"open", "done"}, criteria : Criteria]
  /\ superseded \subseteq Evidence
  /\ trust \in [Evidence -> {"none", "attested", "revoked"}]
  /\ contracts \in Seq(ContractRecord)
  /\ proposals \in Seq(ProposalRecord)
  /\ challenges \subseteq [proposal : DOMAIN proposals, at : 0..clock]
  /\ decisions \in Seq(DecisionRecord)
  /\ completions \in Seq(DOMAIN decisions)
  /\ DOMAIN calls = Callers
  /\ clock \in Nat

\* The evidence of p was attested, whatever has been revoked since.
Shown(p) ==
  /\ proposals[p].evidence # {}
  /\ \A e \in proposals[p].evidence : trust[e] # "none"

\* No challenge to p but those of the last MaxLag ticks of its window, or later.
OnlyLateChallenges(p) ==
  \A c \in challenges : c.proposal = p => c.at + MaxLag >= Deadline(p)

NothingOrTooEarly(i) == i # 0 => decisions[i].outcome = "too_early"

\* What a call knows at each step of what it will write.
CallFits(c) ==
  /\ c \in CallRecord
  /\ c.means \in Means[ContractOf(c.proposal).policy]
  /\ c.means \in Manual => MayDecide(c.proposal, c.principal)
  /\ c.outcome = "challenged" => c.means = "settle"
  /\ c.outcome = "none" => c.step = "trust" /\ c.means = "settle"
  /\ c.step = "challenges" => c.means = "settle"
  /\ (c.outcome = "accepted" /\ c.step # "trust") => Shown(c.proposal)
  /\ (c.means = "settle" /\ c.step \in {"challenges", "append"}) =>
       /\ NothingOrTooEarly(c.supersedes)
       /\ c.outcome # "too_early" => c.now >= Deadline(c.proposal)
  /\ (c.means = "settle" /\ c.step = "append" /\ c.outcome = "accepted") =>
       OnlyLateChallenges(c.proposal)

CallsFit == \A d \in Callers : calls[d] = Idle \/ CallFits(calls[d])

\* What a decision that was written keeps of it.
DecisionFits(i) ==
  LET r == decisions[i]
  IN  /\ r.supersedes < i
      /\ r.supersedes # 0 => decisions[r.supersedes].proposal = r.proposal
      /\ r.means \in Means[ContractOf(r.proposal).policy]
      /\ r.means \in Manual => MayDecide(r.proposal, r.principal)
      /\ r.outcome = "challenged" => r.means = "settle"
      /\ r.outcome = "accepted" => Shown(r.proposal)
      /\ r.means = "settle" => NothingOrTooEarly(r.supersedes)
      /\ (r.means = "settle" /\ r.outcome = "accepted") =>
            r.at >= Deadline(r.proposal) /\ OnlyLateChallenges(r.proposal)

DecisionsFit == \A i \in DOMAIN decisions : DecisionFits(i)

\* A proposal with a decision has a current one.
LeafExists ==
  \A i \in DOMAIN decisions : \E j \in DOMAIN decisions :
    /\ decisions[j].proposal = decisions[i].proposal
    /\ \A k \in DOMAIN decisions : decisions[k].supersedes # j

\* A commitment that is done has a completion, and the decision of its last one was
\* taken under the criteria the commitment has.
DoneFits == task.status = "done" => completions # << >> /\ DoneOnItsCriteria

ResolutionInv ==
  Tables /\ CallsFit /\ DecisionsFit /\ LeafExists /\ DecisionsFormOneChain /\ DoneFits

-----------------------------------------------------------------------------
(* The records. *)

LEMMA Rows ==
  ASSUME Tables
  PROVE  /\ Len(contracts) \in Nat /\ DOMAIN contracts = 1..Len(contracts)
         /\ Len(proposals) \in Nat /\ DOMAIN proposals = 1..Len(proposals)
         /\ Len(decisions) \in Nat /\ DOMAIN decisions = 1..Len(decisions)
         /\ Len(completions) \in Nat /\ DOMAIN completions = 1..Len(completions)
         /\ \A c \in DOMAIN contracts : contracts[c] \in ContractRecord
         /\ \A p \in DOMAIN proposals : proposals[p] \in ProposalRecord
         /\ \A i \in DOMAIN decisions : decisions[i] \in DecisionRecord
         /\ \A k \in DOMAIN completions : completions[k] \in DOMAIN decisions
BY LenProperties, ElementOfSeq DEF Tables

LEMMA ProposalFacts ==
  ASSUME Tables, NEW p \in DOMAIN proposals
  PROVE  /\ Deadline(p) \in Nat /\ proposals[p].at \in 0..clock
         /\ proposals[p].contract \in DOMAIN contracts
         /\ ContractOf(p) \in ContractRecord /\ ContractOf(p).policy \in Policies
         /\ proposals[p].evidence \in SUBSET Evidence
<1>1. proposals[p] \in ProposalRecord /\ clock \in Nat
  BY Rows DEF Tables
<1>2. ContractOf(p) \in ContractRecord
  BY <1>1, Rows DEF ProposalRecord, ContractOf
<1> QED BY <1>1, <1>2, ResolutionAssumption DEF ProposalRecord, ContractRecord, Deadline

\* The current decision on p, and there is one if there is any.
LEMMA CurrentDecision ==
  ASSUME Tables, LeafExists, NEW p
  PROVE  /\ Current(p) \in {0} \cup DOMAIN decisions
         /\ Current(p) = 0 => DecisionsOn(p) = {}
         /\ Current(p) # 0 => Current(p) \in DecisionsOn(p) /\ ~IsSuperseded(Current(p))
<1>1. CASE DecisionsOn(p) = {}
  BY <1>1 DEF Current
<1>2. CASE DecisionsOn(p) # {}
  <2>1. PICK i \in DOMAIN decisions : decisions[i].proposal = p
    BY <1>2 DEF DecisionsOn
  <2>2. \E j \in DecisionsOn(p) : ~IsSuperseded(j)
    BY <2>1 DEF LeafExists, DecisionsOn, IsSuperseded
  <2>3. Current(p) \in DecisionsOn(p) /\ ~IsSuperseded(Current(p))
    BY <1>2, <2>2 DEF Current
  <2>4. Current(p) \in DOMAIN decisions /\ 0 \notin DOMAIN decisions
    BY <2>3, Rows DEF DecisionsOn
  <2> QED BY <2>3, <2>4
<1> QED BY <1>1, <1>2

\* Nothing that was recorded changes: records are added, trust is given once, and a
\* new challenge rests on a clock sample at most MaxLag ticks old.
RecordsGrow ==
  /\ \A c \in DOMAIN contracts : c \in DOMAIN contracts' /\ contracts'[c] = contracts[c]
  /\ \A p \in DOMAIN proposals : p \in DOMAIN proposals' /\ proposals'[p] = proposals[p]
  /\ \A i \in DOMAIN decisions : i \in DOMAIN decisions' /\ decisions'[i] = decisions[i]
  /\ clock <= clock'
  /\ \A e \in Evidence : trust[e] # "none" => trust'[e] # "none"
  /\ \A c \in challenges' : c \in challenges \/ clock <= c.at + MaxLag

\* What a call or a decision rests on stays so.
LEMMA ProposalKept ==
  ASSUME Tables, Tables', RecordsGrow, NEW p \in DOMAIN proposals
  PROVE  /\ p \in DOMAIN proposals'
         /\ ContractOf(p)' = ContractOf(p) /\ Deadline(p)' = Deadline(p)
         /\ \A q : MayDecide(p, q) => MayDecide(p, q)'
         /\ Shown(p) => Shown(p)'
         /\ (OnlyLateChallenges(p) /\ clock >= Deadline(p)) => OnlyLateChallenges(p)'
<1>1. /\ p \in DOMAIN proposals' /\ proposals'[p] = proposals[p]
      /\ proposals[p].contract \in DOMAIN contracts /\ proposals[p].evidence \in SUBSET Evidence
      /\ contracts'[proposals[p].contract] = contracts[proposals[p].contract]
      /\ Deadline(p) \in Nat
  BY ProposalFacts DEF RecordsGrow
<1>2. Deadline(p)' = Deadline(p)
  BY <1>1 DEF Deadline
<1>3. Shown(p) => Shown(p)'
  BY <1>1 DEF Shown, RecordsGrow
<1>4. ASSUME OnlyLateChallenges(p), clock >= Deadline(p), NEW c \in challenges', c.proposal = p
      PROVE  c.at + MaxLag >= Deadline(p)
  <2>1. c.at \in 0..clock' /\ clock' \in Nat /\ clock \in Nat /\ MaxLag \in Nat
    BY ResolutionAssumption DEF Tables
  <2>2. c.at + MaxLag \in Nat
    BY <2>1
  <2> QED BY <1>1, <1>4, <2>1, <2>2 DEF OnlyLateChallenges, RecordsGrow
<1> QED BY <1>1, <1>2, <1>3, <1>4 DEF ContractOf, MayDecide, OnlyLateChallenges

LEMMA CallKept ==
  ASSUME Tables, Tables', RecordsGrow, NEW c, CallFits(c)
  PROVE  CallFits(c)'
<1>1. c \in CallRecord /\ c.proposal \in DOMAIN proposals
  BY DEF CallFits, CallRecord
<1>2. c \in CallRecord'
  BY <1>1 DEF CallRecord, RecordsGrow, Tables
<1>3. /\ Deadline(c.proposal) \in Nat /\ Deadline(c.proposal)' = Deadline(c.proposal)
      /\ ContractOf(c.proposal)' = ContractOf(c.proposal)
      /\ MayDecide(c.proposal, c.principal) => MayDecide(c.proposal, c.principal)'
      /\ Shown(c.proposal) => Shown(c.proposal)'
      /\ (OnlyLateChallenges(c.proposal) /\ clock >= Deadline(c.proposal)) =>
            OnlyLateChallenges(c.proposal)'
  BY <1>1, ProposalKept, ProposalFacts
<1>4. NothingOrTooEarly(c.supersedes) => NothingOrTooEarly(c.supersedes)'
  BY <1>1 DEF CallRecord, NothingOrTooEarly, RecordsGrow
<1>5. c.now \in Nat /\ c.now <= clock /\ clock \in Nat
  BY <1>1 DEF CallRecord, Tables
<1> QED BY <1>2, <1>3, <1>4, <1>5 DEF CallFits

LEMMA DecisionKept ==
  ASSUME Tables, Tables', RecordsGrow, NEW i \in DOMAIN decisions, DecisionFits(i)
  PROVE  DecisionFits(i)'
<1> DEFINE r == decisions[i]
<1>1. r \in DecisionRecord /\ r.proposal \in DOMAIN proposals /\ r' = r
  BY Rows DEF DecisionRecord, RecordsGrow
<1>2. /\ Deadline(r.proposal) \in Nat /\ Deadline(r.proposal)' = Deadline(r.proposal)
      /\ ContractOf(r.proposal)' = ContractOf(r.proposal)
      /\ MayDecide(r.proposal, r.principal) => MayDecide(r.proposal, r.principal)'
      /\ Shown(r.proposal) => Shown(r.proposal)'
      /\ (OnlyLateChallenges(r.proposal) /\ clock >= Deadline(r.proposal)) =>
            OnlyLateChallenges(r.proposal)'
  BY <1>1, ProposalKept, ProposalFacts
<1>3. /\ NothingOrTooEarly(r.supersedes) => NothingOrTooEarly(r.supersedes)'
      /\ r.supersedes # 0 => decisions'[r.supersedes] = decisions[r.supersedes]
  BY <1>1 DEF DecisionRecord, NothingOrTooEarly, RecordsGrow
<1>4. r.at \in Nat /\ r.at <= clock /\ clock \in Nat
  BY <1>1 DEF DecisionRecord, Tables
<1> QED BY <1>1, <1>2, <1>3, <1>4 DEF DecisionFits

-----------------------------------------------------------------------------
(* What a step does to the records. *)

\* A longer table, with a record of a wider set.
LEMMA AppendedTable ==
  ASSUME NEW S, NEW T, S \subseteq T, NEW s \in Seq(S), NEW x \in T
  PROVE  /\ s \in Seq(T) /\ Append(s, x) \in Seq(T)
         /\ Len(s) \in Nat /\ DOMAIN s = 1..Len(s)
         /\ DOMAIN Append(s, x) = 1..(Len(s) + 1) /\ Len(Append(s, x)) = Len(s) + 1
         /\ \A i \in DOMAIN s : i \in DOMAIN Append(s, x) /\ Append(s, x)[i] = s[i]
         /\ Append(s, x)[Len(s) + 1] = x
<1>1. s \in Seq(T) /\ Len(s) \in Nat /\ DOMAIN s = 1..Len(s)
  BY SeqMonotonic, LenProperties
<1>2. /\ Append(s, x) \in Seq(T) /\ Len(Append(s, x)) = Len(s) + 1
      /\ \A i \in 1..Len(s) : Append(s, x)[i] = s[i]
      /\ Append(s, x)[Len(s) + 1] = x
  BY <1>1, AppendProperties
<1>3. DOMAIN Append(s, x) = 1..(Len(s) + 1)
  BY <1>2, LenProperties
<1> QED BY <1>1, <1>2, <1>3

\* What any operation does to the records: it adds one of its kind, or none.
Recorded ==
  /\ task' \in [status : {"open", "done"}, criteria : Criteria]
  /\ superseded' \subseteq Evidence
  /\ trust' \in [Evidence -> {"none", "attested", "revoked"}]
  /\ \A e \in Evidence : trust[e] # "none" => trust'[e] # "none"
  /\ UNCHANGED contracts \/ \E x \in ContractRecord : contracts' = Append(contracts, x)
  /\ UNCHANGED proposals \/ \E x \in ProposalRecord : proposals' = Append(proposals, x)
  /\ \/ UNCHANGED challenges
     \/ \E p \in DOMAIN proposals, now \in 0..clock :
          /\ challenges' = challenges \cup {[proposal |-> p, at |-> now]}
          /\ clock <= now + MaxLag
  /\ UNCHANGED decisions \/ \E x \in DecisionRecord : decisions' = Append(decisions, x)
  /\ UNCHANGED completions \/ \E i \in DOMAIN decisions : completions' = Append(completions, i)
  /\ DOMAIN calls' = Callers
  /\ clock' \in Nat /\ clock <= clock'

LEMMA RecordedKeepsTables ==
  ASSUME Tables, Recorded
  PROVE  Tables' /\ RecordsGrow
<1>1. /\ contracts' \in Seq(ContractRecord)
      /\ \A c \in DOMAIN contracts : c \in DOMAIN contracts' /\ contracts'[c] = contracts[c]
  <2>1. contracts \in Seq(ContractRecord)
    BY DEF Tables
  <2>2. CASE UNCHANGED contracts
    BY <2>1, <2>2
  <2>3. CASE \E x \in ContractRecord : contracts' = Append(contracts, x)
    BY <2>1, <2>3, AppendedTable
  <2> QED BY <2>2, <2>3 DEF Recorded
<1>2. ProposalRecord \subseteq ProposalRecord'
  <2>1. DOMAIN contracts \subseteq DOMAIN contracts' /\ 0..clock \subseteq 0..clock'
    BY <1>1 DEF Recorded, Tables
  <2> QED BY <2>1 DEF ProposalRecord
<1>3. /\ proposals' \in Seq(ProposalRecord')
      /\ \A p \in DOMAIN proposals : p \in DOMAIN proposals' /\ proposals'[p] = proposals[p]
  <2>1. proposals \in Seq(ProposalRecord)
    BY DEF Tables
  <2>2. CASE UNCHANGED proposals
    BY <1>2, <2>1, <2>2, SeqMonotonic
  <2>3. CASE \E x \in ProposalRecord : proposals' = Append(proposals, x)
    <3>1. PICK x \in ProposalRecord' : proposals' = Append(proposals, x)
      BY <1>2, <2>3
    <3> QED BY <1>2, <2>1, <3>1, AppendedTable
  <2> QED BY <2>2, <2>3 DEF Recorded
<1>4. /\ challenges' \subseteq [proposal : DOMAIN proposals', at : 0..clock']
      /\ \A c \in challenges' : c \in challenges \/ clock <= c.at + MaxLag
  <2>1. [proposal : DOMAIN proposals, at : 0..clock] \subseteq [proposal : DOMAIN proposals', at : 0..clock']
    BY <1>3 DEF Recorded, Tables
  <2> QED BY <2>1 DEF Recorded, Tables
<1>5. DecisionRecord \subseteq DecisionRecord' /\ decisions' \in Seq(DecisionRecord')
      /\ \A i \in DOMAIN decisions : i \in DOMAIN decisions' /\ decisions'[i] = decisions[i]
  <2>1. decisions \in Seq(DecisionRecord)
    BY DEF Tables
  <2>2. \A i \in DOMAIN decisions : i \in DOMAIN decisions' /\ decisions'[i] = decisions[i]
    <3>1. CASE UNCHANGED decisions
      BY <3>1
    <3>2. CASE \E x \in DecisionRecord : decisions' = Append(decisions, x)
      BY <2>1, <3>2, AppendedTable
    <3> QED BY <3>1, <3>2 DEF Recorded
  <2>3. DecisionRecord \subseteq DecisionRecord'
    <3>1. /\ DOMAIN proposals \subseteq DOMAIN proposals' /\ 0..clock \subseteq 0..clock'
          /\ DOMAIN decisions \subseteq DOMAIN decisions'
      BY <1>3, <2>2 DEF Recorded, Tables
    <3> QED BY <3>1 DEF DecisionRecord
  <2>4. CASE UNCHANGED decisions
    BY <2>1, <2>2, <2>3, <2>4, SeqMonotonic
  <2>5. CASE \E x \in DecisionRecord : decisions' = Append(decisions, x)
    <3>1. PICK x \in DecisionRecord' : decisions' = Append(decisions, x)
      BY <2>3, <2>5
    <3> QED BY <2>1, <2>2, <2>3, <3>1, AppendedTable
  <2> QED BY <2>4, <2>5 DEF Recorded
<1>6. completions' \in Seq(DOMAIN decisions')
  <2>1. completions \in Seq(DOMAIN decisions) /\ DOMAIN decisions \subseteq DOMAIN decisions'
    BY <1>5 DEF Tables
  <2>2. CASE UNCHANGED completions
    BY <2>1, <2>2, SeqMonotonic
  <2>3. CASE \E i \in DOMAIN decisions : completions' = Append(completions, i)
    <3>1. PICK i \in DOMAIN decisions' : completions' = Append(completions, i)
      BY <2>1, <2>3
    <3> QED BY <2>1, <3>1, AppendedTable
  <2> QED BY <2>2, <2>3 DEF Recorded
<1> QED BY <1>1, <1>3, <1>4, <1>5, <1>6 DEF Tables, RecordsGrow, Recorded

\* A call that goes on, or is over, touches no record.
LEMMA ContinueRecords ==
  ASSUME Tables, NEW d \in Callers, NEW c, Continue(d, c)
  PROVE  Recorded
BY DEF Continue, Recorded, Tables

\* A call that writes its decision.
LEMMA AppendRecords ==
  ASSUME Tables, CallsFit, NEW d \in Callers, calls[d] # Idle, AppendDecision(d)
  PROVE  Recorded
<1> DEFINE call == calls[d]
           r == [proposal |-> call.proposal, outcome |-> call.outcome, means |-> call.means,
                 supersedes |-> call.supersedes, principal |-> call.principal, at |-> call.now]
<1>1. call \in CallRecord /\ call.outcome # "none"
  BY DEF CallsFit, CallFits, AppendDecision
<1>2. r \in DecisionRecord
  BY <1>1 DEF CallRecord, DecisionRecord
<1>3. decisions' = Append(decisions, r)
  BY DEF AppendDecision
<1> HIDE DEF r
<1> QED BY <1>2, <1>3 DEF AppendDecision, Recorded, Tables

\* Each operation adds its record, or none.
LEMMA RecordedStep ==
  ASSUME Tables, CallsFit, LeafExists, [ResolutionNext]_resolutionVars
  PROVE  Recorded
<1>1. CASE UNCHANGED resolutionVars
  BY <1>1 DEF resolutionVars, Recorded, Tables
<1>2. CASE Tick
  BY <1>2 DEF Tick, Recorded, Tables
<1>3. CASE Reopen
  <2>1. task' \in [status : {"open", "done"}, criteria : Criteria]
    BY <1>3 DEF Reopen, Tables
  <2> QED BY <1>3, <2>1 DEF Reopen, Recorded, Tables
<1>4. ASSUME NEW text \in Criteria, UpdateTask(text)
      PROVE  Recorded
  BY <1>4 DEF UpdateTask, Recorded, Tables
<1>5. ASSUME NEW e \in Evidence, AttestTrust(e) \/ RevokeTrust(e) \/ SupersedeEvidence(e)
      PROVE  Recorded
  <2>1. /\ trust' \in [Evidence -> {"none", "attested", "revoked"}]
        /\ \A f \in Evidence : trust[f] # "none" => trust'[f] # "none"
    BY <1>5 DEF AttestTrust, RevokeTrust, SupersedeEvidence, Tables
  <2>2. superseded' \subseteq Evidence
    BY <1>5 DEF AttestTrust, RevokeTrust, SupersedeEvidence, Tables
  <2> QED BY <1>5, <2>1, <2>2 DEF AttestTrust, RevokeTrust, SupersedeEvidence, Recorded, Tables
<1>6. ASSUME NEW policy \in Policies, CreateContract(policy)
      PROVE  Recorded
  BY <1>6 DEF CreateContract, ContractRecord, Recorded, Tables
<1>7. ASSUME NEW c \in DOMAIN contracts, NEW evidence \in SUBSET Evidence, NEW q \in Principals,
             NEW now \in 0..clock, ProposeCompletion(c, evidence, q, now)
      PROVE  Recorded
  <2>1. [contract |-> c, evidence |-> evidence, proposer |-> q, at |-> now] \in ProposalRecord
    BY DEF ProposalRecord
  <2> QED BY <1>7, <2>1 DEF ProposeCompletion, Recorded, Tables
<1>8. ASSUME NEW p \in DOMAIN proposals, NEW now \in 0..clock, ChallengeCompletion(p, now)
      PROVE  Recorded
  <2>1. /\ challenges' = challenges \cup {[proposal |-> p, at |-> now]}
        /\ clock <= now + MaxLag
    BY <1>8 DEF ChallengeCompletion, Sampled
  <2> QED BY <1>8, <2>1 DEF ChallengeCompletion, Recorded, Tables
<1>9. ASSUME NEW d \in Callers, CallNext(d)
      PROVE  Recorded
  <2>1. ASSUME NEW p \in DOMAIN proposals, BeginSome(d, p)
        PROVE  Recorded
    BY <2>1 DEF BeginSome, Begin, Recorded, Tables
  <2>2. CASE \/ ReadTrust(d) \/ SettleEarly(d) \/ SettleDue(d)
             \/ ReadChallenges(d) \/ AdjudicateDispute(d) \/ GiveUp(d)
    BY <2>2, ContinueRecords
       DEF ReadTrust, SettleEarly, SettleDue, ReadChallenges, AdjudicateDispute, GiveUp
  <2> QED BY <1>9, <2>1, <2>2, AppendRecords DEF CallNext
<1>10. ASSUME NEW i \in DOMAIN decisions, CompleteOn(i)
       PROVE  Recorded
  <2>1. task' \in [status : {"open", "done"}, criteria : Criteria]
    BY <1>10 DEF CompleteOn, Tables
  <2> QED BY <1>10, <2>1 DEF CompleteOn, Recorded, Tables
<1> QED BY <1>1, <1>2, <1>3, <1>4, <1>5, <1>6, <1>7, <1>8, <1>9, <1>10 DEF ResolutionNext

LEMMA TablesStep ==
  ASSUME Tables, CallsFit, LeafExists, [ResolutionNext]_resolutionVars
  PROVE  Tables' /\ RecordsGrow
BY RecordedStep, RecordedKeepsTables

-----------------------------------------------------------------------------
(* What a call knows. *)

\* Evidence that is fit has been attested.
LEMMA FitIsShown ==
  ASSUME NEW p, Fit(p)
  PROVE  Shown(p)
BY DEF Fit, Shown

\* Each await of a call leaves it over, or knowing what it should.
LEMMA CallMoves ==
  ASSUME Tables, CallsFit, LeafExists, NEW d \in Callers, CallNext(d)
  PROVE  \E c : calls' = [calls EXCEPT ![d] = c] /\ (c = Idle \/ CallFits(c))
<1> DEFINE call == calls[d]
<1>1. ASSUME call # Idle
      PROVE  /\ CallFits(call) /\ call \in CallRecord
             /\ call.proposal \in DOMAIN proposals
             /\ Current(call.proposal) \in {0} \cup DOMAIN decisions
             /\ Fit(call.proposal) => Shown(call.proposal)
  BY <1>1, CurrentDecision, FitIsShown DEF CallsFit, CallFits, CallRecord
<1>2. ASSUME NEW p \in DOMAIN proposals, NEW means \in AllMeans, NEW q \in Principals \cup {"anyone"},
             NEW outcome \in {"none", "accepted", "rejected"},
             outcome = "none" => means = "settle", Begin(d, means, p, q, outcome)
      PROVE  \E c : calls' = [calls EXCEPT ![d] = c] /\ CallFits(c)
  <2> DEFINE c == [step |-> "trust", means |-> means, proposal |-> p, principal |-> q,
                   outcome |-> outcome, supersedes |-> Current(p),
                   now |-> IF means = "settle" THEN clock ELSE 0]
  <2>1. calls' = [calls EXCEPT ![d] = c]
    BY <1>2 DEF Begin
  <2>2. c \in CallRecord
    BY CurrentDecision DEF CallRecord, Tables, Outcomes
  <2>3. CallFits(c)
    BY <1>2, <2>2 DEF Begin, CallFits
  <2> QED BY <2>1, <2>3
<1>3. CASE \E p \in DOMAIN proposals : BeginSome(d, p)
  BY <1>2, <1>3 DEF BeginSome, AllMeans, Manual
<1>4. CASE call # Idle /\ ReadTrust(d)
  <2> DEFINE p == call.proposal
  <2>1. CASE call.means = "evaluate"
    <3> DEFINE c == [call EXCEPT !.step = "append",
                                 !.outcome = IF Fit(p) THEN @ ELSE "indeterminate"]
    <3>1. calls' = [calls EXCEPT ![d] = c]
      BY <1>4, <2>1 DEF ReadTrust, Continue, Manual
    <3>2. c \in CallRecord
      BY <1>1, <1>4 DEF CallRecord, Outcomes
    <3>3. CallFits(c)
      BY <1>1, <1>4, <2>1, <3>2 DEF CallFits
    <3> QED BY <3>1, <3>3
  <2>2. CASE call.means = "settle"
    <3> DEFINE c == [call EXCEPT !.step = "leaf", !.outcome = Unchallenged(p)]
    <3>1. calls' = [calls EXCEPT ![d] = c]
      BY <1>4, <2>2 DEF ReadTrust, Continue, Manual
    <3>2. Unchallenged(p) \in {"accepted", "indeterminate"} /\ (Unchallenged(p) = "accepted" => Fit(p))
      BY DEF Unchallenged
    <3>3. c \in CallRecord
      BY <1>1, <1>4, <3>2 DEF CallRecord, Outcomes
    <3>4. CallFits(c)
      BY <1>1, <1>4, <2>2, <3>2, <3>3 DEF CallFits
    <3> QED BY <3>1, <3>4
  <2>3. CASE call.means \in Manual
    <3>1. PICK step \in {"leaf", "append"} : Continue(d, [call EXCEPT !.step = step])
      BY <1>4, <2>3 DEF ReadTrust, Manual
    <3> DEFINE c == [call EXCEPT !.step = step]
    <3>2. call.outcome = "accepted" => Fit(p)
      BY <1>4, <2>3 DEF ReadTrust, Manual
    <3>3. calls' = [calls EXCEPT ![d] = c]
      BY <3>1 DEF Continue
    <3>4. c \in CallRecord
      BY <1>1, <1>4 DEF CallRecord
    <3>5. CallFits(c)
      BY <1>1, <1>4, <2>3, <3>2, <3>4 DEF CallFits, Manual
    <3> QED BY <3>3, <3>5
  <2> QED BY <1>1, <1>4, <2>1, <2>2, <2>3 DEF CallRecord, AllMeans, Manual
<1>5. CASE call # Idle /\ SettleEarly(d)
  <2> DEFINE c == [call EXCEPT !.step = "append", !.outcome = "too_early", !.supersedes = 0]
  <2>1. calls' = [calls EXCEPT ![d] = Idle] \/ calls' = [calls EXCEPT ![d] = c]
    BY <1>5 DEF SettleEarly, Continue
  <2>2. c \in CallRecord
    BY <1>1, <1>5 DEF CallRecord, Outcomes
  <2>3. CallFits(c)
    BY <1>1, <1>5, <2>2 DEF CallFits, SettleEarly, NothingOrTooEarly, Manual
  <2> QED BY <2>1, <2>3
<1>6. CASE call # Idle /\ SettleDue(d)
  <2> DEFINE leaf == Current(call.proposal)
             c == [call EXCEPT !.step = "challenges", !.supersedes = leaf]
  <2>1. \/ calls' = [calls EXCEPT ![d] = Idle]
        \/ calls' = [calls EXCEPT ![d] = c] /\ NothingOrTooEarly(leaf)
    BY <1>6 DEF SettleDue, Continue, NothingOrTooEarly
  <2>2. c \in CallRecord
    BY <1>1, <1>6 DEF CallRecord
  <2>3. NothingOrTooEarly(leaf) => CallFits(c)
    BY <1>1, <1>6, <2>2 DEF CallFits, SettleDue, Manual
  <2> QED BY <2>1, <2>3
<1>7. CASE call # Idle /\ ReadChallenges(d)
  <2> DEFINE c == [call EXCEPT !.step = "append",
                     !.outcome = IF @ = "accepted" /\ ChallengesOf(call.proposal) # {}
                                 THEN "challenged" ELSE @]
  <2>1. calls' = [calls EXCEPT ![d] = c]
    BY <1>7 DEF ReadChallenges, Continue
  <2>2. c \in CallRecord
    BY <1>1, <1>7 DEF CallRecord, Outcomes
  <2>3. c.outcome = "accepted" => OnlyLateChallenges(call.proposal)
    BY <1>1, <1>7 DEF ChallengesOf, OnlyLateChallenges, CallRecord
  <2>4. CallFits(c)
    BY <1>1, <1>7, <2>2, <2>3 DEF CallFits, ReadChallenges, Manual
  <2> QED BY <2>1, <2>4
<1>8. CASE call # Idle /\ AdjudicateDispute(d)
  <2> DEFINE c == [call EXCEPT !.step = "append"]
  <2>1. calls' = [calls EXCEPT ![d] = c]
    BY <1>8 DEF AdjudicateDispute, Continue
  <2>2. c \in CallRecord
    BY <1>1, <1>8 DEF CallRecord
  <2>3. CallFits(c)
    BY <1>1, <1>8, <2>2 DEF CallFits, AdjudicateDispute
  <2> QED BY <2>1, <2>3
<1>9. CASE AppendDecision(d)
  BY <1>9 DEF AppendDecision
<1>10. CASE GiveUp(d)
  BY <1>10 DEF GiveUp, Continue
<1> QED BY <1>3, <1>4, <1>5, <1>6, <1>7, <1>8, <1>9, <1>10 DEF CallNext

LEMMA CallsStep ==
  ASSUME Tables, CallsFit, LeafExists, [ResolutionNext]_resolutionVars
  PROVE  CallsFit'
<1>1. Tables' /\ RecordsGrow
  BY TablesStep
<1> SUFFICES ASSUME NEW e \in Callers PROVE (calls[e] = Idle \/ CallFits(calls[e]))'
  BY DEF CallsFit
<1>2. calls'[e] = calls[e] \/ \E c : calls'[e] = c /\ (c = Idle \/ CallFits(c))
  <2>1. CASE UNCHANGED calls
    BY <2>1
  <2>2. ASSUME NEW d \in Callers, CallNext(d)
        PROVE  calls'[e] = calls[e] \/ \E c : calls'[e] = c /\ (c = Idle \/ CallFits(c))
    BY <2>2, CallMoves DEF Tables
  <2> QED BY <2>1, <2>2 DEF ResolutionNext, resolutionVars, Tick, Reopen, UpdateTask, AttestTrust,
            RevokeTrust, SupersedeEvidence, CreateContract, ProposeCompletion,
            ChallengeCompletion, CompleteOn
<1>3. PICK c : calls'[e] = c /\ (c = Idle \/ CallFits(c))
  BY <1>2 DEF CallsFit
<1>4. CASE c = Idle
  BY <1>3, <1>4 DEF Idle
<1>5. CASE CallFits(c)
  <2>1. CallFits(c)'
    BY <1>1, <1>5, CallKept
  <2> QED BY <1>3, <2>1
<1> QED BY <1>3, <1>4, <1>5

-----------------------------------------------------------------------------
(* The decisions. *)

\* Decisions stay as they are, or one more is written: by a call that is at its last
\* step, over the current decision.
LEMMA DecisionMoves ==
  ASSUME Tables, CallsFit, LeafExists, [ResolutionNext]_resolutionVars
  PROVE  \/ UNCHANGED decisions
         \/ \E c : \E r \in DecisionRecord :
              /\ CallFits(c) /\ c.step = "append"
              /\ r.proposal = c.proposal /\ r.outcome = c.outcome /\ r.means = c.means
              /\ r.supersedes = c.supersedes /\ r.principal = c.principal /\ r.at = c.now
              /\ r.supersedes = Current(r.proposal)
              /\ decisions' = Append(decisions, r)
<1>1. ASSUME NEW d \in Callers, calls[d] # Idle, AppendDecision(d)
      PROVE  \E c : \E r \in DecisionRecord :
              /\ CallFits(c) /\ c.step = "append"
              /\ r.proposal = c.proposal /\ r.outcome = c.outcome /\ r.means = c.means
              /\ r.supersedes = c.supersedes /\ r.principal = c.principal /\ r.at = c.now
              /\ r.supersedes = Current(r.proposal)
              /\ decisions' = Append(decisions, r)
  <2> DEFINE call == calls[d]
             r == [proposal |-> call.proposal, outcome |-> call.outcome, means |-> call.means,
                   supersedes |-> call.supersedes, principal |-> call.principal, at |-> call.now]
  <2>1. CallFits(call) /\ call.step = "append" /\ call \in CallRecord /\ call.outcome # "none"
    BY <1>1 DEF CallsFit, CallFits, AppendDecision
  <2>2. r \in DecisionRecord
    BY <2>1 DEF CallRecord, DecisionRecord
  <2>3. decisions' = Append(decisions, r) /\ r.supersedes = Current(r.proposal)
    BY <1>1 DEF AppendDecision, MaySupersede
  <2>4. /\ r.proposal = call.proposal /\ r.outcome = call.outcome /\ r.means = call.means
        /\ r.supersedes = call.supersedes /\ r.principal = call.principal /\ r.at = call.now
    OBVIOUS
  <2> HIDE DEF call, r
  <2> QED BY <2>1, <2>2, <2>3, <2>4
<1>2. ASSUME NEW d \in Callers, CallNext(d)
      PROVE  UNCHANGED decisions \/ (calls[d] # Idle /\ AppendDecision(d))
  BY <1>2 DEF CallNext, BeginSome, Begin, ReadTrust, SettleEarly, SettleDue, ReadChallenges,
              AdjudicateDispute, GiveUp, Continue
<1>3. CASE \E d \in Callers : CallNext(d)
  BY <1>1, <1>2, <1>3
<1> QED BY <1>3 DEF ResolutionNext, resolutionVars, Tick, Reopen, UpdateTask, AttestTrust,
            RevokeTrust, SupersedeEvidence, CreateContract, ProposeCompletion,
            ChallengeCompletion, CompleteOn

\* A decision that is written rests on what its call knew, and keeps the chain.
LEMMA DecisionsStep ==
  ASSUME Tables, CallsFit, DecisionsFit, LeafExists, DecisionsFormOneChain,
         [ResolutionNext]_resolutionVars
  PROVE  DecisionsFit' /\ LeafExists' /\ DecisionsFormOneChain'
<1>1. Tables' /\ RecordsGrow
  BY TablesStep
<1>2. ASSUME NEW i \in DOMAIN decisions PROVE DecisionFits(i)'
  BY <1>1, <1>2, DecisionKept DEF DecisionsFit
<1>3. CASE UNCHANGED decisions
  <2>1. DecisionsFit'
    BY <1>2, <1>3 DEF DecisionsFit
  <2>2. LeafExists' /\ DecisionsFormOneChain'
    BY <1>3 DEF LeafExists, DecisionsFormOneChain
  <2> QED BY <2>1, <2>2
<1>4. ASSUME NEW c, NEW r \in DecisionRecord,
             CallFits(c), c.step = "append",
             r.proposal = c.proposal, r.outcome = c.outcome, r.means = c.means,
             r.supersedes = c.supersedes, r.principal = c.principal, r.at = c.now,
             r.supersedes = Current(r.proposal),
             decisions' = Append(decisions, r)
      PROVE  DecisionsFit' /\ LeafExists' /\ DecisionsFormOneChain'
  <2>0. PICK n : n = Len(decisions)
    OBVIOUS
  <2>1. /\ n \in Nat /\ DOMAIN decisions = 1..n /\ DOMAIN decisions' = 1..(n + 1)
        /\ \A i \in 1..n : decisions'[i] = decisions[i]
        /\ decisions'[n + 1] = r
    <3>1. decisions \in Seq(DecisionRecord)
      BY DEF Tables
    <3> QED BY <1>4, <2>0, <3>1, AppendedTable
  <2>2. /\ r.supersedes \in {0} \cup 1..n
        /\ r.supersedes = 0 => DecisionsOn(r.proposal) = {}
        /\ r.supersedes # 0 => /\ decisions[r.supersedes].proposal = r.proposal
                               /\ ~IsSuperseded(r.supersedes)
    BY <1>4, <2>1, CurrentDecision DEF DecisionsOn
  <2>3. \A i \in 1..n : decisions[i].supersedes \in 0..n
    BY <2>1, Rows DEF DecisionRecord
  <2>4. DecisionFits(n + 1)'
    <3>1. CallFits(c)'
      BY <1>1, <1>4, CallKept
    <3>2. r.supersedes < n + 1
      BY <2>1, <2>2
    <3>3. r.supersedes # 0 => decisions'[r.supersedes].proposal = r.proposal
      BY <2>1, <2>2
    <3>4. /\ r.means \in Means[ContractOf(r.proposal)'.policy]
          /\ r.means \in Manual => MayDecide(r.proposal, r.principal)'
          /\ r.outcome = "challenged" => r.means = "settle"
          /\ r.outcome = "accepted" => Shown(r.proposal)'
          /\ r.means = "settle" => NothingOrTooEarly(r.supersedes)'
          /\ (r.means = "settle" /\ r.outcome = "accepted") =>
                r.at >= Deadline(r.proposal)' /\ OnlyLateChallenges(r.proposal)'
      BY <1>4, <3>1 DEF CallFits
    <3> QED BY <2>1, <3>2, <3>3, <3>4 DEF DecisionFits
  <2>5. DecisionsFit'
    BY <1>2, <2>1, <2>4 DEF DecisionsFit
  <2>6. ASSUME NEW i \in DOMAIN decisions'
        PROVE  \E j \in DOMAIN decisions' :
                 /\ decisions'[j].proposal = decisions'[i].proposal
                 /\ \A k \in DOMAIN decisions' : decisions'[k].supersedes # j
    <3>1. CASE decisions'[i].proposal = r.proposal
      <4>1. PICK j \in DOMAIN decisions' : j = n + 1
        BY <2>1
      <4>2. \A k \in DOMAIN decisions' : decisions'[k].supersedes # j
        BY <2>1, <2>2, <2>3, <4>1
      <4>3. decisions'[j].proposal = decisions'[i].proposal
        BY <2>1, <3>1, <4>1
      <4> QED BY <4>2, <4>3
    <3>2. CASE decisions'[i].proposal # r.proposal
      <4>1. i \in 1..n /\ decisions[i].proposal = decisions'[i].proposal
        BY <2>1, <3>2
      <4>2. PICK j \in 1..n : /\ decisions[j].proposal = decisions[i].proposal
                              /\ \A k \in 1..n : decisions[k].supersedes # j
        BY <2>1, <4>1 DEF LeafExists
      <4>3. r.supersedes # j
        BY <2>1, <2>2, <3>2, <4>1, <4>2
      <4>4. \A k \in DOMAIN decisions' : decisions'[k].supersedes # j
        BY <2>1, <4>2, <4>3
      <4>5. j \in DOMAIN decisions' /\ decisions'[j].proposal = decisions'[i].proposal
        BY <2>1, <4>1, <4>2
      <4> QED BY <4>4, <4>5
    <3> QED BY <3>1, <3>2
  <2>7. DecisionsFormOneChain'
    <3>1. ASSUME NEW i \in 1..n, decisions[i].proposal = r.proposal
          PROVE  decisions[i].supersedes # r.supersedes
      BY <2>1, <2>2, <3>1 DEF DecisionsOn, IsSuperseded
    <3> QED BY <2>1, <3>1 DEF DecisionsFormOneChain
  <2>8. LeafExists'
    BY <2>6 DEF LeafExists
  <2> QED BY <2>5, <2>7, <2>8
<1> QED BY <1>3, <1>4, DecisionMoves

\* The commitment is done by a completion, and closed to edits until it is reopened.
LEMMA DoneStep ==
  ASSUME Tables, CallsFit, LeafExists, DoneFits, [ResolutionNext]_resolutionVars
  PROVE  DoneFits'
<1>1. Tables' /\ RecordsGrow
  BY TablesStep
<1>2. ASSUME UNCHANGED completions, task'.status = "done", task' = task
      PROVE  DoneFits'
  <2>1. PICK i : i = completions[Len(completions)]
    OBVIOUS
  <2>2. /\ completions # << >>
        /\ decisions[i].outcome = "accepted"
        /\ ContractOf(decisions[i].proposal).criteria = task.criteria
    BY <1>2, <2>1 DEF DoneFits, DoneOnItsCriteria
  <2>3. i \in DOMAIN decisions
    <3>1. Len(completions) \in DOMAIN completions
      BY <2>2, Rows, EmptySeq DEF Tables
    <3> QED BY <2>1, <3>1, Rows
  <2>4. PICK p \in DOMAIN proposals : p = decisions[i].proposal
    BY <2>3, Rows DEF DecisionRecord
  <2>5. decisions'[i] = decisions[i] /\ ContractOf(p)' = ContractOf(p)
    BY <1>1, <2>3, ProposalKept DEF RecordsGrow
  <2> QED BY <1>2, <2>1, <2>2, <2>4, <2>5 DEF DoneFits, DoneOnItsCriteria
<1>3. ASSUME NEW i \in DOMAIN decisions, CompleteOn(i)
      PROVE  DoneFits'
  <2>1. /\ completions' = Append(completions, i)
        /\ decisions[i].outcome = "accepted"
        /\ ContractOf(decisions[i].proposal).criteria = task.criteria
        /\ task'.criteria = task.criteria
        /\ UNCHANGED <<decisions, proposals, contracts>>
    BY <1>3 DEF CompleteOn, MayCompleteOn, Tables
  <2>2. completions' # << >> /\ completions'[Len(completions')] = i
    <3>1. completions \in Seq(DOMAIN decisions)
      BY DEF Tables
    <3> QED BY <2>1, <3>1, AppendProperties
  <2> QED BY <2>1, <2>2 DEF DoneFits, DoneOnItsCriteria, ContractOf
<1>4. CASE Reopen \/ \E text \in Criteria : UpdateTask(text)
  <2>1. task'.status # "done"
    BY <1>4 DEF Reopen, UpdateTask, Tables
  <2> QED BY <2>1 DEF DoneFits
<1>5. CASE UNCHANGED <<task, completions>>
  BY <1>2, <1>5 DEF DoneFits
<1>6. ASSUME NEW d \in Callers, CallNext(d)
      PROVE  UNCHANGED <<task, completions>>
  BY <1>6 DEF CallNext, BeginSome, Begin, ReadTrust, SettleEarly, SettleDue, ReadChallenges,
              AdjudicateDispute, GiveUp, Continue, AppendDecision
<1> QED BY <1>3, <1>4, <1>5, <1>6 DEF ResolutionNext, resolutionVars, Tick, AttestTrust,
            RevokeTrust, SupersedeEvidence, CreateContract, ProposeCompletion, ChallengeCompletion

-----------------------------------------------------------------------------
(* The theorems. *)

LEMMA ResolutionInitially == ResolutionInit => ResolutionInv
<1> SUFFICES ASSUME ResolutionInit PROVE ResolutionInv
  OBVIOUS
<1>1. /\ DOMAIN contracts = {} /\ DOMAIN proposals = {} /\ DOMAIN decisions = {}
      /\ contracts = << >> /\ proposals = << >> /\ decisions = << >> /\ completions = << >>
  BY EmptySeq, LenProperties DEF ResolutionInit
<1>2. Tables
  <2>1. task \in [status : {"open", "done"}, criteria : Criteria]
    BY DEF ResolutionInit
  <2> QED BY <1>1, <2>1, EmptySeq DEF ResolutionInit, Tables
<1>3. task.status = "open" /\ \A d \in Callers : calls[d] = Idle
  BY DEF ResolutionInit
<1> QED BY <1>1, <1>2, <1>3 DEF ResolutionInv, CallsFit, DecisionsFit, LeafExists,
        DecisionsFormOneChain, DoneFits

LEMMA ResolutionInvariant == ResolutionSpec => []ResolutionInv
<1>1. ResolutionInv /\ [ResolutionNext]_resolutionVars => ResolutionInv'
  BY TablesStep, CallsStep, DecisionsStep, DoneStep DEF ResolutionInv
<1> QED BY <1>1, ResolutionInitially, PTL DEF ResolutionSpec

\* Contracts, proposals, challenges, decisions and completions refer to records that
\* exist, and a decision supersedes only an earlier one.
THEOREM ResolutionTypes == ResolutionSpec => []ResolutionTypeOK
<1>1. ResolutionInv => ResolutionTypeOK
  <2> SUFFICES ASSUME ResolutionInv PROVE ResolutionTypeOK
    OBVIOUS
  <2>1. ASSUME NEW i \in DOMAIN decisions
        PROVE  /\ decisions[i].proposal \in DOMAIN proposals
               /\ decisions[i].outcome \in Outcomes
               /\ decisions[i].supersedes \in 0..i - 1
    <3>1. decisions[i] \in DecisionRecord /\ DOMAIN decisions = 1..Len(decisions)
          /\ decisions[i].supersedes < i
      BY Rows DEF ResolutionInv, DecisionsFit, DecisionFits
    <3> QED BY <3>1, Rows DEF ResolutionInv, DecisionRecord
  <2>2. \A k \in DOMAIN completions : completions[k] \in DOMAIN decisions
    BY Rows DEF ResolutionInv
  <2> QED BY <2>1, <2>2 DEF ResolutionInv, Tables, ResolutionTypeOK, ContractRecord, ProposalRecord
<1> QED BY <1>1, ResolutionInvariant, PTL

\* However many calls decide on a proposal at once, and whatever each of them read
\* before the others wrote, its decisions are one chain.
THEOREM OneChainOfDecisions == ResolutionSpec => []DecisionsFormOneChain
<1>1. ResolutionInv => DecisionsFormOneChain
  BY DEF ResolutionInv
<1> QED BY <1>1, ResolutionInvariant, PTL

\* No policy's calls write decisions of another policy: a challenged decision stands
\* only on an optimistic proposal, and there only an adjudicator accepts over it.
THEOREM AcceptanceMustBeEarned == ResolutionSpec => []AcceptanceIsEarned
<1>1. ResolutionInv => AcceptanceIsEarned
  <2> SUFFICES ASSUME ResolutionInv, NEW i \in DOMAIN decisions, decisions[i].outcome = "accepted"
               PROVE  LET p == decisions[i].proposal
                          below == decisions[i].supersedes
                      IN  /\ proposals[p].evidence # {}
                          /\ \A e \in proposals[p].evidence : trust[e] # "none"
                          /\ decisions[i].means \in Manual => MayDecide(p, decisions[i].principal)
                          /\ decisions[i].means = "settle" => decisions[i].at >= Deadline(p)
                          /\ below # 0 /\ decisions[below].outcome = "challenged" =>
                               decisions[i].means = "adjudicate"
    BY DEF AcceptanceIsEarned
  <2> DEFINE p == decisions[i].proposal
             below == decisions[i].supersedes
  <2>1. Tables /\ DecisionFits(i) /\ decisions[i] \in DecisionRecord
    BY Rows DEF ResolutionInv, DecisionsFit
  <2>2. below # 0 => /\ below \in DOMAIN decisions /\ DecisionFits(below)
                     /\ decisions[below].proposal = p
    BY <2>1 DEF DecisionRecord, DecisionFits, ResolutionInv, DecisionsFit
  <2>3. ContractOf(p).policy \in DOMAIN Means
    BY <2>1, ProposalFacts, ResolutionAssumption DEF DecisionRecord
  <2>4. ASSUME below # 0, decisions[below].outcome = "challenged"
        PROVE  decisions[i].means = "adjudicate"
    <3>1. "settle" \in Means[ContractOf(p).policy]
      BY <2>2, <2>4 DEF DecisionFits
    <3>2. decisions[i].means \in {"settle", "adjudicate"}
      BY <2>1, <2>3, <3>1 DEF DecisionFits, Means
    <3>3. decisions[i].means = "settle" => decisions[below].outcome = "too_early"
      BY <2>1, <2>4 DEF DecisionFits, NothingOrTooEarly
    <3> QED BY <2>4, <3>2, <3>3
  <2> QED BY <2>1, <2>4 DEF DecisionFits, Shown
<1> QED BY <1>1, ResolutionInvariant, PTL

\* A completion that rests on a decision rests on the criteria of today.
THEOREM DoneUnderItsCriteria == ResolutionSpec => []DoneOnItsCriteria
<1>1. ResolutionInv => DoneOnItsCriteria
  BY DEF ResolutionInv, DoneFits, DoneOnItsCriteria
<1> QED BY <1>1, ResolutionInvariant, PTL

\* Settlement reads the challenges with a clock sample from the deadline on, so a
\* challenge it does not see was made within the lag of a sample before the deadline.
THEOREM TimelyChallengeHeard == ResolutionSpec => []TimelyChallengeIsHeard
<1>1. ResolutionInv => TimelyChallengeIsHeard
  BY DEF ResolutionInv, DecisionsFit, DecisionFits, OnlyLateChallenges, TimelyChallengeIsHeard
<1> QED BY <1>1, ResolutionInvariant, PTL
=============================================================================
