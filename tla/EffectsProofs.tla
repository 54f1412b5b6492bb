--------------------------- MODULE EffectsProofs ----------------------------
(***************************************************************************)
(* Safety of Effects, for any number of runners, any approval windows, any *)
(* lag of the clock samples and any bound.                                 *)
(***************************************************************************)
EXTENDS Effects, SequenceTheorems, TLAPS

\* The revision a begin expected, and how far the row has moved since: what
\* AuthorizedRevision counts on.
BasisIsCounted ==
  /\ effect.rev > 0
  /\ effect.basis # 0 <=> effect.status \in Begun
  /\ effect.status = "executing" => effect.rev = effect.basis + 1
  /\ effect.status = "indeterminate" => effect.rev = effect.basis + 2

PastBegin(r) == runner[r].pc \in {"begun", "cleared", "sent", "told", "reread"}

\* A runner past the begin works on an effect that is past it too.
BegunBeforeSent ==
  /\ sent > 0 => effect.status \in Begun
  /\ \A r \in Runners : PastBegin(r) => effect.status \in Begun

\* A terminal outcome on its way to the ledger is what the provider decided.
ReportsAreProven ==
  \A r \in Runners :
    (runner[r].pc \in {"told", "reread"} /\ runner[r].outcome \in Terminal) =>
      provider = runner[r].outcome

\* A resolved effect has a receipt.
ResolvedByReceipt ==
  effect.status \in Terminal \cup {"indeterminate"} => receipts # << >>

\* The inductive invariant.
EffectInv ==
  /\ EffectTypeOK
  /\ AuthorityIsCurrent
  /\ BasisIsCounted
  /\ BegunBeforeSent
  /\ ReportsAreProven /\ OutcomeIsProven
  /\ ReceiptsTellOneStory /\ ResolvedByReceipt

\* A runner record with some fields replaced by values of their types is one again.
LEMMA GoesType ==
  ASSUME EffectTypeOK, NEW r \in Runners, NEW step \in RunnerRecord, Goes(r, step)
  PROVE  /\ runner' \in [Runners -> RunnerRecord]
         /\ runner'[r] = step
         /\ \A s \in Runners \ {r} : runner'[s] = runner[s]
BY DEF EffectTypeOK, Goes

LEMMA IdleType == Idle \in RunnerRecord
BY DEF Idle, RunnerRecord, Statuses, Begun, Terminal

\* The row after an operation: some columns set, the revision one higher.
LEMMA RevisedType ==
  ASSUME NEW e \in EffectRecord, NEW s \in Statuses, NEW a \in Nat, NEW n \in Nat
  PROVE  /\ [e EXCEPT !.status = s, !.approval = a, !.authorizedAt = n, !.rev = @ + 1]
              \in EffectRecord
         /\ [e EXCEPT !.status = s, !.basis = n, !.authorizedAt = 0, !.rev = @ + 1]
              \in EffectRecord
         /\ [e EXCEPT !.status = s, !.receipt = n, !.rev = @ + 1] \in EffectRecord
<1>1. e.rev + 1 \in Nat
  BY DEF EffectRecord
<1>2. ASSUME NEW v \in Nat
      PROVE  [e EXCEPT !.status = s, !.approval = a, !.authorizedAt = n, !.rev = v]
               \in EffectRecord
  BY DEF EffectRecord
<1>3. ASSUME NEW v \in Nat
      PROVE  [e EXCEPT !.status = s, !.basis = n, !.authorizedAt = 0, !.rev = v]
               \in EffectRecord
  BY DEF EffectRecord
<1>4. ASSUME NEW v \in Nat
      PROVE  [e EXCEPT !.status = s, !.receipt = n, !.rev = v] \in EffectRecord
  BY DEF EffectRecord
<1> QED BY <1>1, <1>2, <1>3, <1>4

\* The revision counted back from the row is the one the begin expected.
LEMMA Recovered ==
  ASSUME EffectTypeOK, BasisIsCounted
  PROVE  /\ effect.status \in {"executing", "indeterminate"} => AuthorizedRevision = effect.basis
         /\ effect.status \in {"authorized", "executing", "indeterminate"} =>
              AuthorizedRevision \in Nat
BY DEF EffectTypeOK, EffectRecord, BasisIsCounted, AuthorizedRevision

LEMMA Lengths == EffectTypeOK => Len(approvals) \in Nat /\ Len(receipts) \in Nat
BY LenProperties DEF EffectTypeOK

\* Every action keeps the types.
LEMMA TypeStep ==
  EffectTypeOK /\ BasisIsCounted /\ ReceiptsTellOneStory /\ [EffectNext]_effectVars => EffectTypeOK'
<1> SUFFICES ASSUME EffectTypeOK, BasisIsCounted, ReceiptsTellOneStory, [EffectNext]_effectVars
             PROVE  EffectTypeOK'
  OBVIOUS
<1>1. CASE UNCHANGED effectVars
  BY <1>1 DEF effectVars, EffectTypeOK
<1>2. CASE Tick
  BY <1>2 DEF Tick, EffectTypeOK, ledger
<1>11. CASE EndAttempt \/ EndClaim
  BY <1>11 DEF EndAttempt, EndClaim, EffectTypeOK, world
<1>12. CASE Provide
  BY <1>12 DEF Provide, EffectTypeOK, ledger
<1>3. CASE Cancel
  <2>1. effect \in EffectRecord /\ "cancelled" \in Statuses
    BY DEF EffectTypeOK, Statuses
  <2>2. effect' \in EffectRecord
    BY <1>3, <2>1, RevisedType DEF Cancel
  <2>3. effect'.approval = 0 /\ effect'.receipt = effect.receipt
    BY <1>3, <2>1 DEF Cancel, EffectRecord
  <2> QED BY <1>3, <2>2, <2>3, Lengths DEF Cancel, EffectTypeOK, world
<1>4. ASSUME NEW now \in 0..clock, RenewClaim(now) PROVE EffectTypeOK'
  <2>1. now + Lease \in Nat
    BY EffectAssumption DEF EffectTypeOK
  <2>2. ASSUME NEW u \in Nat PROVE [claim EXCEPT !.until = u] \in [until : Nat, live : BOOLEAN]
    BY DEF EffectTypeOK
  <2>3. claim' \in [until : Nat, live : BOOLEAN]
    BY <1>4, <2>1, <2>2 DEF RenewClaim
  <2> QED BY <1>4, <2>3 DEF RenewClaim, EffectTypeOK, world
<1>5. ASSUME NEW now \in 0..clock, Authorize(now) PROVE EffectTypeOK'
  <2>1. effect \in EffectRecord /\ "authorized" \in Statuses /\ Leaf \in Nat /\ now \in Nat
    BY Lengths DEF EffectTypeOK, Leaf, Statuses
  <2>2. effect' \in EffectRecord
    BY <1>5, <2>1, RevisedType DEF Authorize
  <2>3. effect'.approval = Leaf /\ effect'.receipt = effect.receipt
    BY <1>5, <2>1 DEF Authorize, EffectRecord
  <2> QED BY <1>5, <2>2, <2>3, Lengths DEF Authorize, Leaf, EffectTypeOK, world
<1>6. ASSUME NEW now \in 0..clock, NEW decision \in {"approved", "denied", "revoked"},
             NEW window \in Windows, RecordApproval(decision, window, now)
      PROVE  EffectTypeOK'
  <2>1. approvals' \in Seq(ApprovalRecord) /\ Len(approvals') = Len(approvals) + 1
    BY <1>6, AppendProperties DEF RecordApproval, EffectTypeOK, ApprovalRecord
  <2>2. effect \in EffectRecord /\ "proposed" \in Statuses
    BY DEF EffectTypeOK, Statuses
  <2>3. effect' \in EffectRecord
    BY <1>6, <2>2, RevisedType DEF RecordApproval, Withdrawn
  <2>4. effect'.approval \in {0, effect.approval} /\ effect'.receipt = effect.receipt
    BY <1>6, <2>2 DEF RecordApproval, Withdrawn, EffectRecord
  <2> QED BY <1>6, <2>1, <2>3, <2>4, Lengths DEF RecordApproval, EffectTypeOK, world
<1>7. ASSUME NEW now \in 0..clock, NEW r \in Runners, Begin(r, now) PROVE EffectTypeOK'
  <2>3. effect \in EffectRecord /\ "executing" \in Statuses /\ runner[r].expected \in Nat
    BY DEF EffectTypeOK, Statuses, Begun, RunnerRecord
  <2>4. effect' \in EffectRecord
    BY <1>7, <2>3, RevisedType DEF Begin
  <2>1. effect'.approval = effect.approval /\ effect'.receipt = effect.receipt
    BY <1>7, <2>3 DEF Begin, EffectRecord
  <2>2. [runner[r] EXCEPT !.pc = "begun", !.expected = 0, !.until = claim.until] \in RunnerRecord
    BY DEF EffectTypeOK, RunnerRecord
  <2> QED BY <1>7, <2>1, <2>2, <2>4, GoesType DEF Begin, Permitted, EffectTypeOK, world
<1>8. ASSUME NEW r \in Runners, Record(r) PROVE EffectTypeOK'
  <2>1. receipts' \in Seq(ReceiptRecord) /\ Len(receipts') = Len(receipts) + 1
    BY <1>8, AppendProperties DEF Record, EffectTypeOK, ReceiptRecord, RunnerRecord
  <2>3. effect \in EffectRecord /\ runner[r].outcome \in Statuses
    BY DEF EffectTypeOK, RunnerRecord, Statuses, Begun
  <2>4. Len(receipts') \in Nat
    BY <2>1, Lengths
  <2>5. effect' \in EffectRecord
    BY <1>8, <2>3, <2>4, RevisedType DEF Record
  <2>2. effect'.approval = effect.approval /\ effect'.receipt = Len(receipts')
    BY <1>8, <2>3, <2>4 DEF Record, EffectRecord
  <2> QED BY <1>8, <2>1, <2>2, <2>4, <2>5, GoesType, IdleType DEF Record, EffectTypeOK, world
<1>9. ASSUME NEW r \in Runners, NEW step \in RunnerRecord, Goes(r, step),
             UNCHANGED <<ledger, clock, provider>>, sent' \in Nat, handled' \in 0..sent'
      PROVE  EffectTypeOK'
  BY <1>9, GoesType DEF EffectTypeOK, ledger
<1>10. ASSUME NEW r \in Runners,
              Stop(r) \/ Read(r) \/ BeginAgain(r) \/ Guard(r) \/ Send(r) \/ Answer(r)
                \/ Lookup(r) \/ Reread(r)
       PROVE  EffectTypeOK'
  <2>1. UNCHANGED <<ledger, clock, provider>> /\ sent' \in Nat /\ handled' \in 0..sent'
    BY <1>10 DEF Stop, Read, BeginAgain, Guard, Send, Answer, Lookup, Reread, world,
                 EffectTypeOK
  <2>2. \E step \in RunnerRecord : Goes(r, step)
    <3>1. runner[r] \in RunnerRecord /\ effect \in EffectRecord
          /\ claim.until \in Nat /\ provider \in Terminal \cup {Unknown}
      BY DEF EffectTypeOK
    <3>2. CASE Stop(r)
      BY <3>2, IdleType DEF Stop
    <3>3. CASE Read(r)
      <4>1. AuthorizedRevision \in Nat
        BY <3>3, Recovered DEF Read
      <4>2. [Idle EXCEPT !.pc = "read", !.seen = effect.status, !.expected = AuthorizedRevision,
                         !.resolves = effect.receipt] \in RunnerRecord
        BY <3>1, <4>1, IdleType DEF RunnerRecord, EffectRecord
      <4> QED BY <3>3, <4>2 DEF Read
    <3>4. CASE BeginAgain(r)
      <4>1. [runner[r] EXCEPT !.pc = "begun", !.expected = 0, !.until = claim.until]
              \in RunnerRecord
        BY <3>1 DEF RunnerRecord
      <4> QED BY <3>4, <4>1 DEF BeginAgain, Permitted
    <3>5. CASE Guard(r)
      <4>1. [Idle EXCEPT !.pc = "cleared"] \in RunnerRecord
        BY IdleType DEF RunnerRecord
      <4> QED BY <3>5, <4>1 DEF Guard
    <3>6. CASE Send(r)
      <4>1. [runner[r] EXCEPT !.pc = "sent"] \in RunnerRecord
        BY <3>1 DEF RunnerRecord
      <4> QED BY <3>6, <4>1 DEF Send
    <3>7. ASSUME NEW outcome \in Terminal \cup {"indeterminate"}, NEW resolves \in Nat
          PROVE  [Idle EXCEPT !.pc = "told", !.outcome = outcome, !.resolves = resolves]
                   \in RunnerRecord
      BY IdleType DEF RunnerRecord
    <3>8. CASE Answer(r)
      BY <3>1, <3>7, <3>8 DEF Answer, Reports
    <3>9. CASE Lookup(r)
      <4>1. Found \in Terminal \cup {"indeterminate"} /\ runner[r].resolves \in Nat
        BY <3>1 DEF Found, RunnerRecord
      <4> QED BY <3>7, <3>9, <4>1 DEF Lookup, Reports
    <3>10. CASE Reread(r)
      <4>1. [runner[r] EXCEPT !.pc = "reread", !.rev = effect.rev] \in RunnerRecord
        BY <3>1 DEF RunnerRecord, EffectRecord
      <4> QED BY <3>10, <4>1, IdleType DEF Reread
    <3> QED BY <1>10, <3>2, <3>3, <3>4, <3>5, <3>6, <3>8, <3>9, <3>10
  <2> QED BY <1>9, <2>1, <2>2
<1> QED BY <1>1, <1>2, <1>3, <1>4, <1>5, <1>6, <1>7, <1>8, <1>10, <1>11, <1>12
        DEF EffectNext

-----------------------------------------------------------------------------
(* The row, its approvals and its receipts. *)

\* Five operations write them; no other step does.
LEMMA RowMoves ==
  ASSUME [EffectNext]_effectVars
  PROVE  \/ UNCHANGED <<effect, approvals, receipts>>
         \/ Cancel
         \/ \E now \in 0..clock :
              \/ Authorize(now)
              \/ \E r \in Runners : Begin(r, now)
              \/ \E decision \in {"approved", "denied", "revoked"}, window \in Windows :
                   RecordApproval(decision, window, now)
         \/ \E r \in Runners : Record(r)
BY DEF EffectNext, effectVars, Tick, EndAttempt, EndClaim, Provide, RenewClaim, Stop, Read,
       BeginAgain, Guard, Send, Answer, Lookup, Reread, ledger, world

\* What they make of the columns.
LEMMA RowAfter ==
  ASSUME EffectTypeOK
  PROVE  /\ Cancel => effect'.status = "cancelled" /\ effect'.basis = effect.basis
                      /\ effect'.receipt = effect.receipt /\ effect'.rev = effect.rev + 1
         /\ \A now : Authorize(now) =>
              /\ effect'.status = "authorized" /\ effect'.approval = Leaf
              /\ effect'.basis = effect.basis /\ effect'.receipt = effect.receipt
              /\ effect'.rev = effect.rev + 1
         /\ \A r, now : Begin(r, now) =>
              /\ effect'.status = "executing" /\ effect'.basis = effect.rev
              /\ effect'.receipt = effect.receipt /\ effect'.rev = effect.rev + 1
         /\ \A r : Record(r) =>
              /\ effect'.status = runner[r].outcome /\ effect'.receipt = Len(receipts')
              /\ effect'.basis = effect.basis /\ effect'.rev = effect.rev + 1
<1>1. effect \in EffectRecord
  BY DEF EffectTypeOK
<1>2. Cancel => effect'.status = "cancelled" /\ effect'.basis = effect.basis
                /\ effect'.receipt = effect.receipt /\ effect'.rev = effect.rev + 1
  BY <1>1 DEF Cancel, EffectRecord
<1>3. ASSUME NEW now, Authorize(now)
      PROVE  /\ effect'.status = "authorized" /\ effect'.approval = Leaf
             /\ effect'.basis = effect.basis /\ effect'.receipt = effect.receipt
             /\ effect'.rev = effect.rev + 1
  BY <1>1, <1>3 DEF Authorize, EffectRecord
<1>4. ASSUME NEW r, NEW now, Begin(r, now)
      PROVE  /\ effect'.status = "executing" /\ effect'.basis = effect.rev
             /\ effect'.receipt = effect.receipt /\ effect'.rev = effect.rev + 1
  BY <1>1, <1>4 DEF Begin, EffectRecord
<1>5. ASSUME NEW r, Record(r)
      PROVE  /\ effect'.status = runner[r].outcome /\ effect'.receipt = Len(receipts')
             /\ effect'.basis = effect.basis /\ effect'.rev = effect.rev + 1
  BY <1>1, <1>5 DEF Record, EffectRecord
<1> QED BY <1>2, <1>3, <1>4, <1>5

\* A new decision leaves the row alone or takes an authorization back.
LEMMA DecisionAfter ==
  ASSUME EffectTypeOK, AuthorityIsCurrent, NEW decision, NEW window, NEW now,
         RecordApproval(decision, window, now)
  PROVE  /\ receipts' = receipts
         /\ \/ effect' = effect /\ effect.status # "authorized"
            \/ /\ effect.status = "authorized" /\ effect'.status = "proposed"
               /\ effect'.basis = effect.basis /\ effect'.receipt = effect.receipt
               /\ effect'.rev = effect.rev + 1
<1>1. effect \in EffectRecord
  BY DEF EffectTypeOK
<1>2. effect.status = "authorized" => effect.approval = Leaf
  BY DEF AuthorityIsCurrent
<1>3. CASE effect.status = "authorized"
  BY <1>1, <1>2, <1>3 DEF RecordApproval, Withdrawn, EffectRecord
<1>4. CASE effect.status # "authorized"
  BY <1>4 DEF RecordApproval, Withdrawn
<1> QED BY <1>3, <1>4

LEMMA AuthorityStep ==
  EffectTypeOK /\ AuthorityIsCurrent /\ [EffectNext]_effectVars => AuthorityIsCurrent'
<1> SUFFICES ASSUME EffectTypeOK, AuthorityIsCurrent, [EffectNext]_effectVars
             PROVE  AuthorityIsCurrent'
  OBVIOUS
<1>1. CASE UNCHANGED <<effect, approvals, receipts>>
  BY <1>1 DEF AuthorityIsCurrent, Leaf, Approves
<1>2. CASE Cancel
  BY <1>2, RowAfter DEF AuthorityIsCurrent
<1>3. ASSUME NEW now, Authorize(now) PROVE AuthorityIsCurrent'
  <2>1. effect'.approval = Leaf /\ Approves(Leaf) /\ approvals' = approvals
    BY <1>3, RowAfter DEF Authorize
  <2> QED BY <2>1 DEF AuthorityIsCurrent, Leaf, Approves
<1>4. ASSUME NEW r, NEW now, Begin(r, now) PROVE AuthorityIsCurrent'
  BY <1>4, RowAfter DEF AuthorityIsCurrent
<1>5. ASSUME NEW decision, NEW window, NEW now, RecordApproval(decision, window, now)
      PROVE  AuthorityIsCurrent'
  BY <1>5, DecisionAfter DEF AuthorityIsCurrent
<1>6. ASSUME NEW r \in Runners, Record(r) PROVE AuthorityIsCurrent'
  <2>1. effect'.status \in Terminal \cup {"indeterminate"}
    BY <1>6, RowAfter DEF EffectTypeOK, RunnerRecord
  <2> QED BY <2>1 DEF AuthorityIsCurrent, Terminal
<1> QED BY <1>1, <1>2, <1>3, <1>4, <1>5, <1>6, RowMoves

LEMMA BasisStep ==
  EffectTypeOK /\ AuthorityIsCurrent /\ BasisIsCounted /\ ReceiptsTellOneStory
    /\ [EffectNext]_effectVars => BasisIsCounted'
<1> SUFFICES ASSUME EffectTypeOK, AuthorityIsCurrent, BasisIsCounted, ReceiptsTellOneStory,
                    [EffectNext]_effectVars
             PROVE  BasisIsCounted'
  OBVIOUS
<1> USE DEF Begun, Terminal
<1>0. effect.rev \in Nat /\ effect.basis \in Nat
  BY DEF EffectTypeOK, EffectRecord
<1>1. CASE UNCHANGED <<effect, approvals, receipts>>
  BY <1>1 DEF BasisIsCounted
<1>2. CASE Cancel
  BY <1>0, <1>2, RowAfter DEF BasisIsCounted, Cancel, Cancellable
<1>3. ASSUME NEW now, Authorize(now) PROVE BasisIsCounted'
  BY <1>0, <1>3, RowAfter DEF BasisIsCounted, Authorize
<1>4. ASSUME NEW r, NEW now, Begin(r, now) PROVE BasisIsCounted'
  BY <1>0, <1>4, RowAfter DEF BasisIsCounted
<1>5. ASSUME NEW decision, NEW window, NEW now, RecordApproval(decision, window, now)
      PROVE  BasisIsCounted'
  BY <1>0, <1>5, DecisionAfter DEF BasisIsCounted
<1>6. ASSUME NEW r \in Runners, Record(r) PROVE BasisIsCounted'
  <2>1. runner[r].outcome \in Terminal \cup {"indeterminate"}
    BY DEF EffectTypeOK, RunnerRecord
  <2>2. effect.status \in {"executing", "indeterminate"}
        /\ (runner[r].outcome = "indeterminate" => effect.status = "executing")
    BY <1>6 DEF Record, Fits
  <2> QED BY <1>0, <1>6, <2>1, <2>2, RowAfter DEF BasisIsCounted
<1> QED BY <1>1, <1>2, <1>3, <1>4, <1>5, <1>6, RowMoves

LEMMA ReceiptsStep ==
  EffectTypeOK /\ AuthorityIsCurrent /\ ReceiptsTellOneStory /\ ResolvedByReceipt
    /\ [EffectNext]_effectVars => ReceiptsTellOneStory' /\ ResolvedByReceipt'
<1> SUFFICES ASSUME EffectTypeOK, AuthorityIsCurrent, ReceiptsTellOneStory, ResolvedByReceipt,
                    [EffectNext]_effectVars
             PROVE  ReceiptsTellOneStory' /\ ResolvedByReceipt'
  OBVIOUS
<1> USE DEF Terminal
<1>7. \A i \in 1..Len(receipts) : receipts[i].outcome \in Terminal \cup {"indeterminate"}
  <2>1. receipts \in Seq(ReceiptRecord)
    BY DEF EffectTypeOK
  <2>2. \A i \in 1..Len(receipts) : receipts[i] \in ReceiptRecord
    BY <2>1, ElementOfSeq
  <2> QED BY <2>2 DEF ReceiptRecord
<1>8. Len(receipts) \in Nat /\ (receipts = << >> <=> Len(receipts) = 0)
  <2>1. receipts \in Seq(ReceiptRecord)
    BY DEF EffectTypeOK
  <2> QED BY <2>1, EmptySeq, LenProperties
<1>9. receipts # << >> => effect.status \in Terminal \cup {"indeterminate"}
  BY <1>7, <1>8 DEF ReceiptsTellOneStory
<1>1. CASE UNCHANGED <<effect, approvals, receipts>>
  BY <1>1 DEF ReceiptsTellOneStory, ResolvedByReceipt
<1>10. ASSUME effect.status \notin Terminal \cup {"indeterminate"},
              effect'.status \notin Terminal \cup {"indeterminate"},
              receipts' = receipts, effect'.receipt = effect.receipt
       PROVE  ReceiptsTellOneStory' /\ ResolvedByReceipt'
  BY <1>8, <1>9, <1>10 DEF ReceiptsTellOneStory, ResolvedByReceipt
<1>2. CASE Cancel
  BY <1>2, <1>10, RowAfter DEF Cancel, Cancellable
<1>3. ASSUME NEW now, Authorize(now) PROVE ReceiptsTellOneStory' /\ ResolvedByReceipt'
  BY <1>3, <1>10, RowAfter DEF Authorize
<1>4. ASSUME NEW r, NEW now, Begin(r, now) PROVE ReceiptsTellOneStory' /\ ResolvedByReceipt'
  BY <1>4, <1>10, RowAfter DEF Begin
<1>5. ASSUME NEW decision, NEW window, NEW now, RecordApproval(decision, window, now)
      PROVE  ReceiptsTellOneStory' /\ ResolvedByReceipt'
  BY <1>5, <1>1, <1>10, DecisionAfter DEF RecordApproval, ReceiptsTellOneStory, ResolvedByReceipt
<1>6. ASSUME NEW r \in Runners, Record(r) PROVE ReceiptsTellOneStory' /\ ResolvedByReceipt'
  <2> DEFINE n == Len(receipts)
             out == runner[r].outcome
             new == [outcome |-> out, resolves |-> runner[r].resolves]
  <2>1. receipts \in Seq(ReceiptRecord) /\ new \in ReceiptRecord
        /\ out \in Terminal \cup {"indeterminate"}
    BY DEF EffectTypeOK, RunnerRecord, ReceiptRecord
  <2>2. receipts' = Append(receipts, new)
    BY <1>6 DEF Record
  <2>3. /\ Len(receipts') = n + 1
        /\ \A i \in 1..n : receipts'[i] = receipts[i]
        /\ receipts'[n + 1] = new
    BY <2>1, <2>2, AppendProperties, LenProperties
  <2>4. effect'.status = out /\ effect'.receipt = n + 1
    BY <1>6, <2>3, RowAfter
  <2>5. new.outcome = out /\ new.resolves = runner[r].resolves
    OBVIOUS
  <2> HIDE DEF new
  <2>8. receipts' # << >>
    BY <1>8, <2>3
  <2>6. CASE effect.status = "executing"
    <3>1. n = 0
      BY <1>8, <1>9, <2>6
    <3> QED BY <2>3, <2>4, <2>5, <2>8, <3>1 DEF ReceiptsTellOneStory, ResolvedByReceipt
  <2>7. CASE effect.status = "indeterminate"
    <3>1. n = 1 /\ receipts[1].outcome = "indeterminate"
      <4>1. n \in {1, 2} /\ receipts[n].outcome = "indeterminate"
        <5>1. receipts # << >>
          BY <2>7 DEF ResolvedByReceipt
        <5>2. receipts[n].outcome = "indeterminate"
          BY <2>7, <5>1 DEF ReceiptsTellOneStory
        <5>3. n <= 2
          BY DEF ReceiptsTellOneStory
        <5>4. n # 0
          BY <1>8, <5>1
        <5>5. n \in {1, 2}
          <6>1. \A m \in Nat : m <= 2 /\ m # 0 => m \in {1, 2}
            OBVIOUS
          <6>2. n \in Nat
            BY Lengths
          <6> HIDE DEF n
          <6> QED BY <5>3, <5>4, <6>1, <6>2
        <5> QED BY <5>2, <5>5
      <4>2. n # 2
        BY <4>1 DEF ReceiptsTellOneStory
      <4> QED BY <4>1, <4>2
    <3>2. out # "indeterminate" /\ runner[r].resolves = 1
      BY <1>6, <2>7, <3>1 DEF Record, Fits, ReceiptsTellOneStory
    <3> QED BY <2>1, <2>3, <2>4, <2>5, <2>8, <3>1, <3>2
            DEF ReceiptsTellOneStory, ResolvedByReceipt
  <2> QED BY <1>6, <2>6, <2>7 DEF Record
<1> QED BY <1>1, <1>2, <1>3, <1>4, <1>5, <1>6, RowMoves

-----------------------------------------------------------------------------
(* The runners. *)

\* An effect that has begun never returns to where it can be cancelled.
LEMMA BegunForGood ==
  ASSUME EffectTypeOK, AuthorityIsCurrent, [EffectNext]_effectVars, effect.status \in Begun
  PROVE  effect'.status \in Begun
<1> USE DEF Begun, Terminal
<1>1. CASE UNCHANGED <<effect, approvals, receipts>>
  BY <1>1
<1>2. CASE Cancel
  BY <1>2 DEF Cancel, Cancellable
<1>3. ASSUME NEW now, Authorize(now) PROVE FALSE
  BY <1>3 DEF Authorize
<1>4. ASSUME NEW r, NEW now, Begin(r, now) PROVE FALSE
  BY <1>4 DEF Begin
<1>5. ASSUME NEW decision, NEW window, NEW now, RecordApproval(decision, window, now)
      PROVE  effect'.status \in Begun
  BY <1>5, DecisionAfter
<1>6. ASSUME NEW r \in Runners, Record(r) PROVE effect'.status \in Begun
  BY <1>6, RowAfter DEF EffectTypeOK, RunnerRecord
<1> QED BY <1>1, <1>2, <1>3, <1>4, <1>5, <1>6, RowMoves

\* What a runner's steps make of its own record, and what other steps leave of it.
LEMMA RunnerMoves ==
  ASSUME EffectTypeOK, [EffectNext]_effectVars, NEW s \in Runners
  PROVE  \/ runner'[s] = runner[s]
         \/ runner'[s].pc \in {"idle", "read"}
         \/ \E now \in 0..clock : Begin(s, now) /\ runner'[s].pc = "begun"
         \/ BeginAgain(s) /\ runner'[s].pc = "begun"
         \/ Guard(s) /\ runner'[s].pc = "cleared"
         \/ Send(s) /\ runner'[s].pc = "sent"
         \/ /\ PastBegin(s) /\ provider' = provider /\ runner'[s].pc = "told"
            /\ runner'[s].outcome \in {"indeterminate", provider}
         \/ /\ runner[s].pc = "told" /\ runner'[s].pc = "reread" /\ provider' = provider
            /\ runner'[s].outcome = runner[s].outcome
<1> DEFINE Goal ==
      \/ runner'[s] = runner[s]
      \/ runner'[s].pc \in {"idle", "read"}
      \/ \E now \in 0..clock : Begin(s, now) /\ runner'[s].pc = "begun"
      \/ BeginAgain(s) /\ runner'[s].pc = "begun"
      \/ Guard(s) /\ runner'[s].pc = "cleared"
      \/ Send(s) /\ runner'[s].pc = "sent"
      \/ /\ PastBegin(s) /\ provider' = provider /\ runner'[s].pc = "told"
         /\ runner'[s].outcome \in {"indeterminate", provider}
      \/ /\ runner[s].pc = "told" /\ runner'[s].pc = "reread" /\ provider' = provider
         /\ runner'[s].outcome = runner[s].outcome
<1>1. runner \in [Runners -> RunnerRecord] /\ runner[s] \in RunnerRecord
  BY DEF EffectTypeOK
<1>2. ASSUME NEW r \in Runners, NEW step, Goes(r, step)
      PROVE  IF s = r THEN runner'[s] = step ELSE runner'[s] = runner[s]
  BY <1>1, <1>2 DEF Goes
<1>3. CASE UNCHANGED runner
  BY <1>3
<1>4. ASSUME NEW r \in Runners, NEW now \in 0..clock, Begin(r, now) PROVE Goal
  <2>1. [runner[s] EXCEPT !.pc = "begun", !.expected = 0, !.until = claim.until].pc = "begun"
    BY <1>1 DEF RunnerRecord
  <2> QED BY <1>2, <1>4, <2>1 DEF Begin, Permitted
<1>5. ASSUME NEW r \in Runners, BeginAgain(r) PROVE Goal
  <2>1. [runner[s] EXCEPT !.pc = "begun", !.expected = 0, !.until = claim.until].pc = "begun"
    BY <1>1 DEF RunnerRecord
  <2> QED BY <1>2, <1>5, <2>1 DEF BeginAgain, Permitted
<1>6. ASSUME NEW r \in Runners, Stop(r) \/ Read(r) \/ Record(r) PROVE Goal
  <2>1. Idle.pc = "idle"
    BY DEF Idle
  <2>2. [Idle EXCEPT !.pc = "read", !.seen = effect.status, !.expected = AuthorizedRevision,
                     !.resolves = effect.receipt].pc = "read"
    BY DEF Idle
  <2>3. CASE Stop(r) \/ Record(r)
    BY <1>2, <2>1, <2>3 DEF Stop, Record
  <2>4. CASE Read(r)
    BY <1>2, <2>2, <2>4 DEF Read
  <2> QED BY <1>6, <2>3, <2>4
<1>7. ASSUME NEW r \in Runners, Guard(r) PROVE Goal
  <2>1. [Idle EXCEPT !.pc = "cleared"].pc = "cleared"
    BY DEF Idle
  <2> QED BY <1>2, <1>7, <2>1 DEF Guard
<1>8. ASSUME NEW r \in Runners, Send(r) PROVE Goal
  <2>1. [runner[s] EXCEPT !.pc = "sent"].pc = "sent"
    BY <1>1 DEF RunnerRecord
  <2> QED BY <1>2, <1>8, <2>1 DEF Send
<1>9. ASSUME NEW r \in Runners, NEW outcome \in {"indeterminate", provider}, NEW resolves,
             Reports(r, outcome, resolves), runner[r].pc \in {"sent", "begun"},
             provider' = provider
      PROVE  Goal
  <2>1. /\ [Idle EXCEPT !.pc = "told", !.outcome = outcome, !.resolves = resolves].pc = "told"
        /\ [Idle EXCEPT !.pc = "told", !.outcome = outcome, !.resolves = resolves].outcome
             = outcome
    BY DEF Idle
  <2>2. CASE s = r
    <3>1. runner'[s].pc = "told" /\ runner'[s].outcome = outcome
      BY <1>2, <1>9, <2>1, <2>2 DEF Reports
    <3> QED BY <1>9, <2>2, <3>1 DEF PastBegin
  <2>3. CASE s # r
    BY <1>2, <1>9, <2>3 DEF Reports
  <2> QED BY <2>2, <2>3
<1>10. ASSUME NEW r \in Runners, Answer(r) PROVE Goal
  BY <1>9, <1>10 DEF Answer, world
<1>11. ASSUME NEW r \in Runners, Lookup(r) PROVE Goal
  <2>1. Found \in {"indeterminate", provider}
    BY DEF Found
  <2> QED BY <1>9, <1>11, <2>1 DEF Lookup, world
<1>12. ASSUME NEW r \in Runners, Reread(r) PROVE Goal
  <2>1. /\ [runner[s] EXCEPT !.pc = "reread", !.rev = effect.rev].pc = "reread"
        /\ [runner[s] EXCEPT !.pc = "reread", !.rev = effect.rev].outcome = runner[s].outcome
    BY <1>1 DEF RunnerRecord
  <2>2. Idle.pc = "idle"
    BY DEF Idle
  <2> QED BY <1>2, <1>12, <2>1, <2>2 DEF Reread, world
<1>13. UNCHANGED runner \/ \E r \in Runners :
         \/ \E now \in 0..clock : Begin(r, now)
         \/ BeginAgain(r) \/ Stop(r) \/ Read(r) \/ Record(r) \/ Guard(r) \/ Send(r)
         \/ Answer(r) \/ Lookup(r) \/ Reread(r)
  BY DEF EffectNext, effectVars, Tick, EndAttempt, EndClaim, Cancel, Provide, RenewClaim,
         Authorize, RecordApproval
<1> QED BY <1>3, <1>4, <1>5, <1>6, <1>7, <1>8, <1>10, <1>11, <1>12, <1>13

LEMMA SentStep ==
  EffectTypeOK /\ AuthorityIsCurrent /\ BegunBeforeSent /\ [EffectNext]_effectVars =>
    BegunBeforeSent'
<1> SUFFICES ASSUME EffectTypeOK, AuthorityIsCurrent, BegunBeforeSent, [EffectNext]_effectVars
             PROVE  BegunBeforeSent'
  OBVIOUS
<1>1. effect.status \in Begun => effect'.status \in Begun
  BY BegunForGood
<1>2. ASSUME NEW s \in Runners, PastBegin(s)' PROVE effect'.status \in Begun
  <2>1. CASE PastBegin(s)
    BY <1>1, <2>1 DEF BegunBeforeSent
  <2>2. ASSUME NEW now, Begin(s, now) PROVE effect'.status \in Begun
    BY <2>2, RowAfter DEF Begun
  <2>3. CASE BeginAgain(s)
    BY <1>1, <2>3 DEF BeginAgain, Begun
  <2>4. runner'[s].pc \in {"begun", "cleared", "sent", "told", "reread"}
    BY <1>2 DEF PastBegin
  <2>5. PastBegin(s) \/ BeginAgain(s) \/ \E now : Begin(s, now)
    BY <2>4, RunnerMoves DEF PastBegin, Guard, Send
  <2> QED BY <2>1, <2>2, <2>3, <2>5
<1>3. sent' = sent \/ \E r \in Runners : PastBegin(r)
  BY DEF EffectNext, effectVars, Tick, EndAttempt, EndClaim, Cancel, Provide, RenewClaim,
         Authorize, RecordApproval, Begin, BeginAgain, Stop, Read, Record, Guard, Send,
         Answer, Lookup, Reread, world, PastBegin
<1> QED BY <1>1, <1>2, <1>3 DEF BegunBeforeSent

\* The provider's decision, once made, stands.
LEMMA ProviderDecidesOnce ==
  ASSUME EffectTypeOK, [EffectNext]_effectVars, provider # Unknown
  PROVE  provider' = provider
BY DEF EffectNext, effectVars, Tick, EndAttempt, EndClaim, Cancel, Provide, RenewClaim,
       Authorize, RecordApproval, Begin, BeginAgain, Stop, Read, Record, Guard, Send,
       Answer, Lookup, Reread, world

LEMMA OutcomeStep ==
  EffectTypeOK /\ AuthorityIsCurrent /\ ReportsAreProven /\ OutcomeIsProven
    /\ [EffectNext]_effectVars => ReportsAreProven' /\ OutcomeIsProven'
<1> SUFFICES ASSUME EffectTypeOK, AuthorityIsCurrent, ReportsAreProven, OutcomeIsProven,
                    [EffectNext]_effectVars
             PROVE  ReportsAreProven' /\ OutcomeIsProven'
  OBVIOUS
<1>0. provider \in Terminal => provider' = provider
  BY ProviderDecidesOnce, EffectAssumption DEF Terminal
<1>1. ASSUME NEW s \in Runners, runner'[s].pc \in {"told", "reread"},
             runner'[s].outcome \in Terminal
      PROVE  provider' = runner'[s].outcome
  <2>1. CASE runner'[s] = runner[s]
    BY <1>0, <1>1, <2>1 DEF ReportsAreProven
  <2>2. CASE /\ provider' = provider
             /\ runner'[s].outcome \in {"indeterminate", provider}
    BY <1>1, <2>2 DEF Terminal
  <2>3. CASE /\ runner[s].pc = "told" /\ provider' = provider
             /\ runner'[s].outcome = runner[s].outcome
    BY <1>1, <2>3 DEF ReportsAreProven
  <2> QED BY <1>1, <2>1, <2>2, <2>3, RunnerMoves
<1>2. ReportsAreProven'
  BY <1>1 DEF ReportsAreProven
<1>3. ASSUME effect'.status = effect.status PROVE OutcomeIsProven'
  BY <1>0, <1>3 DEF OutcomeIsProven
<1>4. ASSUME effect'.status \notin Terminal PROVE OutcomeIsProven'
  BY <1>4 DEF OutcomeIsProven
<1>5. ASSUME NEW r \in Runners, Record(r) PROVE OutcomeIsProven'
  <2>1. effect'.status = runner[r].outcome /\ runner[r].pc = "reread" /\ provider' = provider
    BY <1>5, RowAfter DEF Record, world
  <2> QED BY <2>1 DEF ReportsAreProven, OutcomeIsProven
<1>6. ASSUME UNCHANGED <<effect, approvals, receipts>> PROVE OutcomeIsProven'
  BY <1>3, <1>6
<1>7. ASSUME NEW now, Cancel \/ Authorize(now) \/ \E r : Begin(r, now) PROVE OutcomeIsProven'
  <2>1. effect'.status \in {"cancelled", "authorized", "executing"}
    BY <1>7, RowAfter
  <2> QED BY <1>4, <2>1 DEF Terminal
<1>8. ASSUME NEW decision, NEW window, NEW now, RecordApproval(decision, window, now)
      PROVE  OutcomeIsProven'
  BY <1>3, <1>4, <1>8, DecisionAfter DEF Terminal
<1> QED BY <1>2, <1>5, <1>6, <1>7, <1>8, RowMoves

-----------------------------------------------------------------------------
LEMMA EffectInitially == EffectInit => EffectInv
<1> SUFFICES ASSUME EffectInit PROVE EffectInv
  OBVIOUS
<1> USE DEF EffectInit, Terminal, Begun
<1>1. Len(approvals) = 0 /\ Len(receipts) = 0
      /\ approvals \in Seq(ApprovalRecord) /\ receipts \in Seq(ReceiptRecord)
  BY EmptySeq
<1>2. effect \in EffectRecord /\ runner \in [Runners -> RunnerRecord]
  BY IdleType DEF EffectRecord, Statuses
<1>3. EffectTypeOK
  BY <1>1, <1>2, EffectAssumption DEF EffectTypeOK
<1>4. \A r \in Runners : runner[r].pc = "idle"
  BY DEF Idle
<1>5. AuthorityIsCurrent /\ BasisIsCounted /\ OutcomeIsProven
  BY DEF AuthorityIsCurrent, BasisIsCounted, OutcomeIsProven
<1>6. BegunBeforeSent /\ ReportsAreProven
  BY <1>4 DEF BegunBeforeSent, PastBegin, ReportsAreProven
<1>7. ReceiptsTellOneStory /\ ResolvedByReceipt
  BY <1>1 DEF ReceiptsTellOneStory, ResolvedByReceipt
<1> QED BY <1>3, <1>5, <1>6, <1>7 DEF EffectInv

LEMMA EffectInvariant == EffectSpec => []EffectInv
<1>1. EffectInit => EffectInv
  BY EffectInitially
<1>2. EffectInv /\ [EffectNext]_effectVars => EffectInv'
  BY TypeStep, AuthorityStep, BasisStep, ReceiptsStep, SentStep, OutcomeStep DEF EffectInv
<1> QED BY <1>1, <1>2, PTL DEF EffectSpec

\* The rows, the runners and the provider keep their types (effects.ts, runner.ts).
THEOREM EffectTypes == EffectSpec => []EffectTypeOK
<1>1. EffectInv => EffectTypeOK
  BY DEF EffectInv
<1> QED BY <1>1, EffectInvariant, PTL

\* recordEffectApproval and authorizeEffect, in any order and by any clock
\* sample, never leave an effect authorized by a decision that has been replaced.
THEOREM AuthorizedByTheLastWord == EffectSpec => []AuthorityIsCurrent
<1>1. EffectInv => AuthorityIsCurrent
  BY DEF EffectInv
<1> QED BY <1>1, EffectInvariant, PTL

\* Of cancelEffect and beginEffectExecution one wins: nothing leaves a runner for
\* an effect that can be, or has been, cancelled.
THEOREM CancellationBeatsDispatch == EffectSpec => []CancelledIsNeverSent
<1>1. EffectInv => CancelledIsNeverSent
  BY DEF EffectInv, BegunBeforeSent, PastBegin, CancelledIsNeverSent
<1> QED BY <1>1, EffectInvariant, PTL

\* recordEffectReceipt never records a terminal outcome the provider did not decide.
THEOREM LedgerNeverGuesses == EffectSpec => []OutcomeIsProven
<1>1. EffectInv => OutcomeIsProven
  BY DEF EffectInv
<1> QED BY <1>1, EffectInvariant, PTL

\* The receipts of an effect are one story, whoever records them.
THEOREM OneStory == EffectSpec => []ReceiptsTellOneStory
<1>1. EffectInv => ReceiptsTellOneStory
  BY DEF EffectInv
<1> QED BY <1>1, EffectInvariant, PTL

\* authorizedRevision of runner.ts finds the revision that the begin expected.
THEOREM RecoveryIsPossible == EffectSpec => []RecoveryRebuildsTheBegin
<1>1. EffectInv => RecoveryRebuildsTheBegin
  BY Recovered DEF EffectInv, RecoveryRebuildsTheBegin
<1> QED BY <1>1, EffectInvariant, PTL
=============================================================================
