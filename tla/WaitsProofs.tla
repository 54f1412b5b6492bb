----------------------------- MODULE WaitsProofs -----------------------------
(***************************************************************************)
(* Proofs about Waits, for every set of commitments, plans and sweepers,   *)
(* every limit of a sweep and every lag of a clock sample.                 *)
(***************************************************************************)
EXTENDS Waits, SequenceTheorems, FiniteSetTheorems, TLAPS

-----------------------------------------------------------------------------
(* The invariant. *)

Fallbacks == {"none", "create", "activate"}

ConditionRecord ==
  [task : Tasks, deadline : Nat, fallback : Fallbacks, target : Tasks, notBefore : Nat,
   created : Nat, status : {"waiting", "cancelled", "satisfied", "expired"}, by : Nat]

ObservationRecord == [occurred : Nat, recorded : Nat]

Effects == {"condition_terminal", "satisfied", "no_change"}

\* The tables and what each column holds.
WaitsTypeOK ==
  /\ status \in [Tasks -> {"open", "closed", "deleted"}]
  /\ spawned \in Seq(Nat)
  /\ conditions \in Seq(ConditionRecord)
  /\ observations \in Seq(ObservationRecord)
  /\ verdicts \subseteq [condition : Nat, observation : Nat, effect : Effects]
  /\ sweep \in [Sweepers -> [queue : Seq(Nat), now : Nat]]
  /\ clock \in Nat

\* A sweep lists waits that exist and acts on a clock sample of the past.
SweepInv ==
  \A s \in Sweepers :
    /\ \A i \in DOMAIN sweep[s].queue : sweep[s].queue[i] \in DOMAIN conditions
    /\ sweep[s].now <= clock

\* A satisfying verdict and the wait it satisfied name each other, and that verdict
\* was of a fact that came in time.
VerdictInv ==
  /\ \A v \in verdicts : v.condition \in DOMAIN conditions /\ v.observation \in DOMAIN observations
  /\ \A v \in verdicts : v.effect = "satisfied" =>
       conditions[v.condition].status = "satisfied" /\ conditions[v.condition].by = v.observation
  /\ \A c \in DOMAIN conditions : conditions[c].status = "satisfied" =>
       /\ conditions[c].by \in DOMAIN observations
       /\ Matches(c, conditions[c].by) /\ InTime(c, conditions[c].by)
       /\ \E v \in verdicts : v.condition = c /\ v.effect = "satisfied"

\* A wait expires when its deadline has passed and no fact satisfies it; a fact that
\* is recorded later is recorded on a sample at most MaxLag ticks old.
ExpiryInv ==
  \A c \in DOMAIN conditions : conditions[c].status = "expired" =>
    /\ conditions[c].deadline # 0 /\ conditions[c].deadline <= clock
    /\ \A o \in DOMAIN observations :
         (Matches(c, o) /\ observations[o].occurred < conditions[c].deadline) =>
            observations[o].recorded + MaxLag >= conditions[c].deadline

Spawning(c) == conditions[c].status = "expired" /\ conditions[c].fallback = "create"

\* The spawned commitments are those of the expired waits that create one, one each.
SpawnInv ==
  /\ \A i \in DOMAIN spawned : spawned[i] \in DOMAIN conditions /\ Spawning(spawned[i])
  /\ \A i, j \in DOMAIN spawned : spawned[i] = spawned[j] => i = j
  /\ \A c \in DOMAIN conditions : Spawning(c) => \E i \in DOMAIN spawned : spawned[i] = c

WaitsInv == WaitsTypeOK /\ SweepInv /\ VerdictInv /\ ExpiryInv /\ SpawnInv

-----------------------------------------------------------------------------
(* The tables. *)

LEMMA Rows ==
  ASSUME WaitsTypeOK
  PROVE  /\ Len(conditions) \in Nat /\ DOMAIN conditions = 1..Len(conditions)
         /\ Len(observations) \in Nat /\ DOMAIN observations = 1..Len(observations)
         /\ Len(spawned) \in Nat /\ DOMAIN spawned = 1..Len(spawned)
         /\ \A c \in DOMAIN conditions : conditions[c] \in ConditionRecord /\ c \in Nat
         /\ \A o \in DOMAIN observations : observations[o] \in ObservationRecord /\ o \in Nat
         /\ clock \in Nat
BY LenProperties, ElementOfSeq DEF WaitsTypeOK

\* A longer table.
LEMMA AppendedRows ==
  ASSUME NEW S, NEW s \in Seq(S), NEW x \in S
  PROVE  /\ Append(s, x) \in Seq(S) /\ Len(s) \in Nat /\ DOMAIN s = 1..Len(s)
         /\ DOMAIN Append(s, x) = 1..(Len(s) + 1)
         /\ \A i \in DOMAIN s : i \in DOMAIN Append(s, x) /\ Append(s, x)[i] = s[i]
         /\ Append(s, x)[Len(s) + 1] = x
<1>1. /\ Append(s, x) \in Seq(S) /\ Len(Append(s, x)) = Len(s) + 1
      /\ \A i \in 1..Len(s) : Append(s, x)[i] = s[i]
      /\ Append(s, x)[Len(s) + 1] = x
  BY AppendProperties
<1>2. Len(s) \in Nat /\ DOMAIN s = 1..Len(s) /\ DOMAIN Append(s, x) = 1..(Len(s) + 1)
  BY <1>1, LenProperties
<1> QED BY <1>1, <1>2

\* A table of waits some of whose rows are replaced.
LEMMA ReplacedRows ==
  ASSUME WaitsTypeOK, NEW f, f = [c \in DOMAIN conditions |-> f[c]],
         \A c \in DOMAIN conditions : f[c] \in ConditionRecord
  PROVE  f \in Seq(ConditionRecord) /\ DOMAIN f = DOMAIN conditions
<1>1. f = [c \in 1..Len(conditions) |-> f[c]] /\ Len(conditions) \in Nat
  BY Rows
<1>2. f \in [1..Len(conditions) -> ConditionRecord]
  BY <1>1, Rows
<1> QED BY <1>1, <1>2, Rows, IsASeq

\* What may become of a wait's row: decided, once, as `how`.
LEMMA DecidedRow ==
  ASSUME WaitsTypeOK, NEW c \in DOMAIN conditions,
         NEW how \in {"cancelled", "expired"}
  PROVE  /\ [conditions[c] EXCEPT !.status = how] \in ConditionRecord
         /\ [conditions[c] EXCEPT !.status = how].status = how
         /\ [conditions[c] EXCEPT !.status = how].task = conditions[c].task
         /\ [conditions[c] EXCEPT !.status = how].deadline = conditions[c].deadline
         /\ [conditions[c] EXCEPT !.status = how].fallback = conditions[c].fallback
         /\ [conditions[c] EXCEPT !.status = how].notBefore = conditions[c].notBefore
<1>1. conditions[c] \in ConditionRecord
  BY Rows
<1> QED BY <1>1 DEF ConditionRecord

-----------------------------------------------------------------------------
(* What a step does: it decides no wait, or one, by a fact or by expiry. *)

\* The terms of the waits there are stay, and so do the facts; a fact that is
\* recorded now rests on a recent clock sample.
TermsStay ==
  /\ \A c \in DOMAIN conditions :
       /\ c \in DOMAIN conditions'
       /\ conditions'[c].deadline = conditions[c].deadline
       /\ conditions'[c].fallback = conditions[c].fallback
       /\ conditions'[c].notBefore = conditions[c].notBefore
  /\ \A o \in DOMAIN observations : o \in DOMAIN observations' /\ observations'[o] = observations[o]
  /\ \A o \in DOMAIN observations' \ DOMAIN observations : clock <= observations'[o].recorded + MaxLag
  /\ clock <= clock'

\* No wait is decided, though some may be cancelled and one be new.
NoneDecided ==
  /\ UNCHANGED <<spawned, verdicts>>
  /\ \A c \in DOMAIN conditions :
       \/ conditions'[c].status = conditions[c].status /\ conditions'[c].by = conditions[c].by
       \/ Waiting(c) /\ conditions'[c].status = "cancelled"
  /\ \A c \in DOMAIN conditions' \ DOMAIN conditions : conditions'[c].status = "waiting"

\* A matching fact is reconciled with a wait.
Reconciled(c, o) ==
  /\ Matches(c, o)
  /\ verdicts' = verdicts \cup {Verdict(c, o)} /\ conditions' = Satisfied(c, o)
  /\ UNCHANGED <<spawned, observations, clock>>

\* A wait expires with its fallback.
Expires(c) ==
  /\ Waiting(c) /\ conditions[c].deadline # 0 /\ conditions[c].deadline <= clock
  /\ Candidates(c) = {}
  /\ conditions' = [conditions EXCEPT ![c].status = "expired"]
  /\ spawned' = IF conditions[c].fallback = "create" THEN Append(spawned, c) ELSE spawned
  /\ UNCHANGED <<observations, verdicts, clock>>

Goes ==
  \/ NoneDecided
  \/ \E c \in DOMAIN conditions : Expires(c) \/ \E o \in DOMAIN observations : Reconciled(c, o)

\* Cancelling some of the waiting conditions.
LEMMA CancelledRows ==
  ASSUME WaitsTypeOK, NEW f, NEW C, \A c \in C \cap DOMAIN conditions : Waiting(c),
         f = [c \in DOMAIN conditions |->
                IF c \in C THEN [conditions[c] EXCEPT !.status = "cancelled"] ELSE conditions[c]]
  PROVE  /\ f \in Seq(ConditionRecord) /\ DOMAIN f = DOMAIN conditions
         /\ \A c \in DOMAIN conditions :
              /\ f[c].deadline = conditions[c].deadline /\ f[c].fallback = conditions[c].fallback
              /\ f[c].notBefore = conditions[c].notBefore
              /\ \/ f[c].status = conditions[c].status /\ f[c].by = conditions[c].by
                 \/ Waiting(c) /\ f[c].status = "cancelled"
<1>1. ASSUME NEW c \in DOMAIN conditions
      PROVE  /\ f[c] \in ConditionRecord
             /\ f[c].deadline = conditions[c].deadline /\ f[c].fallback = conditions[c].fallback
             /\ f[c].notBefore = conditions[c].notBefore
             /\ \/ f[c].status = conditions[c].status /\ f[c].by = conditions[c].by
                \/ Waiting(c) /\ f[c].status = "cancelled"
  BY Rows, DecidedRow
<1>2. f = [c \in DOMAIN conditions |-> f[c]]
  OBVIOUS
<1>3. f \in Seq(ConditionRecord) /\ DOMAIN f = DOMAIN conditions
  BY <1>1, <1>2, ReplacedRows
<1> QED BY <1>1, <1>3

\* Close, CancelWait and CreateWait.
LEMMA ConditionsStep ==
  ASSUME WaitsTypeOK,
         \/ \E t \in Tasks, to \in {"closed", "deleted"}, now \in 0..clock : Close(t, to, now)
         \/ \E c \in DOMAIN conditions, now \in 0..clock : CancelWait(c, now)
         \/ \E plan \in Plans, now \in 0..clock, supersedes \in {0} \cup DOMAIN conditions :
              CreateWait(plan, supersedes, now)
  PROVE  WaitsTypeOK' /\ TermsStay /\ NoneDecided
<1>1. ASSUME NEW C, \A c \in C \cap DOMAIN conditions : Waiting(c),
             conditions' = [c \in DOMAIN conditions |->
                IF c \in C THEN [conditions[c] EXCEPT !.status = "cancelled"] ELSE conditions[c]],
             UNCHANGED <<spawned, observations, verdicts, sweep, clock>>,
             status' \in [Tasks -> {"open", "closed", "deleted"}]
      PROVE  WaitsTypeOK' /\ TermsStay /\ NoneDecided
  <2>1. /\ conditions' \in Seq(ConditionRecord) /\ DOMAIN conditions' = DOMAIN conditions
        /\ \A c \in DOMAIN conditions :
              /\ conditions'[c].deadline = conditions[c].deadline
              /\ conditions'[c].fallback = conditions[c].fallback
              /\ conditions'[c].notBefore = conditions[c].notBefore
              /\ \/ conditions'[c].status = conditions[c].status /\ conditions'[c].by = conditions[c].by
                 \/ Waiting(c) /\ conditions'[c].status = "cancelled"
    BY <1>1, CancelledRows
  <2> QED BY <1>1, <2>1 DEF WaitsTypeOK, TermsStay, NoneDecided
<1>2. ASSUME NEW t \in Tasks, NEW to \in {"closed", "deleted"}, NEW now \in 0..clock,
             Close(t, to, now)
      PROVE  WaitsTypeOK' /\ TermsStay /\ NoneDecided
  <2> DEFINE C == {c \in DOMAIN conditions : conditions[c].task = t /\ Waiting(c)}
  <2>1. conditions' = [c \in DOMAIN conditions |->
           IF c \in C THEN [conditions[c] EXCEPT !.status = "cancelled"] ELSE conditions[c]]
    BY <1>2 DEF Close
  <2>2. status' \in [Tasks -> {"open", "closed", "deleted"}]
    BY <1>2 DEF Close, WaitsTypeOK
  <2> QED BY <1>1, <1>2, <2>1, <2>2 DEF Close
<1>3. ASSUME NEW c \in DOMAIN conditions, NEW now \in 0..clock, CancelWait(c, now)
      PROVE  WaitsTypeOK' /\ TermsStay /\ NoneDecided
  <2>1. conditions' = [d \in DOMAIN conditions |->
           IF d \in {c} THEN [conditions[d] EXCEPT !.status = "cancelled"] ELSE conditions[d]]
    BY <1>3 DEF CancelWait
  <2>2. \A d \in {c} \cap DOMAIN conditions : Waiting(d)
    BY <1>3 DEF CancelWait
  <2> QED BY <1>1, <1>3, <2>1, <2>2 DEF CancelWait, WaitsTypeOK
<1>4. ASSUME NEW plan \in Plans, NEW now \in 0..clock, NEW supersedes \in {0} \cup DOMAIN conditions,
             CreateWait(plan, supersedes, now)
      PROVE  WaitsTypeOK' /\ TermsStay /\ NoneDecided
  <2> DEFINE kept == [c \in DOMAIN conditions |->
                        IF c \in {supersedes} THEN [conditions[c] EXCEPT !.status = "cancelled"]
                        ELSE conditions[c]]
             new == [task |-> plan.task, deadline |-> plan.deadline, fallback |-> plan.fallback,
                     target |-> plan.target, notBefore |-> plan.notBefore, created |-> now,
                     status |-> "waiting", by |-> 0]
  <2>1. conditions' = Append(kept, new)
    BY <1>4 DEF CreateWait
  <2>2. \A c \in {supersedes} \cap DOMAIN conditions : Waiting(c)
    BY <1>4, Rows DEF CreateWait
  <2>3. now \in Nat /\ plan \in [task : Tasks, notBefore : Nat, deadline : Nat,
                                 fallback : Fallbacks, target : Tasks]
    BY WaitsAssumption DEF WaitsTypeOK, Fallbacks
  <2>4. new \in ConditionRecord /\ new.status = "waiting"
    BY <2>3 DEF ConditionRecord
  <2>5. /\ kept \in Seq(ConditionRecord) /\ DOMAIN kept = DOMAIN conditions
        /\ \A c \in DOMAIN conditions :
              /\ kept[c].deadline = conditions[c].deadline /\ kept[c].fallback = conditions[c].fallback
              /\ kept[c].notBefore = conditions[c].notBefore
              /\ \/ kept[c].status = conditions[c].status /\ kept[c].by = conditions[c].by
                 \/ Waiting(c) /\ kept[c].status = "cancelled"
    BY <2>2, CancelledRows
  <2> HIDE DEF kept, new
  <2>6. /\ conditions' \in Seq(ConditionRecord)
        /\ DOMAIN conditions' = 1..(Len(kept) + 1) /\ DOMAIN kept = 1..Len(kept) /\ Len(kept) \in Nat
        /\ \A c \in DOMAIN conditions : c \in DOMAIN conditions' /\ conditions'[c] = kept[c]
        /\ conditions'[Len(kept) + 1] = new
    BY <2>1, <2>4, <2>5, AppendedRows
  <2>7. \A c \in DOMAIN conditions' \ DOMAIN conditions : conditions'[c].status = "waiting"
    BY <2>4, <2>5, <2>6
  <2>8. UNCHANGED <<status, spawned, observations, verdicts, sweep, clock>>
    BY <1>4 DEF CreateWait
  <2>9. TermsStay /\ NoneDecided
    BY <2>5, <2>6, <2>7, <2>8 DEF TermsStay, NoneDecided, WaitsTypeOK
  <2> QED BY <2>6, <2>8, <2>9 DEF WaitsTypeOK
<1> QED BY <1>2, <1>3, <1>4

\* The table after a reconciliation.
LEMMA SatisfiedRows ==
  ASSUME WaitsTypeOK, NEW c \in DOMAIN conditions, NEW o \in DOMAIN observations
  PROVE  /\ Satisfied(c, o) \in Seq(ConditionRecord)
         /\ DOMAIN Satisfied(c, o) = DOMAIN conditions
         /\ \A d \in DOMAIN conditions :
              /\ Satisfied(c, o)[d].deadline = conditions[d].deadline
              /\ Satisfied(c, o)[d].fallback = conditions[d].fallback
              /\ Satisfied(c, o)[d].notBefore = conditions[d].notBefore
              /\ IF d = c /\ Effect(c, o) = "satisfied"
                 THEN Satisfied(c, o)[d].status = "satisfied" /\ Satisfied(c, o)[d].by = o
                 ELSE Satisfied(c, o)[d] = conditions[d]
<1> DEFINE x == [conditions[c] EXCEPT !.status = "satisfied", !.by = o]
<1>1. conditions[c] \in ConditionRecord /\ o \in Nat /\ conditions \in Seq(ConditionRecord)
  BY Rows DEF WaitsTypeOK
<1>2. /\ x \in ConditionRecord
      /\ x.deadline = conditions[c].deadline /\ x.fallback = conditions[c].fallback
      /\ x.notBefore = conditions[c].notBefore
      /\ x.status = "satisfied" /\ x.by = o
  BY <1>1 DEF ConditionRecord
<1>3. Satisfied(c, o) = IF Effect(c, o) = "satisfied"
                        THEN [conditions EXCEPT ![c] = x] ELSE conditions
  BY DEF Satisfied
<1> HIDE DEF x
<1>4. CASE Effect(c, o) = "satisfied"
  <2>1. Satisfied(c, o) \in Seq(ConditionRecord)
    BY <1>1, <1>2, <1>3, <1>4, ExceptSeq, Rows
  <2> QED BY <1>2, <1>3, <1>4, <2>1
<1>5. CASE Effect(c, o) # "satisfied"
  BY <1>1, <1>3, <1>5
<1> QED BY <1>4, <1>5

\* Reconcile, and a sweep that finds a fact, up to the sweep's own list.
LEMMA ReconciledType ==
  ASSUME WaitsTypeOK, NEW c \in DOMAIN conditions, NEW o \in DOMAIN observations,
         Reconciled(c, o), UNCHANGED status,
         sweep' \in [Sweepers -> [queue : Seq(Nat), now : Nat]]
  PROVE  WaitsTypeOK' /\ TermsStay
<1>1. /\ conditions' \in Seq(ConditionRecord) /\ DOMAIN conditions' = DOMAIN conditions
      /\ \A d \in DOMAIN conditions :
              /\ conditions'[d].deadline = conditions[d].deadline
              /\ conditions'[d].fallback = conditions[d].fallback
              /\ conditions'[d].notBefore = conditions[d].notBefore
  BY SatisfiedRows DEF Reconciled
<1>2. Verdict(c, o) \in [condition : Nat, observation : Nat, effect : Effects]
  BY Rows DEF Verdict, Effect, Effects
<1>3. verdicts' \subseteq [condition : Nat, observation : Nat, effect : Effects]
  BY <1>2 DEF Reconciled, WaitsTypeOK
<1> QED BY <1>1, <1>3 DEF Reconciled, WaitsTypeOK, TermsStay

LEMMA ExpiresType ==
  ASSUME WaitsTypeOK, NEW c \in DOMAIN conditions, Expires(c), UNCHANGED status,
         sweep' \in [Sweepers -> [queue : Seq(Nat), now : Nat]]
  PROVE  WaitsTypeOK' /\ TermsStay
<1> DEFINE x == [conditions[c] EXCEPT !.status = "expired"]
<1>1. conditions' = [conditions EXCEPT ![c] = x]
  BY DEF Expires
<1>2. /\ x \in ConditionRecord
      /\ x.deadline = conditions[c].deadline /\ x.fallback = conditions[c].fallback
      /\ x.notBefore = conditions[c].notBefore
  BY DecidedRow
<1> HIDE DEF x
<1>3. conditions' \in Seq(ConditionRecord) /\ DOMAIN conditions' = DOMAIN conditions
  BY <1>1, <1>2, ExceptSeq, Rows DEF WaitsTypeOK
<1>4. \A d \in DOMAIN conditions :
              /\ conditions'[d].deadline = conditions[d].deadline
              /\ conditions'[d].fallback = conditions[d].fallback
              /\ conditions'[d].notBefore = conditions[d].notBefore
  BY <1>1, <1>2
<1>5. spawned' \in Seq(Nat)
  <2>1. spawned \in Seq(Nat) /\ c \in Nat
    BY Rows DEF WaitsTypeOK
  <2> QED BY <2>1, AppendedRows DEF Expires
<1> QED BY <1>3, <1>4, <1>5 DEF Expires, WaitsTypeOK, TermsStay

-----------------------------------------------------------------------------
(* Sweeps. *)

\* The list of a sweep is one of waits that exist.
LEMMA DueListType ==
  ASSUME WaitsTypeOK, NEW queue \in DueLists(clock)
  PROVE  /\ queue \in Seq(Nat)
         /\ \A i \in DOMAIN queue : queue[i] \in DOMAIN conditions
<1> DEFINE due == {c \in DOMAIN conditions : Due(c, clock)}
           Size == IF Cardinality(due) < SweepLimit THEN Cardinality(due) ELSE SweepLimit
<1>1. DOMAIN conditions = 1..Len(conditions) /\ Len(conditions) \in Nat
  BY Rows
<1>2. IsFiniteSet(due) /\ Cardinality(due) \in Nat
  <2>1. 1 \in Int /\ Len(conditions) \in Int
    BY <1>1
  <2>2. IsFiniteSet(1..Len(conditions))
    BY <2>1, FS_Interval
  <2>3. due \in SUBSET (1..Len(conditions))
    BY <1>1
  <2> HIDE DEF due
  <2> QED BY <2>2, <2>3, FS_Subset, FS_CardinalityType
<1>3. Size \in Nat
  BY <1>2, WaitsAssumption
<1>4. queue \in [1..Size -> due]
  BY DEF DueLists
<1>5. due \subseteq Nat /\ due \subseteq DOMAIN conditions
  BY <1>1
<1> HIDE DEF due, Size
<1>6. queue \in [1..Size -> Nat]
  BY <1>4, <1>5
<1> QED BY <1>3, <1>4, <1>5, <1>6, SeqDef

\* The rest of the list.
LEMMA RestType ==
  ASSUME WaitsTypeOK, SweepInv, NEW s \in Sweepers, sweep[s].queue # << >>
  PROVE  /\ Head(sweep[s].queue) \in DOMAIN conditions
         /\ Rest(s) \in [Sweepers -> [queue : Seq(Nat), now : Nat]]
         /\ \A u \in Sweepers :
              /\ \A i \in DOMAIN Rest(s)[u].queue : Rest(s)[u].queue[i] \in DOMAIN conditions
              /\ Rest(s)[u].now <= clock
<1> DEFINE queue == sweep[s].queue
<1>1. queue \in Seq(Nat) /\ queue # << >> /\ sweep[s].now \in Nat /\ sweep[s].now <= clock
  BY DEF WaitsTypeOK, SweepInv
<1>2. /\ Head(queue) = queue[1] /\ 1 \in DOMAIN queue /\ Len(queue) \in Nat
      /\ Tail(queue) \in Seq(Nat) /\ Len(Tail(queue)) = Len(queue) - 1
      /\ \A i \in 1..Len(Tail(queue)) : Tail(queue)[i] = queue[i + 1]
  BY <1>1, HeadTailProperties, LenProperties, EmptySeq
<1>3. DOMAIN queue = 1..Len(queue) /\ DOMAIN Tail(queue) = 1..Len(Tail(queue))
  BY <1>1, <1>2, LenProperties
<1>4. \A i \in DOMAIN queue : queue[i] \in DOMAIN conditions
  BY DEF SweepInv
<1> HIDE DEF queue
<1>5. ASSUME NEW i \in DOMAIN Tail(queue)
      PROVE  Tail(queue)[i] \in DOMAIN conditions
  <2>1. i \in 1..Len(Tail(queue)) /\ i + 1 \in 1..Len(queue)
    BY <1>2, <1>3
  <2> QED BY <1>2, <1>3, <1>4, <2>1
<1> DEFINE x == IF Tail(queue) = << >> THEN Resting ELSE [queue |-> Tail(queue), now |-> sweep[s].now]
<1>6. sweep[s] \in [queue : Seq(Nat), now : Nat]
  BY DEF WaitsTypeOK
<1>7. Rest(s) = [sweep EXCEPT ![s] = x]
  <2>1. \A q : [sweep[s] EXCEPT !.queue = q] = [queue |-> q, now |-> sweep[s].now]
    BY <1>6
  <2>2. [sweep[s] EXCEPT !.queue = Tail(queue)] = [queue |-> Tail(queue), now |-> sweep[s].now]
    BY <2>1
  <2> QED BY <2>2 DEF Rest, queue
<1>8. /\ x \in [queue : Seq(Nat), now : Nat] /\ x.now <= clock
      /\ \A i \in DOMAIN x.queue : x.queue[i] \in DOMAIN conditions
  <2>1. /\ Resting \in [queue : Seq(Nat), now : Nat] /\ Resting.now <= clock
        /\ DOMAIN Resting.queue = {}
    BY EmptySeq, LenProperties DEF Resting, WaitsTypeOK
  <2> QED BY <1>1, <1>2, <1>5, <2>1
<1> HIDE DEF x
<1>9. \A u \in Sweepers : Rest(s)[u] = IF u = s THEN x ELSE sweep[u]
  BY <1>7 DEF WaitsTypeOK
<1> QED BY <1>2, <1>4, <1>7, <1>8, <1>9 DEF queue, WaitsTypeOK, SweepInv

\* A step of a sweep.
LEMMA SweepsStep ==
  ASSUME WaitsTypeOK, SweepInv, NEW s \in Sweepers, SweepBegin(s) \/ SweepStep(s) \/ SweepDies(s)
  PROVE  WaitsTypeOK' /\ SweepInv' /\ TermsStay /\ Goes
<1>1. ASSUME NEW x \in [queue : Seq(Nat), now : Nat], x.now <= clock,
             \A i \in DOMAIN x.queue : x.queue[i] \in DOMAIN conditions,
             sweep' = [sweep EXCEPT ![s] = x],
             UNCHANGED <<status, spawned, conditions, observations, verdicts, clock>>
      PROVE  WaitsTypeOK' /\ SweepInv' /\ TermsStay /\ Goes
  <2>1. /\ sweep' \in [Sweepers -> [queue : Seq(Nat), now : Nat]]
        /\ \A u \in Sweepers : sweep'[u] = IF u = s THEN x ELSE sweep[u]
    BY <1>1 DEF WaitsTypeOK
  <2>2. WaitsTypeOK' /\ TermsStay /\ NoneDecided
    BY <1>1, <2>1 DEF WaitsTypeOK, TermsStay, NoneDecided
  <2>3. SweepInv'
    BY <1>1, <2>1 DEF SweepInv
  <2> QED BY <2>2, <2>3 DEF Goes
<1>2. CASE SweepBegin(s)
  <2>1. PICK queue \in DueLists(clock) :
          /\ sweep' = [sweep EXCEPT ![s] = [queue |-> queue, now |-> clock]]
          /\ UNCHANGED <<status, spawned, conditions, observations, verdicts, clock>>
    BY <1>2 DEF SweepBegin
  <2>2. /\ queue \in Seq(Nat) /\ clock \in Nat
        /\ \A i \in DOMAIN queue : queue[i] \in DOMAIN conditions
    BY DueListType DEF WaitsTypeOK
  <2> DEFINE x == [queue |-> queue, now |-> clock]
  <2>3. /\ x \in [queue : Seq(Nat), now : Nat] /\ x.now <= clock
        /\ \A i \in DOMAIN x.queue : x.queue[i] \in DOMAIN conditions
    BY <2>2
  <2>4. sweep' = [sweep EXCEPT ![s] = x]
    BY <2>1
  <2> HIDE DEF x
  <2> QED BY <1>1, <2>1, <2>3, <2>4
<1>3. CASE SweepDies(s)
  <2>1. /\ Resting \in [queue : Seq(Nat), now : Nat] /\ Resting.now <= clock
        /\ \A i \in DOMAIN Resting.queue : Resting.queue[i] \in DOMAIN conditions
    BY EmptySeq, LenProperties DEF Resting, WaitsTypeOK
  <2>2. /\ sweep' = [sweep EXCEPT ![s] = Resting]
        /\ UNCHANGED <<status, spawned, conditions, observations, verdicts, clock>>
    BY <1>3 DEF SweepDies
  <2> QED BY <1>1, <2>1, <2>2
<1> DEFINE c == Head(sweep[s].queue)
<1>4. ASSUME SweepStep(s)
      PROVE  /\ sweep' = Rest(s) /\ UNCHANGED <<status, observations, clock>>
             /\ c \in DOMAIN conditions
             /\ sweep' \in [Sweepers -> [queue : Seq(Nat), now : Nat]]
             /\ DOMAIN conditions' = DOMAIN conditions => SweepInv'
  <2>1. sweep[s].queue # << >> /\ sweep' = Rest(s) /\ UNCHANGED <<status, observations, clock>>
    BY <1>4 DEF SweepStep, SweepSatisfies, SweepExpires, SweepSkips
  <2> QED BY <2>1, RestType DEF SweepInv
<1>5. ASSUME Due(c, sweep[s].now)
      PROVE  Waiting(c) /\ conditions[c].deadline # 0
             /\ (c \in DOMAIN conditions => conditions[c].deadline <= clock)
  <2>1. sweep[s].now \in Nat /\ sweep[s].now <= clock /\ clock \in Nat
    BY DEF WaitsTypeOK, SweepInv
  <2>2. c \in DOMAIN conditions => conditions[c].deadline \in Nat
    BY Rows DEF ConditionRecord
  <2> QED BY <1>5, <2>1, <2>2 DEF Due
<1>6. CASE SweepSatisfies(s)
  <2>1. PICK o \in Candidates(c) :
          verdicts' = verdicts \cup {Verdict(c, o)} /\ conditions' = Satisfied(c, o)
    BY <1>6 DEF SweepSatisfies
  <2>2. o \in DOMAIN observations /\ Matches(c, o)
    BY DEF Candidates
  <2>3. Reconciled(c, o) /\ c \in DOMAIN conditions
    BY <1>4, <1>6, <2>1, <2>2 DEF SweepSatisfies, SweepStep, Reconciled
  <2>4. WaitsTypeOK' /\ TermsStay /\ DOMAIN conditions' = DOMAIN conditions
    BY <1>4, <1>6, <2>2, <2>3, ReconciledType, SatisfiedRows DEF SweepStep, Reconciled
  <2> QED BY <1>4, <1>6, <2>2, <2>3, <2>4 DEF SweepStep, Goes
<1>7. CASE SweepExpires(s)
  <2>1. Expires(c) /\ c \in DOMAIN conditions
    BY <1>4, <1>5, <1>7 DEF SweepExpires, SweepStep, Expires
  <2>2. DOMAIN conditions' = DOMAIN conditions
    BY <2>1 DEF Expires
  <2>3. WaitsTypeOK' /\ TermsStay
    BY <1>4, <1>7, <2>1, ExpiresType DEF SweepStep
  <2> QED BY <1>4, <1>7, <2>1, <2>2, <2>3 DEF SweepStep, Goes
<1>8. CASE SweepSkips(s)
  <2>1. UNCHANGED <<status, spawned, conditions, observations, verdicts, clock>>
    BY <1>8 DEF SweepSkips
  <2>2. WaitsTypeOK' /\ TermsStay /\ NoneDecided
    BY <1>4, <1>8, <2>1 DEF SweepStep, WaitsTypeOK, TermsStay, NoneDecided
  <2> QED BY <1>4, <1>8, <2>1, <2>2 DEF SweepStep, Goes
<1> QED BY <1>2, <1>3, <1>6, <1>7, <1>8 DEF SweepStep

\* Tick, Reopen and Ingest.
LEMMA OtherStep ==
  ASSUME WaitsTypeOK,
         \/ Tick \/ \E t \in Tasks, to \in {"open", "closed"} : Reopen(t, to)
         \/ \E occurred \in Occurrences, now \in 0..clock : Ingest(occurred, now)
  PROVE  WaitsTypeOK' /\ TermsStay /\ NoneDecided
<1>1. CASE Tick
  <2>1. clock' \in Nat /\ clock <= clock'
    BY <1>1 DEF Tick, WaitsTypeOK
  <2> QED BY <1>1, <2>1 DEF Tick, WaitsTypeOK, TermsStay, NoneDecided
<1>2. ASSUME NEW t \in Tasks, NEW to \in {"open", "closed"}, Reopen(t, to)
      PROVE  WaitsTypeOK' /\ TermsStay /\ NoneDecided
  <2>1. status' \in [Tasks -> {"open", "closed", "deleted"}]
    BY <1>2 DEF Reopen, WaitsTypeOK
  <2> QED BY <1>2, <2>1 DEF Reopen, WaitsTypeOK, TermsStay, NoneDecided
<1>3. ASSUME NEW occurred \in Occurrences, NEW now \in 0..clock, Ingest(occurred, now)
      PROVE  WaitsTypeOK' /\ TermsStay /\ NoneDecided
  <2>1. now \in Nat /\ occurred \in Nat /\ clock <= now + MaxLag
    BY <1>3, WaitsAssumption DEF WaitsTypeOK, Ingest, Sampled
  <2> DEFINE x == [occurred |-> occurred, recorded |-> now]
  <2>2. x \in ObservationRecord /\ x.recorded = now
    BY <2>1 DEF ObservationRecord
  <2>3. observations' = Append(observations, x)
    BY <1>3 DEF Ingest
  <2>4. observations \in Seq(ObservationRecord)
    BY DEF WaitsTypeOK
  <2> HIDE DEF x
  <2>5. /\ observations' \in Seq(ObservationRecord)
        /\ DOMAIN observations = 1..Len(observations) /\ Len(observations) \in Nat
        /\ DOMAIN observations' = 1..(Len(observations) + 1)
        /\ \A o \in DOMAIN observations :
             o \in DOMAIN observations' /\ observations'[o] = observations[o]
        /\ observations'[Len(observations) + 1] = x
    BY <2>2, <2>3, <2>4, AppendedRows
  <2>6. \A o \in DOMAIN observations' \ DOMAIN observations : observations'[o] = x
    BY <2>5
  <2> QED BY <1>3, <2>1, <2>2, <2>5, <2>6 DEF Ingest, WaitsTypeOK, TermsStay, NoneDecided
<1> QED BY <1>1, <1>2, <1>3

\* Every step keeps the tables and the sweeps, leaves the terms of the waits and the
\* facts as they are, and decides at most one wait.
LEMMA WaitsSteps ==
  ASSUME WaitsTypeOK, SweepInv, [WaitsNext]_waitsVars
  PROVE  WaitsTypeOK' /\ SweepInv' /\ TermsStay /\ Goes
<1>1. ASSUME WaitsTypeOK', TermsStay, UNCHANGED sweep
      PROVE  SweepInv'
  <2>1. /\ clock \in Nat /\ clock' \in Nat /\ clock <= clock'
        /\ \A c \in DOMAIN conditions : c \in DOMAIN conditions'
        /\ \A s \in Sweepers : sweep[s].now \in Nat
    BY <1>1 DEF TermsStay, WaitsTypeOK
  <2> QED BY <1>1, <2>1 DEF SweepInv
<1>2. CASE \/ Tick \/ \E t \in Tasks, to \in {"open", "closed"} : Reopen(t, to)
           \/ \E occurred \in Occurrences, now \in 0..clock : Ingest(occurred, now)
  <2>1. UNCHANGED sweep
    BY <1>2 DEF Tick, Reopen, Ingest
  <2> QED BY <1>1, <1>2, <2>1, OtherStep DEF Goes
<1>3. CASE \/ \E t \in Tasks, to \in {"closed", "deleted"}, now \in 0..clock : Close(t, to, now)
           \/ \E c \in DOMAIN conditions, now \in 0..clock : CancelWait(c, now)
           \/ \E plan \in Plans, now \in 0..clock, supersedes \in {0} \cup DOMAIN conditions :
                CreateWait(plan, supersedes, now)
  <2>1. UNCHANGED sweep
    BY <1>3 DEF Close, CancelWait, CreateWait
  <2> QED BY <1>1, <1>3, <2>1, ConditionsStep DEF Goes
<1>4. ASSUME NEW c \in DOMAIN conditions, NEW now \in 0..clock,
             NEW o \in DOMAIN observations, Reconcile(c, o, now)
      PROVE  WaitsTypeOK' /\ SweepInv' /\ TermsStay /\ Goes
  <2>1. Reconciled(c, o) /\ UNCHANGED <<status, sweep>>
    BY <1>4 DEF Reconcile, Reconciled
  <2>2. sweep' \in [Sweepers -> [queue : Seq(Nat), now : Nat]]
    BY <2>1 DEF WaitsTypeOK
  <2>3. WaitsTypeOK' /\ TermsStay
    BY <2>1, <2>2, ReconciledType
  <2> QED BY <1>1, <2>1, <2>3 DEF Goes
<1>5. ASSUME NEW s \in Sweepers, SweepBegin(s) \/ SweepStep(s) \/ SweepDies(s)
      PROVE  WaitsTypeOK' /\ SweepInv' /\ TermsStay /\ Goes
  BY <1>5, SweepsStep
<1>6. CASE UNCHANGED waitsVars
  <2>1. WaitsTypeOK' /\ TermsStay /\ NoneDecided /\ UNCHANGED sweep
    BY <1>6 DEF waitsVars, WaitsTypeOK, TermsStay, NoneDecided
  <2> QED BY <1>1, <2>1 DEF Goes
<1>7. WaitsNext =>
        \/ \/ Tick \/ \E t \in Tasks, to \in {"open", "closed"} : Reopen(t, to)
           \/ \E occurred \in Occurrences, now \in 0..clock : Ingest(occurred, now)
        \/ \/ \E t \in Tasks, to \in {"closed", "deleted"}, now \in 0..clock : Close(t, to, now)
           \/ \E c \in DOMAIN conditions, now \in 0..clock : CancelWait(c, now)
           \/ \E plan \in Plans, now \in 0..clock, supersedes \in {0} \cup DOMAIN conditions :
                CreateWait(plan, supersedes, now)
        \/ \E c \in DOMAIN conditions, now \in 0..clock, o \in DOMAIN observations :
             Reconcile(c, o, now)
        \/ \E s \in Sweepers : SweepBegin(s) \/ SweepStep(s) \/ SweepDies(s)
  BY DEF WaitsNext
<1> QED BY <1>2, <1>3, <1>4, <1>5, <1>6, <1>7

-----------------------------------------------------------------------------
(* What a step keeps. *)

\* Whether a fact matches a wait, and came in time, is settled once both are there.
LEMMA MatchesStay ==
  ASSUME TermsStay, NEW c \in DOMAIN conditions, NEW o \in DOMAIN observations
  PROVE  (Matches(c, o) <=> Matches(c, o)') /\ (InTime(c, o) <=> InTime(c, o)')
BY DEF TermsStay, Matches, InTime

\* How the status of a wait may change.
LEMMA StatusSteps ==
  ASSUME WaitsTypeOK, TermsStay, Goes, NEW d \in DOMAIN conditions'
  PROVE  \/ /\ d \in DOMAIN conditions
            /\ conditions'[d].status = conditions[d].status /\ conditions'[d].by = conditions[d].by
         \/ conditions'[d].status \in {"waiting", "cancelled"}
              /\ (d \in DOMAIN conditions => Waiting(d))
         \/ d \in DOMAIN conditions /\ Expires(d) /\ conditions'[d].status = "expired"
         \/ /\ d \in DOMAIN conditions /\ Waiting(d)
            /\ \E o \in DOMAIN observations :
                 /\ Reconciled(d, o) /\ Effect(d, o) = "satisfied"
                 /\ conditions'[d].status = "satisfied" /\ conditions'[d].by = o
<1>1. CASE NoneDecided
  BY <1>1 DEF NoneDecided
<1>2. ASSUME NEW c \in DOMAIN conditions, Expires(c)
      PROVE  \/ /\ d \in DOMAIN conditions
                /\ conditions'[d].status = conditions[d].status
                /\ conditions'[d].by = conditions[d].by
             \/ d \in DOMAIN conditions /\ Expires(d) /\ conditions'[d].status = "expired"
  <2>1. conditions[c] \in ConditionRecord
    BY Rows
  <2>2. [conditions[c] EXCEPT !.status = "expired"].status = "expired"
    BY <2>1 DEF ConditionRecord
  <2>3. conditions' = [conditions EXCEPT ![c] = [conditions[c] EXCEPT !.status = "expired"]]
    BY <1>2 DEF Expires
  <2> QED BY <1>2, <2>2, <2>3
<1>3. ASSUME NEW c \in DOMAIN conditions, NEW o \in DOMAIN observations, Reconciled(c, o)
      PROVE  \/ /\ d \in DOMAIN conditions
                /\ conditions'[d].status = conditions[d].status
                /\ conditions'[d].by = conditions[d].by
             \/ /\ d \in DOMAIN conditions /\ Waiting(d)
                /\ \E p \in DOMAIN observations :
                     /\ Reconciled(d, p) /\ Effect(d, p) = "satisfied"
                     /\ conditions'[d].status = "satisfied" /\ conditions'[d].by = p
  <2>1. conditions' = Satisfied(c, o)
    BY <1>3 DEF Reconciled
  <2>2. /\ d \in DOMAIN conditions
        /\ IF d = c /\ Effect(c, o) = "satisfied"
           THEN conditions'[d].status = "satisfied" /\ conditions'[d].by = o
           ELSE conditions'[d] = conditions[d]
    BY <2>1, SatisfiedRows
  <2>3. Effect(c, o) = "satisfied" => Waiting(c)
    BY DEF Effect
  <2> QED BY <1>3, <2>2, <2>3
<1> QED BY <1>1, <1>2, <1>3 DEF Goes

\* The verdicts after a step.
LEMMA VerdictSteps ==
  ASSUME TermsStay, Goes, NEW v \in verdicts'
  PROVE  \/ v \in verdicts
         \/ \E c \in DOMAIN conditions, o \in DOMAIN observations :
              Reconciled(c, o) /\ v = Verdict(c, o)
BY DEF Goes, NoneDecided, Expires, Reconciled

LEMMA VerdictKept ==
  ASSUME WaitsTypeOK, VerdictInv, TermsStay, Goes
  PROVE  VerdictInv'
<1>1. /\ \A c \in DOMAIN conditions : c \in DOMAIN conditions'
      /\ \A o \in DOMAIN observations : o \in DOMAIN observations'
      /\ verdicts \subseteq verdicts'
  BY DEF TermsStay, Goes, NoneDecided, Expires, Reconciled
<1>2. ASSUME NEW v \in verdicts'
      PROVE  v.condition \in DOMAIN conditions' /\ v.observation \in DOMAIN observations'
  BY <1>1, VerdictSteps DEF VerdictInv, Verdict
<1>3. ASSUME NEW v \in verdicts', v.effect = "satisfied"
      PROVE  conditions'[v.condition].status = "satisfied"
             /\ conditions'[v.condition].by = v.observation
  <2>1. CASE v \in verdicts
    <3>1. /\ v.condition \in DOMAIN conditions /\ conditions[v.condition].status = "satisfied"
          /\ conditions[v.condition].by = v.observation /\ ~Waiting(v.condition)
      BY <1>3, <2>1 DEF VerdictInv, Waiting
    <3>2. v.condition \in DOMAIN conditions' /\ ~Expires(v.condition)
      BY <1>1, <3>1 DEF Expires
    <3> QED BY <3>1, <3>2, StatusSteps
  <2>2. ASSUME NEW c \in DOMAIN conditions, NEW o \in DOMAIN observations,
               Reconciled(c, o), v = Verdict(c, o)
        PROVE  conditions'[v.condition].status = "satisfied"
               /\ conditions'[v.condition].by = v.observation
    <3>1. v.condition = c /\ v.observation = o /\ Effect(c, o) = "satisfied"
      BY <1>3, <2>2 DEF Verdict
    <3>2. conditions' = Satisfied(c, o)
      BY <2>2 DEF Reconciled
    <3> QED BY <3>1, <3>2, SatisfiedRows
  <2> QED BY <2>1, <2>2, VerdictSteps
<1>4. ASSUME NEW c \in DOMAIN conditions', conditions'[c].status = "satisfied"
      PROVE  /\ conditions'[c].by \in DOMAIN observations'
             /\ Matches(c, conditions[c].by)' /\ InTime(c, conditions[c].by)'
             /\ \E v \in verdicts' : v.condition = c /\ v.effect = "satisfied"
  <2>1. \/ /\ c \in DOMAIN conditions
           /\ conditions[c].status = "satisfied" /\ conditions'[c].by = conditions[c].by
        \/ /\ c \in DOMAIN conditions
           /\ \E o \in DOMAIN observations :
                Reconciled(c, o) /\ Effect(c, o) = "satisfied" /\ conditions'[c].by = o
    BY <1>4, StatusSteps
  <2>2. ASSUME c \in DOMAIN conditions, NEW o \in DOMAIN observations,
               conditions'[c].by = o, Matches(c, o), InTime(c, o)
        PROVE  Matches(c, conditions[c].by)' /\ InTime(c, conditions[c].by)'
    <3>1. Matches(c, o)' /\ InTime(c, o)'
      BY <2>2, MatchesStay
    <3> QED BY <2>2, <3>1 DEF Matches, InTime
  <2>3. CASE /\ c \in DOMAIN conditions
             /\ conditions[c].status = "satisfied" /\ conditions'[c].by = conditions[c].by
    BY <1>1, <2>2, <2>3 DEF VerdictInv
  <2>4. ASSUME c \in DOMAIN conditions, NEW o \in DOMAIN observations, Reconciled(c, o),
               Effect(c, o) = "satisfied", conditions'[c].by = o
        PROVE  /\ conditions'[c].by \in DOMAIN observations'
               /\ Matches(c, conditions[c].by)' /\ InTime(c, conditions[c].by)'
               /\ \E v \in verdicts' : v.condition = c /\ v.effect = "satisfied"
    <3>1. Matches(c, o) /\ InTime(c, o) /\ Verdict(c, o) \in verdicts'
      BY <2>4 DEF Reconciled, Effect
    <3>2. Verdict(c, o).condition = c /\ Verdict(c, o).effect = "satisfied"
      BY <2>4 DEF Verdict
    <3> QED BY <1>1, <2>2, <2>4, <3>1, <3>2
  <2> QED BY <2>1, <2>3, <2>4
<1> QED BY <1>2, <1>3, <1>4 DEF VerdictInv

LEMMA ExpiryKept ==
  ASSUME WaitsTypeOK, WaitsTypeOK', ExpiryInv, TermsStay, Goes
  PROVE  ExpiryInv'
<1>1. clock \in Nat /\ clock' \in Nat /\ clock <= clock' /\ MaxLag \in Nat
  BY WaitsAssumption DEF WaitsTypeOK, TermsStay
<1>2. ASSUME NEW c \in DOMAIN conditions', conditions'[c].status = "expired"
      PROVE  /\ c \in DOMAIN conditions
             /\ conditions[c].deadline # 0 /\ conditions[c].deadline <= clock
             /\ \A o \in DOMAIN observations :
                  (Matches(c, o) /\ observations[o].occurred < conditions[c].deadline) =>
                     observations[o].recorded + MaxLag >= conditions[c].deadline
  <2>1. \/ c \in DOMAIN conditions /\ conditions[c].status = "expired"
        \/ c \in DOMAIN conditions /\ Expires(c)
    BY <1>2, StatusSteps
  <2>2. CASE c \in DOMAIN conditions /\ conditions[c].status = "expired"
    BY <2>2 DEF ExpiryInv
  <2>3. CASE c \in DOMAIN conditions /\ Expires(c)
    <3>1. ASSUME NEW o \in DOMAIN observations, Matches(c, o),
                 observations[o].occurred < conditions[c].deadline
          PROVE  observations[o].recorded + MaxLag >= conditions[c].deadline
      <4>1. ~InTime(c, o)
        BY <2>3, <3>1 DEF Expires, Candidates
      <4>2. ~(observations[o].recorded < conditions[c].deadline)
        BY <3>1, <4>1 DEF InTime
      <4>3. observations[o].recorded \in Nat /\ conditions[c].deadline \in Nat
        BY <2>3, Rows DEF ConditionRecord, ObservationRecord
      <4> QED BY <1>1, <4>2, <4>3
    <3> QED BY <2>3, <3>1 DEF Expires
  <2> QED BY <2>1, <2>2, <2>3
<1>3. ASSUME NEW c \in DOMAIN conditions', conditions'[c].status = "expired"
      PROVE  /\ conditions'[c].deadline # 0 /\ conditions'[c].deadline <= clock'
             /\ \A o \in DOMAIN observations' :
                  (Matches(c, o)' /\ observations'[o].occurred < conditions'[c].deadline) =>
                     observations'[o].recorded + MaxLag >= conditions'[c].deadline
  <2>1. /\ c \in DOMAIN conditions /\ conditions'[c].deadline = conditions[c].deadline
        /\ conditions[c].deadline # 0 /\ conditions[c].deadline <= clock
        /\ conditions[c].deadline \in Nat
    BY <1>2, <1>3, Rows DEF TermsStay, ConditionRecord
  <2>2. ASSUME NEW o \in DOMAIN observations', Matches(c, o)',
               observations'[o].occurred < conditions'[c].deadline
        PROVE  observations'[o].recorded + MaxLag >= conditions'[c].deadline
    <3>1. CASE o \in DOMAIN observations
      <4>1. Matches(c, o) /\ observations'[o] = observations[o]
        BY <2>1, <2>2, <3>1, MatchesStay DEF TermsStay
      <4> QED BY <1>2, <1>3, <2>1, <2>2, <3>1, <4>1
    <3>2. CASE o \notin DOMAIN observations
      <4>1. clock <= observations'[o].recorded + MaxLag
        BY <3>2 DEF TermsStay
      <4>2. observations'[o] \in ObservationRecord
        BY ElementOfSeq, LenProperties DEF WaitsTypeOK
      <4>3. observations'[o].recorded \in Nat
        BY <4>2 DEF ObservationRecord
      <4> QED BY <1>1, <2>1, <4>1, <4>3
    <3> QED BY <3>1, <3>2
  <2>3. conditions'[c].deadline # 0 /\ conditions'[c].deadline <= clock'
    BY <1>1, <2>1
  <2> QED BY <2>2, <2>3
<1> QED BY <1>3 DEF ExpiryInv

LEMMA SpawnKept ==
  ASSUME WaitsTypeOK, WaitsTypeOK', SpawnInv, TermsStay, Goes
  PROVE  SpawnInv'
<1>1. \A c \in DOMAIN conditions :
        c \in DOMAIN conditions' /\ conditions'[c].fallback = conditions[c].fallback
  BY DEF TermsStay
<1>2. ASSUME NEW c \in DOMAIN conditions, Spawning(c)
      PROVE  c \in DOMAIN conditions' /\ Spawning(c)'
  <2>1. c \in DOMAIN conditions' /\ ~Waiting(c) /\ ~Expires(c)
    BY <1>1, <1>2 DEF Spawning, Waiting, Expires
  <2>2. conditions'[c].status = "expired"
    BY <1>2, <2>1, StatusSteps DEF Spawning
  <2> QED BY <1>1, <1>2, <2>2 DEF Spawning
<1>3. ASSUME NEW c \in DOMAIN conditions', Spawning(c)'
      PROVE  /\ c \in DOMAIN conditions /\ conditions[c].fallback = "create"
             /\ Spawning(c) \/ Expires(c)
  <2>1. conditions'[c].status = "expired" /\ conditions'[c].fallback = "create"
    BY <1>3 DEF Spawning
  <2>2. \/ c \in DOMAIN conditions /\ conditions[c].status = "expired"
        \/ c \in DOMAIN conditions /\ Expires(c)
    BY <2>1, StatusSteps
  <2> QED BY <1>1, <2>1, <2>2 DEF Spawning
<1>4. CASE UNCHANGED spawned /\ ~\E c \in DOMAIN conditions : Expires(c) /\ conditions[c].fallback = "create"
  <2>1. \A c \in DOMAIN conditions' : Spawning(c)' => c \in DOMAIN conditions /\ Spawning(c)
    BY <1>3, <1>4
  <2>2. \A i \in DOMAIN spawned' : spawned'[i] \in DOMAIN conditions' /\ Spawning(spawned[i])'
    <3>1. \A i \in DOMAIN spawned : spawned[i] \in DOMAIN conditions /\ Spawning(spawned[i])
      BY DEF SpawnInv
    <3>2. ASSUME NEW i \in DOMAIN spawned
          PROVE  spawned[i] \in DOMAIN conditions' /\ Spawning(spawned[i])'
      <4>1. PICK c \in DOMAIN conditions : c = spawned[i] /\ Spawning(c)
        BY <3>1
      <4>2. c \in DOMAIN conditions' /\ Spawning(c)' /\ spawned'[i] = c
        BY <1>2, <1>4, <4>1
      <4> QED BY <4>1, <4>2 DEF Spawning
    <3> QED BY <1>4, <3>2
  <2> QED BY <1>4, <2>1, <2>2 DEF SpawnInv
<1>5. ASSUME NEW c \in DOMAIN conditions, Expires(c), conditions[c].fallback = "create"
      PROVE  SpawnInv'
  <2>1. /\ spawned' = Append(spawned, c) /\ spawned \in Seq(Nat) /\ c \in Nat
        /\ Waiting(c) /\ conditions' = [conditions EXCEPT ![c].status = "expired"]
    BY <1>5, Rows DEF Expires, WaitsTypeOK
  <2>2. PICK n \in Nat :
          /\ DOMAIN spawned = 1..n /\ DOMAIN spawned' = 1..(n + 1)
          /\ \A i \in 1..n : spawned'[i] = spawned[i]
          /\ spawned'[n + 1] = c
    BY <2>1, AppendedRows
  <2>3. conditions[c] \in ConditionRecord
    BY Rows
  <2>4. [conditions[c] EXCEPT !.status = "expired"].status = "expired"
        /\ [conditions[c] EXCEPT !.status = "expired"].fallback = conditions[c].fallback
    BY <2>3 DEF ConditionRecord
  <2>5. Spawning(c)' /\ ~Spawning(c) /\ c \in DOMAIN conditions'
    BY <1>1, <1>5, <2>1, <2>4 DEF Spawning, Waiting
  <2>6. \A i \in 1..n : spawned[i] \in DOMAIN conditions /\ Spawning(spawned[i]) /\ spawned[i] # c
    BY <2>2, <2>5 DEF SpawnInv
  <2>7. ASSUME NEW i \in DOMAIN spawned'
        PROVE  spawned'[i] \in DOMAIN conditions' /\ Spawning(spawned[i])'
    <3>1. PICK d : d = spawned'[i]
      OBVIOUS
    <3>2. d \in DOMAIN conditions' /\ Spawning(d)'
      BY <1>2, <2>2, <2>5, <2>6, <3>1
    <3> QED BY <3>1, <3>2 DEF Spawning
  <2>8. \A i, j \in DOMAIN spawned' : spawned'[i] = spawned'[j] => i = j
    BY <2>2, <2>6 DEF SpawnInv
  <2>9. ASSUME NEW d \in DOMAIN conditions', Spawning(d)'
        PROVE  \E i \in DOMAIN spawned' : spawned'[i] = d
    <3>1. CASE d = c
      BY <2>2, <3>1
    <3>2. CASE d # c
      <4>1. d \in DOMAIN conditions /\ conditions'[d] = conditions[d]
        BY <1>3, <2>1, <2>9, <3>2
      <4>2. Spawning(d)
        BY <2>9, <4>1 DEF Spawning
      <4> QED BY <2>2, <4>1, <4>2 DEF SpawnInv
    <3> QED BY <3>1, <3>2
  <2> QED BY <2>7, <2>8, <2>9 DEF SpawnInv
<1>6. \/ UNCHANGED spawned /\ ~\E c \in DOMAIN conditions : Expires(c) /\ conditions[c].fallback = "create"
      \/ \E c \in DOMAIN conditions : Expires(c) /\ conditions[c].fallback = "create"
  BY DEF Goes, NoneDecided, Reconciled, Expires
<1> QED BY <1>4, <1>5, <1>6

-----------------------------------------------------------------------------
(* The theorems. *)

LEMMA WaitsInitially == WaitsInit => WaitsInv
<1> SUFFICES ASSUME WaitsInit PROVE WaitsInv
  OBVIOUS
<1>1. /\ << >> \in Seq(Nat) /\ << >> \in Seq(ConditionRecord) /\ << >> \in Seq(ObservationRecord)
      /\ DOMAIN << >> = {}
  BY EmptySeq
<1>2. Resting \in [queue : Seq(Nat), now : Nat] /\ Resting.now = 0 /\ DOMAIN Resting.queue = {}
  BY <1>1 DEF Resting
<1>3. WaitsTypeOK
  BY <1>1, <1>2 DEF WaitsInit, WaitsTypeOK
<1>4. SweepInv
  BY <1>2 DEF WaitsInit, SweepInv
<1>5. DOMAIN conditions = {} /\ DOMAIN spawned = {} /\ verdicts = {}
  BY <1>1 DEF WaitsInit
<1> QED BY <1>3, <1>4, <1>5 DEF WaitsInv, VerdictInv, ExpiryInv, SpawnInv

LEMMA WaitsInvariant == WaitsSpec => []WaitsInv
<1>1. ASSUME WaitsInv, [WaitsNext]_waitsVars PROVE WaitsInv'
  <2>1. WaitsTypeOK' /\ SweepInv' /\ TermsStay /\ Goes
    BY <1>1, WaitsSteps DEF WaitsInv
  <2> QED BY <1>1, <2>1, VerdictKept, ExpiryKept, SpawnKept DEF WaitsInv
<1> QED BY <1>1, WaitsInitially, PTL DEF WaitsSpec

\* The tables stay well formed, and a sweep under way lists waits that exist and acts on
\* a clock sample of the past, whatever dies or overlaps in between (deadlines.ts).
THEOREM WaitsTypes == WaitsSpec => [](WaitsTypeOK /\ SweepInv)
<1>1. WaitsInv => WaitsTypeOK /\ SweepInv
  BY DEF WaitsInv
<1> QED BY <1>1, WaitsInvariant, PTL

\* However many watchers record facts and whoever reconciles them (reconciliation.ts,
\* deadlines.ts): a wait is satisfied by exactly one verdict, of a fact that occurred
\* and was recorded in its time, and a wait that is not satisfied has no such verdict.
THEOREM OneVerdictDecides == WaitsSpec => []OneFactDecides
<1>1. ASSUME WaitsInv PROVE OneFactDecides
  <2> SUFFICES ASSUME NEW c \in DOMAIN conditions
               PROVE LET decisive == {v \in verdicts : v.condition = c /\ v.effect = "satisfied"}
                     IN  IF conditions[c].status = "satisfied"
                         THEN /\ {v.observation : v \in decisive} = {conditions[c].by}
                              /\ observations[conditions[c].by].occurred >= conditions[c].notBefore
                              /\ conditions[c].deadline # 0 =>
                                   /\ observations[conditions[c].by].occurred < conditions[c].deadline
                                   /\ observations[conditions[c].by].recorded < conditions[c].deadline
                         ELSE decisive = {}
    BY DEF OneFactDecides
  <2> DEFINE decisive == {v \in verdicts : v.condition = c /\ v.effect = "satisfied"}
  <2>1. VerdictInv
    BY <1>1 DEF WaitsInv
  <2>2. \A v \in decisive : conditions[c].status = "satisfied" /\ v.observation = conditions[c].by
    BY <2>1 DEF VerdictInv
  <2>3. CASE conditions[c].status = "satisfied"
    <3>1. Matches(c, conditions[c].by) /\ InTime(c, conditions[c].by) /\ \E v \in verdicts : v \in decisive
      BY <2>1, <2>3 DEF VerdictInv
    <3>2. {v.observation : v \in decisive} = {conditions[c].by}
      BY <2>2, <3>1
    <3> QED BY <2>3, <3>1, <3>2 DEF Matches, InTime
  <2>4. CASE conditions[c].status # "satisfied"
    BY <2>2, <2>4
  <2> QED BY <2>3, <2>4
<1> QED BY <1>1, WaitsInvariant, PTL

\* A sweep looks for a fact before it expires a wait, in one transaction
\* (deadlines.ts:92-94): one that is recorded in time is not lost, but for the age of
\* the clock sample it was recorded on.
THEOREM TimelyFactHeard == WaitsSpec => []TimelyFactIsHeard
<1>1. WaitsInv => TimelyFactIsHeard
  BY DEF WaitsInv, ExpiryInv, TimelyFactIsHeard, Matches
<1> QED BY <1>1, WaitsInvariant, PTL

\* The fallback of a wait that creates a commitment creates one when the wait expires,
\* and no other, however many sweeps overlap, die and begin again (deadlines.ts).
THEOREM OneFallbackPerExpiry == WaitsSpec => []FallbackIsTheExpirys
<1>1. ASSUME WaitsInv PROVE FallbackIsTheExpirys
  <2> SUFFICES ASSUME NEW c \in DOMAIN conditions
               PROVE  Cardinality({i \in DOMAIN spawned : spawned[i] = c}) =
                        IF Spawning(c) THEN 1 ELSE 0
    BY DEF FallbackIsTheExpirys, Spawning
  <2>1. SpawnInv
    BY <1>1 DEF WaitsInv
  <2>2. CASE Spawning(c)
    <3>1. PICK i \in DOMAIN spawned : spawned[i] = c
      BY <2>1, <2>2 DEF SpawnInv
    <3>2. {j \in DOMAIN spawned : spawned[j] = c} = {i}
      BY <2>1, <3>1 DEF SpawnInv
    <3>3. Cardinality({i}) = 1
      BY FS_Singleton
    <3> QED BY <2>2, <3>2, <3>3
  <2>3. CASE ~Spawning(c)
    <3>1. {j \in DOMAIN spawned : spawned[j] = c} = {}
      BY <2>1, <2>3 DEF SpawnInv
    <3>2. Cardinality({}) = 0
      BY FS_EmptySet
    <3> QED BY <2>3, <3>1, <3>2
  <2> QED BY <2>2, <2>3
<1> QED BY <1>1, WaitsInvariant, PTL
=============================================================================
