------------------------------- MODULE Waits --------------------------------
(***************************************************************************)
(* Wait conditions, the observations that decide them and their deadlines  *)
(* (tasq-service/src/service: waits.ts, observations.ts, reconciliation.ts *)
(* and deadlines.ts).  A commitment waits for a fact; watchers record      *)
(* facts; somebody reconciles a fact with a wait; sweeps expire the waits  *)
(* whose deadline passed and carry out their fallback.                     *)
(*                                                                         *)
(* Each operation is one transaction that decides on a clock sample taken  *)
(* up to MaxLag ticks before it; a sweep is a list of due waits, read once,*)
(* and then one transaction per wait, all on the sample it began with (the *)
(* one the operator may give, --at, is left out).                          *)
(*                                                                         *)
(* Every fact here is routed to every wait and matches it unless it        *)
(* occurred before the wait's notBefore: an evaluation that rejects, or    *)
(* finds the fact ambiguous, leaves a row that changes nothing, and so do  *)
(* redelivered facts and idempotent replays.  Evidence is written with     *)
(* each satisfying reconciliation and only there.                          *)
(***************************************************************************)
EXTENDS Naturals, Sequences, FiniteSets

CONSTANTS
  Tasks,          \* commitments
  Plans,          \* waits that are asked for: whose, until when, with which fallback
  Occurrences,    \* the instants that a source says a fact occurred at
  Sweepers,       \* processes that sweep deadlines
  SweepLimit,     \* the limit of a sweep
  MaxLag,         \* bound: ticks between a clock sample and its transaction
  MaxClock,       \* bound: ticks
  MaxRows         \* bound: wait conditions and observations, together

ASSUME WaitsAssumption ==
  /\ Plans \subseteq [task : Tasks, notBefore : Nat, deadline : Nat,
                      fallback : {"none", "create", "activate"}, target : Tasks]
  /\ \A plan \in Plans : plan.deadline = 0 \/ plan.deadline > plan.notBefore
  /\ Occurrences \subseteq Nat
  /\ SweepLimit \in Nat \ {0}
  /\ {MaxLag, MaxClock, MaxRows} \subseteq Nat

VARIABLES
  status,       \* status[t]: open (blocked and in progress too), closed (done or
                \* cancelled) or deleted
  spawned,      \* the tasks created by fallbacks: the condition of each
  conditions,   \* wait_condition
  observations, \* observation
  verdicts,     \* reconciliation, the rows that matched
  sweep,        \* sweep[s]: what the sweep of s still has to evaluate
  clock         \* the wall clock

waitsVars == <<status, spawned, conditions, observations, verdicts, sweep, clock>>

Resting == [queue |-> << >>, now |-> 0]

WaitsInit ==
  /\ status = [t \in Tasks |-> "open"]
  /\ spawned = << >> /\ conditions = << >> /\ observations = << >> /\ verdicts = {}
  /\ sweep = [s \in Sweepers |-> Resting]
  /\ clock = 0

\* A clock sample that a transaction may still rest on.
Sampled(now) == now \in 0..clock /\ clock <= now + MaxLag

Room == Len(conditions) + Len(observations) < MaxRows

Waiting(c) == conditions[c].status = "waiting"

-----------------------------------------------------------------------------
(* Commitments. *)

\* Done or cancelled, or deleted, with its waits (cancelWaitingConditionsForTaskTx).
\* A wait is not cancelled before it was created: the CHECK aborts.
Close(t, to, now) ==
  /\ status[t] \in {"open", "closed"} \ {to} /\ Sampled(now)
  /\ \A c \in DOMAIN conditions :
       (conditions[c].task = t /\ Waiting(c)) => now >= conditions[c].created
  /\ status' = [status EXCEPT ![t] = to]
  /\ conditions' = [c \in DOMAIN conditions |->
       IF conditions[c].task = t /\ Waiting(c)
       THEN [conditions[c] EXCEPT !.status = "cancelled"] ELSE conditions[c]]
  /\ UNCHANGED <<spawned, observations, verdicts, sweep, clock>>

\* Reopened, or restored with the status it was deleted with.
Reopen(t, to) ==
  /\ status[t] = "deleted" \/ (status[t] = "closed" /\ to = "open")
  /\ status' = [status EXCEPT ![t] = to]
  /\ UNCHANGED <<spawned, conditions, observations, verdicts, sweep, clock>>

-----------------------------------------------------------------------------
(* Waits and observations. *)

\* createWaitCondition; a superseded wait is cancelled with it.  Deadline 0 is
\* none; the target is the commitment that the fallback activates, or the parent
\* that its specification names for the one it creates, which nobody checks yet.
CreateWait(plan, supersedes, now) ==
  /\ Room /\ Sampled(now)
  /\ status[plan.task] = "open"
  /\ plan.fallback = "activate" => status[plan.target] = "open"
  /\ supersedes # 0 => /\ Waiting(supersedes)
                       /\ conditions[supersedes].task = plan.task
                       /\ now >= conditions[supersedes].created
  /\ conditions' = Append(
       [c \in DOMAIN conditions |->
          IF c = supersedes THEN [conditions[c] EXCEPT !.status = "cancelled"] ELSE conditions[c]],
       [task |-> plan.task, deadline |-> plan.deadline, fallback |-> plan.fallback,
        target |-> plan.target, notBefore |-> plan.notBefore, created |-> now,
        status |-> "waiting", by |-> 0])
  /\ UNCHANGED <<status, spawned, observations, verdicts, sweep, clock>>

CancelWait(c, now) ==
  /\ Waiting(c) /\ Sampled(now) /\ now >= conditions[c].created
  /\ conditions' = [conditions EXCEPT ![c].status = "cancelled"]
  /\ UNCHANGED <<status, spawned, observations, verdicts, sweep, clock>>

\* ingestObservation: the source says when the fact occurred.
Ingest(occurred, now) ==
  /\ Room /\ Sampled(now)
  /\ observations' = Append(observations, [occurred |-> occurred, recorded |-> now])
  /\ UNCHANGED <<status, spawned, conditions, verdicts, sweep, clock>>

-----------------------------------------------------------------------------
(* Reconciliation and deadlines. *)

\* evaluateWaitObservation.
Matches(c, o) == observations[o].occurred >= conditions[c].notBefore

\* Both clocks are strict.
InTime(c, o) ==
  \/ conditions[c].deadline = 0
  \/ /\ observations[o].occurred < conditions[c].deadline
     /\ observations[o].recorded < conditions[c].deadline

Evaluated(c, o) == \E v \in verdicts : v.condition = c /\ v.observation = o

\* Wrong on purpose: the fact matched, whatever became of the wait.
EffectOfAnyMatch(c, o) == IF InTime(c, o) THEN "satisfied" ELSE "no_change"

\* What a matching fact does to a wait.
Effect(c, o) ==
  IF ~Waiting(c) THEN "condition_terminal"
  ELSE IF InTime(c, o) THEN "satisfied" ELSE "no_change"

Verdict(c, o) == [condition |-> c, observation |-> o, effect |-> Effect(c, o)]

Satisfied(c, o) ==
  IF Effect(c, o) = "satisfied"
  THEN [conditions EXCEPT ![c].status = "satisfied", ![c].by = o] ELSE conditions

\* reconcileWaitObservation.
Reconcile(c, o, now) ==
  /\ Sampled(now) /\ now >= conditions[c].created /\ now >= observations[o].recorded
  /\ Matches(c, o) /\ ~Evaluated(c, o)
  /\ verdicts' = verdicts \cup {Verdict(c, o)}
  /\ conditions' = Satisfied(c, o)
  /\ UNCHANGED <<status, spawned, observations, sweep, clock>>

\* Wrong on purpose: whoever has the wait on its list takes it for undecided.
DueAsListed(c, now) == conditions[c].deadline # 0 /\ conditions[c].deadline <= now

Due(c, now) == Waiting(c) /\ conditions[c].deadline # 0 /\ conditions[c].deadline <= now

\* The order of a sweep: by deadline, then by id, which follows the creation.
Sooner(c, d) ==
  \/ conditions[c].deadline < conditions[d].deadline
  \/ conditions[c].deadline = conditions[d].deadline /\ conditions[c].created < conditions[d].created
  \/ /\ conditions[c].deadline = conditions[d].deadline
     /\ conditions[c].created = conditions[d].created /\ c < d

\* The due waits in that order, as many as the limit allows: before each stand
\* those that are sooner, and no others.
DueLists(now) ==
  LET due == {c \in DOMAIN conditions : Due(c, now)}
      Size == IF Cardinality(due) < SweepLimit THEN Cardinality(due) ELSE SweepLimit
  IN  {queue \in [1..Size -> due] :
         \A i \in 1..Size, c \in due : Sooner(c, queue[i]) <=> \E j \in 1..i - 1 : queue[j] = c}

\* sweepWaitConditionDeadlines reads its list.
SweepBegin(s) ==
  /\ sweep[s] = Resting
  /\ \E queue \in DueLists(clock) :
       /\ queue # << >>
       /\ sweep' = [sweep EXCEPT ![s] = [queue |-> queue, now |-> clock]]
  /\ UNCHANGED <<status, spawned, conditions, observations, verdicts, clock>>

Rest(s) ==
  LET queue == Tail(sweep[s].queue)
  IN  [sweep EXCEPT ![s] = IF queue = << >> THEN Resting ELSE [@ EXCEPT !.queue = queue]]

\* Wrong on purpose: only the facts recorded since the wait was created.
CandidatesSinceCreation(c) ==
  {o \in DOMAIN observations :
     Matches(c, o) /\ InTime(c, o) /\ observations[o].recorded >= conditions[c].created}

\* listCandidateObservations up to the deadline.
Candidates(c) == {o \in DOMAIN observations : Matches(c, o) /\ InTime(c, o)}

\* evaluateWaitConditionDeadline finds a fact that satisfies the wait after all.
SweepSatisfies(s) ==
  LET c == Head(sweep[s].queue)
  IN  /\ sweep[s].queue # << >> /\ Due(c, sweep[s].now)
      /\ sweep[s].now >= conditions[c].created
      /\ \E o \in Candidates(c) :
           /\ \A p \in Candidates(c) : observations[o].recorded <= observations[p].recorded
           /\ verdicts' = verdicts \cup {Verdict(c, o)}
           /\ conditions' = Satisfied(c, o)
      /\ sweep' = Rest(s)
      /\ UNCHANGED <<status, spawned, observations, clock>>

\* Whether the fallback can be carried out: activateTaskInTransaction throws for
\* a target that is closed or deleted; one that is not stays so, or is unblocked.
\* createTaskInTransaction throws for a parent that is deleted; the waiting
\* commitment itself is not, since its waits would have been cancelled.
CanFallBack(c) ==
  /\ conditions[c].fallback = "activate" => status[conditions[c].target] = "open"
  /\ conditions[c].fallback = "create" => status[conditions[c].target] # "deleted"

\* ... or expires it and carries out its fallback.
SweepExpires(s) ==
  LET c == Head(sweep[s].queue)
  IN  /\ sweep[s].queue # << >> /\ Due(c, sweep[s].now)
      /\ sweep[s].now >= conditions[c].created
      /\ Candidates(c) = {} /\ CanFallBack(c)
      /\ conditions' = [conditions EXCEPT ![c].status = "expired"]
      /\ spawned' = IF conditions[c].fallback = "create" THEN Append(spawned, c) ELSE spawned
      /\ sweep' = Rest(s)
      /\ UNCHANGED <<status, observations, verdicts, clock>>

\* Wrong on purpose: the first error ends the sweep.
SweepStops(s) ==
  LET c == Head(sweep[s].queue)
  IN  /\ sweep[s].queue # << >>
      /\ \/ ~Due(c, sweep[s].now)
         \/ sweep[s].now < conditions[c].created
         \/ Candidates(c) = {} /\ ~CanFallBack(c)
      /\ sweep' = [sweep EXCEPT ![s] = Resting]
      /\ UNCHANGED <<status, spawned, conditions, observations, verdicts, clock>>

\* The wait is decided already, or the transaction rolls back with an error: the
\* sweep goes on with the next one.
SweepSkips(s) ==
  LET c == Head(sweep[s].queue)
  IN  /\ sweep[s].queue # << >>
      /\ \/ ~Due(c, sweep[s].now)
         \/ sweep[s].now < conditions[c].created
         \/ Candidates(c) = {} /\ ~CanFallBack(c)
      /\ sweep' = Rest(s)
      /\ UNCHANGED <<status, spawned, conditions, observations, verdicts, clock>>

\* The process dies between two waits.
SweepDies(s) ==
  /\ sweep[s] # Resting
  /\ sweep' = [sweep EXCEPT ![s] = Resting]
  /\ UNCHANGED <<status, spawned, conditions, observations, verdicts, clock>>

SweepStep(s) == SweepSatisfies(s) \/ SweepExpires(s) \/ SweepSkips(s)

Tick ==
  /\ clock < MaxClock
  /\ clock' = clock + 1
  /\ UNCHANGED <<status, spawned, conditions, observations, verdicts, sweep>>

-----------------------------------------------------------------------------
WaitsNext ==
  \/ Tick
  \/ \E t \in Tasks :
       \/ \E to \in {"open", "closed"} : Reopen(t, to)
       \/ \E to \in {"closed", "deleted"}, now \in 0..clock : Close(t, to, now)
  \/ \E plan \in Plans, now \in 0..clock, supersedes \in {0} \cup DOMAIN conditions :
       CreateWait(plan, supersedes, now)
  \/ \E occurred \in Occurrences, now \in 0..clock : Ingest(occurred, now)
  \/ \E c \in DOMAIN conditions, now \in 0..clock :
       CancelWait(c, now) \/ \E o \in DOMAIN observations : Reconcile(c, o, now)
  \/ \E s \in Sweepers : SweepBegin(s) \/ SweepStep(s) \/ SweepDies(s)

WaitsSpec == WaitsInit /\ [][WaitsNext]_waitsVars

\* Time passes and sweeps keep being run.  One may die, but not every time it
\* gets to a given wait.
SweepFairness ==
  /\ WF_waitsVars(Tick)
  /\ \A s \in Sweepers :
       /\ WF_waitsVars(SweepBegin(s))
       /\ \A c \in 1..MaxRows :
            SF_waitsVars(sweep[s].queue # << >> /\ Head(sweep[s].queue) = c /\ SweepStep(s))

FairWaitsSpec == WaitsSpec /\ SweepFairness

-----------------------------------------------------------------------------
(* What waits promise. *)

\* A wait is satisfied by exactly one reconciliation, of a fact that occurred in
\* its time and was recorded before its deadline, however many facts arrive and
\* whoever reconciles them; every other match leaves it as it is.
OneFactDecides ==
  \A c \in DOMAIN conditions :
    LET decisive == {v \in verdicts : v.condition = c /\ v.effect = "satisfied"}
    IN  IF conditions[c].status = "satisfied"
        THEN /\ {v.observation : v \in decisive} = {conditions[c].by}
             /\ observations[conditions[c].by].occurred >= conditions[c].notBefore
             /\ conditions[c].deadline # 0 =>
                  /\ observations[conditions[c].by].occurred < conditions[c].deadline
                  /\ observations[conditions[c].by].recorded < conditions[c].deadline
        ELSE decisive = {}

\* "Closes the ingest/reconcile lag window before expiry wins" (deadlines.ts:92-94):
\* no wait expires although a fact that satisfies it was recorded before its
\* deadline, unless the clock sample of that record is as old as a sample gets.
TimelyFactIsHeard ==
  \A c \in DOMAIN conditions, o \in DOMAIN observations :
    (/\ conditions[c].status = "expired" /\ observations[o].occurred >= conditions[c].notBefore
     /\ observations[o].occurred < conditions[c].deadline)
      => observations[o].recorded + MaxLag >= conditions[c].deadline

\* The fallback of a wait happens when it expires and only then: once, in spite
\* of sweeps that overlap, die and start again.
FallbackIsTheExpirys ==
  \A c \in DOMAIN conditions :
    Cardinality({i \in DOMAIN spawned : spawned[i] = c}) =
      IF conditions[c].status = "expired" /\ conditions[c].fallback = "create" THEN 1 ELSE 0

\* A sweep cannot expire it, since its fallback fails.
Stuck(c) == Due(c, clock) /\ ~CanFallBack(c)

\* "Process due waits independently so one invalid fallback cannot starve peers"
\* (deadlines.ts:178): a due wait is decided in the end unless its own fallback
\* fails, or those of as many others as a sweep takes do.
EveryDueWaitIsDecided ==
  \A c \in 1..MaxRows :
    (c \in DOMAIN conditions /\ Due(c, clock))
      ~> (c \in DOMAIN conditions /\
            \/ ~Waiting(c) \/ Stuck(c)
            \/ Cardinality({d \in DOMAIN conditions : Stuck(d)}) >= SweepLimit)
=============================================================================
