------------------------------- MODULE Outbox -------------------------------
(***************************************************************************)
(* The transactional outbox and its drain into the event journal:          *)
(* tasq-core/src/service/delivery.ts and migrations/0017, the drain loop   *)
(* of tasq-cli/src/runtime.ts, the JSONL journal of tasq-cli/src/          *)
(* journal.ts, `tasq journal checkpoint` and `tasq doctor --repair-outbox`.*)
(*                                                                         *)
(* One workspace and one sink; sinks do not interact.  The database and    *)
(* the journal are two stores without a common transaction, so a worker    *)
(* steps between them and may die anywhere.  The maintenance commands read *)
(* one store, then the other, then write: their steps interleave too.      *)
(*                                                                         *)
(* Times are kept as what is left of them: `wait` is the number of ticks   *)
(* until a row may be leased (available_at, or lease_expires_at while it   *)
(* is delivering), so no clock variable is needed.  leaseDeliveryBatch and *)
(* completeDeliveryBatch have no caller in the repository and are left out.*)
(***************************************************************************)
EXTENDS Naturals, Sequences, FiniteSets

CONSTANTS
  Workers,      \* runs of the drain loop, one per process
  OwnerOf,      \* OwnerOf[w]: the leaseOwner string w presents
  None,         \* SQL NULL, or nothing read
  LeaseTicks,   \* leaseMs
  MaxLag,       \* how old the clock sample of a transaction can be
  MaxAttempts,  \* maxAttempts: the failure that quarantines
  BaseBackoff, MaxBackoff,   \* baseBackoffMs and maxBackoffMs
  Maintenance,  \* maintenance commands in use, of "doctor" and "checkpoint"
  SinkToggles,  \* whether processes without a journal path disable the sink
  MaxEvents     \* bound: events committed

ASSUME OutboxAssumption ==
  /\ LeaseTicks \in Nat /\ MaxLag \in Nat /\ MaxAttempts \in Nat \ {0}
  /\ BaseBackoff \in Nat /\ MaxBackoff \in Nat /\ MaxEvents \in Nat
  /\ \A w \in Workers : OwnerOf[w] # None
  /\ SinkToggles \in BOOLEAN

VARIABLES
  sink,       \* delivery_sink: status and start_after_sequence
  outbox,     \* outbox[e]: the delivery_outbox row of event e ("none": no row)
  journal,    \* the file: lines of the active segment, its checkpoint's cursor,
              \* and for the archive chain its lines and its cursors
  worker,     \* worker[w]: where the drain loop of w is, and on which event
  doctor,     \* the repair command: what it has read, what it still will do
  checkpoint  \* the checkpoint command: the cursor it has read, or None

outboxVars == <<sink, outbox, journal, worker, doctor, checkpoint>>

Statuses == {"none", "pending", "delivering", "delivered", "quarantined"}
Undelivered == {"pending", "delivering", "quarantined"}
Actions == {"retry", "mark_delivered", "redeliver"}

Row == [status : Statuses, attempts : Nat, wait : Nat,
        owner : {OwnerOf[w] : w \in Workers} \cup {None}, error : BOOLEAN]

OutboxTypeOK ==
  /\ sink \in [status : {"absent", "enabled", "disabled"}, after : Nat]
  /\ outbox \in Seq(Row)
  /\ journal \in [active : SUBSET Nat, cursor : Nat, archived : SUBSET Nat,
                  cursors : SUBSET Nat]
  /\ worker \in [Workers -> [at : {"idle", "leased", "covered", "appended", "failing"},
                             item : Nat]]
  /\ doctor.at \in {"idle", "scanned", "listed", "repairing"}
  /\ doctor.seen \subseteq Nat
  /\ doctor.rows \in Seq(Row)
  /\ doctor.todo \subseteq Nat \X Actions
  /\ checkpoint \in Nat \cup {None}

NewRow(status) ==
  [status |-> status, attempts |-> 0, wait |-> 0, owner |-> None, error |-> FALSE]

IdleWorker == [at |-> "idle", item |-> 0]
IdleDoctor == [at |-> "idle", seen |-> {}, rows |-> << >>, todo |-> {}]

OutboxInit ==
  /\ sink = [status |-> "absent", after |-> 0]
  /\ outbox = << >>
  /\ journal = [active |-> {}, cursor |-> 0, archived |-> {}, cursors |-> {}]
  /\ worker = [w \in Workers |-> IdleWorker]
  /\ doctor = IdleDoctor
  /\ checkpoint = None

-----------------------------------------------------------------------------
(* The ledger and the sink. *)

\* One unit of time passes on every deadline, in the doctor's copies too.
Aged(rows) == [e \in DOMAIN rows |->
                 [rows[e] EXCEPT !.wait = IF @ > 0 THEN @ - 1 ELSE 0]]

Tick ==
  /\ \E e \in DOMAIN outbox : outbox[e].wait > 0
  /\ outbox' = Aged(outbox)
  /\ doctor' = [doctor EXCEPT !.rows = Aged(@)]
  /\ UNCHANGED <<sink, journal, worker, checkpoint>>

\* What a sample taken up to MaxLag before the lock leaves of a duration.
Left(duration) == {n \in 0..duration : n + MaxLag >= duration}

\* An event row is inserted; trigger delivery_outbox_after_event_insert.
CommitEvent ==
  /\ Len(outbox) < MaxEvents
  /\ outbox' = Append(outbox,
       NewRow(IF sink.status = "enabled" /\ Len(outbox) + 1 > sink.after
              THEN "pending" ELSE "none"))
  /\ UNCHANGED <<sink, journal, worker, doctor, checkpoint>>

\* ensureDeliverySink: registered after the latest event, or enabled again.
EnsureSink ==
  /\ sink.status # "enabled"
  /\ sink' = IF sink.status = "absent"
             THEN [status |-> "enabled", after |-> Len(outbox)]
             ELSE [sink EXCEPT !.status = "enabled"]
  /\ UNCHANGED <<outbox, journal, worker, doctor, checkpoint>>

DisableSink ==
  /\ SinkToggles
  /\ sink.status = "enabled"
  /\ sink' = [sink EXCEPT !.status = "disabled"]
  /\ UNCHANGED <<outbox, journal, worker, doctor, checkpoint>>

-----------------------------------------------------------------------------
(* The drain loop. *)

At(w, place, e) == worker' = [worker EXCEPT ![w] = [at |-> place, item |-> e]]
GoIdle(w) == worker' = [worker EXCEPT ![w] = IdleWorker]

\* Wrong on purpose: a quarantined row blocks nothing.
IsHeadPastQuarantine(e) ==
  /\ outbox[e].status \in Undelivered
  /\ \A d \in DOMAIN outbox : d < e => outbox[d].status \notin {"pending", "delivering"}

\* findDeliveryHead: the oldest row that is not delivered.
IsHead(e) ==
  /\ outbox[e].status \in Undelivered
  /\ \A d \in DOMAIN outbox : d < e => outbox[d].status \notin Undelivered

\* Wrong on purpose: the lease of a dead worker is never taken over.
LeaseableFresh(e) == outbox[e].status = "pending" /\ outbox[e].wait = 0

\* isLeaseableHead; an older clock sample only refuses more.
Leaseable(e) == outbox[e].status \in {"pending", "delivering"} /\ outbox[e].wait = 0

\* leaseNextDelivery.  The attempt count is capped where it stops to matter.
Lease(w) ==
  /\ worker[w].at = "idle"
  /\ \E e \in DOMAIN outbox, left \in Left(LeaseTicks) :
       /\ IsHead(e) /\ Leaseable(e)
       /\ outbox' = [outbox EXCEPT ![e] =
            [status |-> "delivering", wait |-> left, owner |-> OwnerOf[w], error |-> FALSE,
             attempts |-> IF @.attempts < MaxAttempts THEN @.attempts + 1 ELSE @.attempts]]
       /\ At(w, "leased", e)
  /\ UNCHANGED <<sink, journal, doctor, checkpoint>>

\* appendJournalEvent, one step under the journal lock.  It throws when a later
\* event is already in the segment, or on any I/O error.
JournalAppend(w) ==
  LET e == worker[w].item
      later == \E f \in journal.active : f > e
  IN  /\ worker[w].at = "leased"
      /\ UNCHANGED <<sink, outbox, doctor, checkpoint>>
      /\ \/ e <= journal.cursor /\ At(w, "covered", e) /\ UNCHANGED journal
         \/ /\ e > journal.cursor /\ e \in journal.active
            /\ At(w, "appended", e) /\ UNCHANGED journal
         \/ /\ e > journal.cursor /\ e \notin journal.active /\ ~later
            /\ journal' = [journal EXCEPT !.active = @ \cup {e}]
            /\ At(w, "appended", e)
         \/ At(w, "failing", e) /\ UNCHANGED journal

\* verifyJournalCheckpointCoverage, after the append answered "covered".
VerifyCoverage(w) ==
  /\ worker[w].at = "covered"
  /\ At(w, IF worker[w].item <= journal.cursor THEN "appended" ELSE "failing",
        worker[w].item)
  /\ UNCHANGED <<sink, outbox, journal, doctor, checkpoint>>

\* status = 'delivering' AND lease_owner = the caller: the expiry is not asked.
Owns(w) ==
  LET e == worker[w].item
  IN  outbox[e].status = "delivering" /\ outbox[e].owner = OwnerOf[w]

\* completeDelivery, and its refusal, which the loop's catch turns into a failure.
Complete(w) ==
  /\ worker[w].at = "appended" /\ Owns(w)
  /\ outbox' = [outbox EXCEPT ![worker[w].item] =
       [NewRow("delivered") EXCEPT !.attempts = outbox[worker[w].item].attempts]]
  /\ GoIdle(w)
  /\ UNCHANGED <<sink, journal, doctor, checkpoint>>

CompleteRefused(w) ==
  /\ worker[w].at = "appended" /\ ~Owns(w)
  /\ At(w, "failing", worker[w].item)
  /\ UNCHANGED <<sink, outbox, journal, doctor, checkpoint>>

\* min(maxBackoffMs, baseBackoffMs * 2 ** (attemptCount - 1)).
Delay(attempts) ==
  LET d == BaseBackoff * 2 ^ (attempts - 1)
  IN  IF d < MaxBackoff THEN d ELSE MaxBackoff

\* failDelivery: backoff, or quarantine when the attempts are used up.
Fail(w) ==
  LET e == worker[w].item
  IN  /\ worker[w].at = "failing" /\ Owns(w)
      /\ \/ /\ outbox[e].attempts >= MaxAttempts
            /\ outbox' = [outbox EXCEPT ![e] =
                 [@ EXCEPT !.status = "quarantined", !.wait = 0, !.owner = None, !.error = TRUE]]
         \/ /\ outbox[e].attempts < MaxAttempts
            /\ \E left \in Left(Delay(outbox[e].attempts)) :
                 outbox' = [outbox EXCEPT ![e] =
                   [@ EXCEPT !.status = "pending", !.wait = left, !.owner = None, !.error = TRUE]]
      /\ GoIdle(w)
      /\ UNCHANGED <<sink, journal, doctor, checkpoint>>

\* failDelivery refuses and the loop ends; or the process dies, anywhere.
FailRefused(w) ==
  /\ worker[w].at = "failing" /\ ~Owns(w)
  /\ GoIdle(w)
  /\ UNCHANGED <<sink, outbox, journal, doctor, checkpoint>>

Crash(w) ==
  /\ worker[w].at # "idle"
  /\ GoIdle(w)
  /\ UNCHANGED <<sink, outbox, journal, doctor, checkpoint>>

-----------------------------------------------------------------------------
(* tasq doctor --repair-outbox: repairOutboxAgainstJournal. *)

DoctorScan ==
  /\ "doctor" \in Maintenance /\ doctor.at = "idle"
  /\ doctor' = [doctor EXCEPT !.at = "scanned", !.seen = journal.active]
  /\ UNCHANGED <<sink, outbox, journal, worker, checkpoint>>

DoctorList ==
  /\ doctor.at = "scanned"
  /\ doctor' = [doctor EXCEPT !.at = "listed", !.rows = outbox]
  /\ UNCHANGED <<sink, outbox, journal, worker, checkpoint>>

\* Which repair a row it has read calls for, given what the journal held and
\* what its checkpoint covers now.
Repairs(e) ==
  LET r == doctor.rows[e]
      present == e \in doctor.seen \/ e <= journal.cursor
      expired == r.status = "delivering" /\ r.wait = 0
  IN  {a \in Actions :
         \/ /\ a = "mark_delivered" /\ present
            /\ r.status \in {"pending", "quarantined"} \/ expired
         \/ a = "redeliver" /\ ~present /\ r.status = "delivered"
         \/ /\ a = "retry" /\ ~present
            /\ r.status = "quarantined" \/ (r.status = "pending" /\ r.error) \/ expired}

DoctorPlan ==
  /\ doctor.at = "listed"
  /\ doctor' = [IdleDoctor EXCEPT !.at = "repairing",
       !.todo = UNION {{e} \X Repairs(e) : e \in DOMAIN doctor.rows}]
  /\ UNCHANGED <<sink, outbox, journal, worker, checkpoint>>

\* repairDelivery on the row as it is now; a refusal ends the command.
Repairable(e, action) ==
  CASE action = "mark_delivered" -> TRUE
    [] action = "redeliver"      -> outbox[e].status = "delivered"
    [] action = "retry"          -> outbox[e].status # "delivered"

Repaired(e, action) ==
  IF action # "mark_delivered" THEN NewRow("pending")
  ELSE IF outbox[e].status = "delivered" THEN outbox[e]
  ELSE [NewRow("delivered") EXCEPT !.attempts = outbox[e].attempts]

DoctorRepair ==
  /\ doctor.at = "repairing"
  /\ \E job \in doctor.todo :
       /\ \A other \in doctor.todo : job[1] <= other[1]
       /\ IF Repairable(job[1], job[2])
          THEN /\ outbox' = [outbox EXCEPT ![job[1]] = Repaired(job[1], job[2])]
               /\ doctor' = [doctor EXCEPT !.todo = @ \ {job}]
          ELSE outbox' = outbox /\ doctor' = IdleDoctor
  /\ UNCHANGED <<sink, journal, worker, checkpoint>>

DoctorExit ==
  /\ doctor.at = "repairing" /\ doctor.todo = {}
  /\ doctor' = IdleDoctor
  /\ UNCHANGED <<sink, outbox, journal, worker, checkpoint>>

-----------------------------------------------------------------------------
(* tasq journal checkpoint: the cursor is read, then installed. *)

CheckpointRead ==
  /\ "checkpoint" \in Maintenance /\ checkpoint = None
  /\ checkpoint' = Len(outbox)
  /\ UNCHANGED <<sink, outbox, journal, worker, doctor>>

\* checkpointJournal: the whole segment is archived and a new one begins.
CheckpointInstall ==
  /\ checkpoint # None
  /\ journal' = [active |-> {}, cursor |-> checkpoint,
                 archived |-> journal.archived \cup journal.active,
                 cursors |-> journal.cursors \cup {checkpoint}]
  /\ checkpoint' = None
  /\ UNCHANGED <<sink, outbox, worker, doctor>>

-----------------------------------------------------------------------------
WorkerStep(w) ==
  \/ Lease(w) \/ JournalAppend(w) \/ VerifyCoverage(w)
  \/ Complete(w) \/ CompleteRefused(w) \/ Fail(w) \/ FailRefused(w)
  \/ Crash(w)

OutboxNext ==
  \/ Tick \/ CommitEvent \/ EnsureSink \/ DisableSink
  \/ \E w \in Workers : WorkerStep(w)
  \/ DoctorScan \/ DoctorList \/ DoctorPlan \/ DoctorRepair \/ DoctorExit
  \/ CheckpointRead \/ CheckpointInstall

OutboxSpec == OutboxInit /\ [][OutboxNext]_outboxVars

\* Time passes and commands keep being run (each drains first).  A run may die
\* or outlive its lease, but not every time it gets as far as a given step.
DrainFairness ==
  /\ WF_outboxVars(Tick)
  /\ \A w \in Workers :
       /\ WF_outboxVars(Lease(w))
       /\ SF_outboxVars(JournalAppend(w) /\ Owns(w))
       /\ SF_outboxVars(VerifyCoverage(w) /\ Owns(w))
       /\ SF_outboxVars(Complete(w)) /\ SF_outboxVars(Fail(w))
       /\ WF_outboxVars(JournalAppend(w)) /\ WF_outboxVars(VerifyCoverage(w))
       /\ WF_outboxVars(CompleteRefused(w)) /\ WF_outboxVars(FailRefused(w))

FairOutboxSpec == OutboxSpec /\ DrainFairness

-----------------------------------------------------------------------------
(* What the outbox promises. *)

\* The journal holds e, in its active segment or its archive chain, or a
\* checkpoint of the chain accepted the database up to e.
Accounted(e) ==
  \/ e \in journal.active \cup journal.archived
  \/ \E c \in journal.cursors : e <= c

\* A row is acknowledged only for an event the journal accounts for, wherever
\* workers die and however stale a doctor's or a checkpoint's reading is.
DeliveredIsAccounted ==
  \A e \in DOMAIN outbox : outbox[e].status = "delivered" => Accounted(e)

\* "Workers cannot make a journal appear healthy while skipping a bad record"
\* (TQ-402:44): when the journal holds an event, it accounts for every enqueued
\* event before it.
JournalHasNoGap ==
  \A e \in journal.active \cup journal.archived :
    \A d \in DOMAIN outbox : (d < e /\ outbox[d].status # "none") => Accounted(d)

\* The implemented promise: one sink of the outbox, with its journal, is an ordered
\* delivery of the events that were enqueued for it.
Owed == {e \in DOMAIN outbox : outbox[e].status # "none"}

Delivery == INSTANCE OrderedDelivery
              WITH owed <- Owed, accounted <- {e \in Owed : Accounted(e)},
                   acknowledged <- {e \in Owed : outbox[e].status = "delivered"}

\* Every history of rows and journal is one of the abstract delivery, although the
\* two are stores without a common transaction: events reach the journal in order
\* and without a gap ("workers cannot make a journal appear healthy while skipping
\* a bad record", TQ-402:44), and are acknowledged after that.
ImplementsOrderedDelivery == Delivery!DeliverySpec

Status(e) == IF e \in DOMAIN outbox THEN outbox[e].status ELSE "none"

\* Every enqueued event is delivered in the end, or waits behind one that was
\* quarantined for an operator to see ("the next process resumes", TQ-402:16).
EveryEventSettles ==
  \A e \in 1..MaxEvents :
    Status(e) \in {"pending", "delivering"} ~>
      \/ Status(e) = "delivered"
      \/ \E d \in 1..e : Status(d) = "quarantined"
=============================================================================
