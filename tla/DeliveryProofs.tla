--------------------------- MODULE DeliveryProofs ---------------------------
(***************************************************************************)
(* Proofs about the two ways in which what one database says reaches       *)
(* others: Outbox, for every set of workers, every number of attempts and  *)
(* every duration, whatever dies and whichever commands are in use; and    *)
(* Replication, for every set of replicas, of commitments and of what they *)
(* can say.                                                                *)
(*                                                                         *)
(* An operation of a replica holds its predecessor, which holds its own:   *)
(* no set that can be written down contains all operations, so the         *)
(* invariant of Replication says of the tables which fields they have and  *)
(* not which set they are taken from.                                      *)
(***************************************************************************)
EXTENDS Outbox, Replication, SequenceTheorems, FiniteSetTheorems, WellFoundedInduction, TLAPS

-----------------------------------------------------------------------------
(* The outbox and the journal: the invariant. *)

DoctorRecord ==
  [at : {"idle", "scanned", "listed", "repairing"}, seen : SUBSET Nat, rows : Seq(Row),
   todo : SUBSET (Nat \X Actions)]

Journaled == journal.active \cup journal.archived

\* The journal holds committed events; its segment follows a checkpoint of its chain.
JournalInv ==
  /\ Journaled \subseteq DOMAIN outbox
  /\ journal.cursor = 0 \/ journal.cursor \in journal.cursors

Enqueued(e) == e \in DOMAIN outbox /\ outbox[e].status # "none"

\* A worker has an event that was enqueued.  Everything enqueued before it is in the
\* journal, or under a checkpoint: it was delivered when the event was leased, and what
\* the journal accounts for it never forgets.
WorkerInv ==
  \A w \in Workers : worker[w].at # "idle" =>
    /\ Enqueued(worker[w].item)
    /\ \A d \in DOMAIN outbox : (d < worker[w].item /\ Enqueued(d)) => Accounted(d)
    /\ worker[w].at = "appended" => Accounted(worker[w].item)

\* What a repair has read was true when it read it; what it takes for delivered stays
\* accounted for.
DoctorInv ==
  /\ doctor.seen \subseteq Journaled
  /\ \A e \in DOMAIN doctor.rows : /\ e \in DOMAIN outbox
                                   /\ doctor.rows[e].status # "none" => Enqueued(e)
  /\ \A job \in doctor.todo : /\ Enqueued(job[1])
                              /\ job[2] = "mark_delivered" => Accounted(job[1])

OutboxInv ==
  /\ OutboxTypeOK /\ doctor \in DoctorRecord
  /\ JournalInv /\ WorkerInv /\ DoctorInv
  /\ DeliveredIsAccounted /\ JournalHasNoGap

-----------------------------------------------------------------------------
(* The rows. *)

LEMMA Rows ==
  ASSUME NEW rows \in Seq(Row)
  PROVE  /\ Len(rows) \in Nat /\ DOMAIN rows = 1..Len(rows)
         /\ \A e \in DOMAIN rows : rows[e] \in Row /\ e \in Nat /\ 1 <= e
<1>1. Len(rows) \in Nat /\ DOMAIN rows = 1..Len(rows)
  BY LenProperties
<1>2. \A e \in 1..Len(rows) : rows[e] \in Row
  BY ElementOfSeq
<1> QED BY <1>1, <1>2

LEMMA NewRowType ==
  ASSUME NEW status \in Statuses
  PROVE  NewRow(status) \in Row /\ NewRow(status).status = status
BY DEF NewRow, Row

\* A row written again.
LEMMA RowWritten ==
  ASSUME NEW rows \in Seq(Row), NEW e \in DOMAIN rows, NEW r \in Row
  PROVE  /\ [rows EXCEPT ![e] = r] \in Seq(Row)
         /\ DOMAIN [rows EXCEPT ![e] = r] = DOMAIN rows
         /\ \A d \in DOMAIN rows : [rows EXCEPT ![e] = r][d] = IF d = e THEN r ELSE rows[d]
<1>1. e \in 1..Len(rows)
  BY Rows
<1> QED BY <1>1, ExceptSeq

\* Ageing changes no status.
LEMMA AgedRows ==
  ASSUME NEW rows \in Seq(Row)
  PROVE  /\ Aged(rows) \in Seq(Row) /\ DOMAIN Aged(rows) = DOMAIN rows
         /\ \A e \in DOMAIN rows : Aged(rows)[e].status = rows[e].status
<1>1. ASSUME NEW e \in DOMAIN rows
      PROVE  Aged(rows)[e] \in Row /\ Aged(rows)[e].status = rows[e].status
  <2>1. rows[e] \in Row
    BY Rows
  <2>2. \A n \in Nat : [rows[e] EXCEPT !.wait = n] \in Row
                       /\ [rows[e] EXCEPT !.wait = n].status = rows[e].status
    BY <2>1 DEF Row
  <2>3. rows[e].wait \in Nat
    BY <2>1 DEF Row
  <2>4. Aged(rows)[e] = [rows[e] EXCEPT !.wait = IF rows[e].wait > 0 THEN rows[e].wait - 1 ELSE 0]
    BY DEF Aged
  <2>5. (IF rows[e].wait > 0 THEN rows[e].wait - 1 ELSE 0) \in Nat
    BY <2>3
  <2> QED BY <2>2, <2>4, <2>5
<1>2. DOMAIN Aged(rows) = 1..Len(rows) /\ Len(rows) \in Nat /\ DOMAIN rows = 1..Len(rows)
  BY Rows DEF Aged
<1>3. Aged(rows) = [e \in 1..Len(rows) |-> Aged(rows)[e]]
  BY <1>2 DEF Aged
<1>4. \A e \in 1..Len(rows) : Aged(rows)[e] \in Row
  BY <1>1, <1>2
<1>5. Aged(rows) \in Seq(Row)
  BY <1>2, <1>3, <1>4, IsASeq
<1> QED BY <1>1, <1>2, <1>5

-----------------------------------------------------------------------------
(* What a step keeps of the outbox and of the journal. *)

\* Events stay as enqueued as they were, the journal forgets none, a row is acknowledged
\* only for one it accounts for, and it takes one only after all that precede it.
Kept ==
  /\ outbox' \in Seq(Row)
  /\ \A e \in DOMAIN outbox : /\ e \in DOMAIN outbox'
                              /\ outbox'[e].status = "none" <=> outbox[e].status = "none"
  /\ \A d \in DOMAIN outbox' \ DOMAIN outbox :
       outbox'[d].status # "delivered" /\ \A e \in DOMAIN outbox : e < d
  /\ \A e \in DOMAIN outbox :
       outbox'[e].status = "delivered" => outbox[e].status = "delivered" \/ Accounted(e)
  /\ Journaled \subseteq Journaled'
  /\ journal.cursors \subseteq journal'.cursors
  /\ \A e \in Journaled' \ Journaled :
       e \in DOMAIN outbox /\ \A d \in DOMAIN outbox : (d < e /\ Enqueued(d)) => Accounted(d)

LEMMA KeptFacts ==
  ASSUME Kept
  PROVE  /\ \A e : Accounted(e) => Accounted(e)'
         /\ \A e : Enqueued(e) => Enqueued(e)'
         /\ \A e \in DOMAIN outbox : Enqueued(e)' => Enqueued(e)
<1>1. \A e : Accounted(e) => Accounted(e)'
  BY DEF Kept, Accounted, Journaled
<1> QED BY <1>1 DEF Kept, Enqueued

LEMMA PromisesKept ==
  ASSUME OutboxInv, Kept
  PROVE  /\ DeliveredIsAccounted' /\ JournalHasNoGap'
         /\ (Journaled \subseteq DOMAIN outbox)'
<1>1. DeliveredIsAccounted'
  <2> SUFFICES ASSUME NEW e \in DOMAIN outbox', outbox'[e].status = "delivered"
               PROVE  Accounted(e)'
    BY DEF DeliveredIsAccounted
  <2>1. e \in DOMAIN outbox /\ (outbox[e].status = "delivered" \/ Accounted(e))
    BY DEF Kept
  <2>2. Accounted(e)
    BY <2>1 DEF OutboxInv, DeliveredIsAccounted
  <2> QED BY <2>2, KeptFacts
<1>2. \A e \in Journaled' : /\ e \in DOMAIN outbox
                            /\ \A d \in DOMAIN outbox : (d < e /\ Enqueued(d)) => Accounted(d)
  BY DEF Kept, OutboxInv, JournalInv, JournalHasNoGap, Journaled, Enqueued
<1>3. JournalHasNoGap'
  <2> SUFFICES ASSUME NEW e \in Journaled', NEW d \in DOMAIN outbox', d < e,
                      outbox'[d].status # "none"
               PROVE  Accounted(d)'
    BY DEF JournalHasNoGap, Journaled
  <2>1. e \in DOMAIN outbox /\ e \in Nat /\ d \in Nat
    BY <1>2, Rows DEF OutboxInv, OutboxTypeOK, Kept
  <2>2. d \in DOMAIN outbox
    BY <2>1 DEF Kept
  <2>3. Enqueued(d)
    BY <2>2 DEF Kept, Enqueued
  <2> QED BY <1>2, <2>2, <2>3, KeptFacts
<1>4. (Journaled \subseteq DOMAIN outbox)'
  BY <1>2 DEF Kept
<1> QED BY <1>1, <1>3, <1>4

\* Nothing happens to the rows and to the journal.
LEMMA BothStay ==
  ASSUME OutboxInv, UNCHANGED <<outbox, journal>>
  PROVE  Kept
BY DEF Kept, OutboxInv, OutboxTypeOK, Journaled

\* One row is written.
LEMMA RowStep ==
  ASSUME OutboxInv, NEW e \in DOMAIN outbox, NEW r \in Row,
         outbox' = [outbox EXCEPT ![e] = r], UNCHANGED journal,
         r.status # "none", Enqueued(e),
         r.status = "delivered" => outbox[e].status = "delivered" \/ Accounted(e)
  PROVE  Kept
<1>1. outbox \in Seq(Row)
  BY DEF OutboxInv, OutboxTypeOK
<1>2. /\ outbox' \in Seq(Row) /\ DOMAIN outbox' = DOMAIN outbox
      /\ \A d \in DOMAIN outbox : outbox'[d] = IF d = e THEN r ELSE outbox[d]
  BY <1>1, RowWritten
<1> QED BY <1>2 DEF Kept, Journaled, Enqueued

\* Workers and doctors that do not move.
LEMMA WorkersStay ==
  ASSUME OutboxInv, Kept, UNCHANGED worker
  PROVE  WorkerInv'
<1> SUFFICES ASSUME NEW w \in Workers, worker[w].at # "idle"
             PROVE  /\ Enqueued(worker[w].item)'
                    /\ \A d \in DOMAIN outbox' : (d < worker[w].item /\ Enqueued(d)') => Accounted(d)'
                    /\ worker[w].at = "appended" => Accounted(worker[w].item)'
  BY DEF WorkerInv
<1>1. PICK e : e = worker[w].item
  OBVIOUS
<1>2. /\ Enqueued(e) /\ \A d \in DOMAIN outbox : (d < e /\ Enqueued(d)) => Accounted(d)
      /\ worker[w].at = "appended" => Accounted(e)
  BY <1>1 DEF OutboxInv, WorkerInv
<1>3. e \in DOMAIN outbox /\ e \in Nat
  BY <1>2, Rows DEF Enqueued, OutboxInv, OutboxTypeOK
<1>4. Enqueued(e)' /\ (worker[w].at = "appended" => Accounted(e)')
  BY <1>2, KeptFacts
<1>5. ASSUME NEW d \in DOMAIN outbox', d < e, Enqueued(d)'
      PROVE  Accounted(d)'
  <2>1. d \in Nat
    BY Rows DEF Kept
  <2>2. d \in DOMAIN outbox
    BY <1>3, <1>5, <2>1 DEF Kept
  <2> QED BY <1>2, <1>5, <2>2, KeptFacts
<1>6. Enqueued(worker[w].item)' /\ (Accounted(e)' => Accounted(worker[w].item)')
  BY <1>1, <1>4 DEF Enqueued, Accounted
<1> QED BY <1>1, <1>4, <1>5, <1>6

\* A worker goes idle, or on with an event before which everything is accounted for.
LEMMA WorkerMoves ==
  ASSUME OutboxInv, Kept, NEW w \in Workers, NEW at \in {"leased", "covered", "appended", "failing"},
         NEW e \in DOMAIN outbox, At(w, at, e) \/ GoIdle(w),
         Enqueued(e), \A d \in DOMAIN outbox : (d < e /\ Enqueued(d)) => Accounted(d),
         at = "appended" => Accounted(e)'
  PROVE  /\ WorkerInv'
         /\ worker' \in [Workers -> [at : {"idle", "leased", "covered", "appended", "failing"},
                                      item : Nat]]
<1>1. e \in Nat /\ outbox \in Seq(Row)
  BY Rows DEF OutboxInv, OutboxTypeOK
<1>2. PICK x \in {IdleWorker, [at |-> at, item |-> e]} : worker' = [worker EXCEPT ![w] = x]
  BY DEF At, GoIdle
<1>3. x \in [at : {"idle", "leased", "covered", "appended", "failing"}, item : Nat]
  BY <1>1, <1>2 DEF IdleWorker
<1>4. /\ worker' \in [Workers -> [at : {"idle", "leased", "covered", "appended", "failing"},
                                   item : Nat]]
      /\ \A v \in Workers : worker'[v] = IF v = w THEN x ELSE worker[v]
  BY <1>2, <1>3 DEF OutboxInv, OutboxTypeOK
<1>5. \A f \in DOMAIN outbox : (Enqueued(f)' <=> Enqueued(f)) /\ (Accounted(f) => Accounted(f)')
  BY KeptFacts
<1>6. ASSUME NEW v \in Workers, worker'[v].at # "idle"
      PROVE  \E f \in DOMAIN outbox :
               /\ f = worker'[v].item
               /\ Enqueued(f) /\ \A d \in DOMAIN outbox : (d < f /\ Enqueued(d)) => Accounted(d)
               /\ worker'[v].at = "appended" => Accounted(f)'
  <2>1. CASE v = w
    <3>1. worker'[v] = [at |-> at, item |-> e]
      BY <1>2, <1>4, <1>6, <2>1 DEF IdleWorker
    <3> QED BY <3>1
  <2>2. CASE v # w
    <3>1. worker'[v] = worker[v] /\ worker[v].at # "idle"
      BY <1>4, <1>6, <2>2
    <3>2. PICK f : f = worker[v].item
      OBVIOUS
    <3>3. /\ Enqueued(f) /\ \A d \in DOMAIN outbox : (d < f /\ Enqueued(d)) => Accounted(d)
          /\ worker[v].at = "appended" => Accounted(f)
      BY <3>1, <3>2 DEF OutboxInv, WorkerInv
    <3>4. f \in DOMAIN outbox
      BY <3>3 DEF Enqueued
    <3> QED BY <1>5, <3>1, <3>2, <3>3, <3>4
  <2> QED BY <2>1, <2>2
<1>7. ASSUME NEW v \in Workers, worker'[v].at # "idle"
      PROVE  /\ Enqueued(worker[v].item)'
             /\ \A d \in DOMAIN outbox' : (d < worker'[v].item /\ Enqueued(d)') => Accounted(d)'
             /\ worker'[v].at = "appended" => Accounted(worker[v].item)'
  <2>1. PICK f \in DOMAIN outbox :
               /\ f = worker'[v].item
               /\ Enqueued(f) /\ \A d \in DOMAIN outbox : (d < f /\ Enqueued(d)) => Accounted(d)
               /\ worker'[v].at = "appended" => Accounted(f)'
    BY <1>6, <1>7
  <2>2. f \in Nat
    BY <1>1, Rows
  <2>3. ASSUME NEW d \in DOMAIN outbox', d < f, Enqueued(d)'
        PROVE  Accounted(d)'
    <3>1. d \in Nat
      BY Rows DEF Kept
    <3>2. d \in DOMAIN outbox
      BY <2>2, <2>3, <3>1 DEF Kept
    <3> QED BY <1>5, <2>1, <2>3, <3>2
  <2>4. Enqueued(f)'
    BY <1>5, <2>1
  <2> QED BY <2>1, <2>3, <2>4 DEF Enqueued, Accounted
<1> QED BY <1>4, <1>7 DEF WorkerInv

LEMMA DoctorStays ==
  ASSUME OutboxInv, Kept, UNCHANGED doctor
  PROVE  DoctorInv' /\ (doctor \in DoctorRecord)'
<1>1. doctor' \in DoctorRecord
  BY DEF OutboxInv, DoctorRecord
<1>2. doctor.seen \subseteq Journaled'
  BY DEF Kept, OutboxInv, DoctorInv
<1>3. \A e \in DOMAIN doctor.rows :
        e \in DOMAIN outbox' /\ (doctor.rows[e].status # "none" => Enqueued(e)')
  BY KeptFacts DEF OutboxInv, DoctorInv, Kept
<1>4. ASSUME NEW job \in doctor.todo
      PROVE  Enqueued(job[1])' /\ (job[2] = "mark_delivered" => Accounted(job[1])')
  <2>1. PICK e : e = job[1]
    OBVIOUS
  <2>2. Enqueued(e)' /\ (job[2] = "mark_delivered" => Accounted(e)')
    BY <2>1, KeptFacts DEF OutboxInv, DoctorInv
  <2> QED BY <2>1, <2>2
<1> QED BY <1>1, <1>2, <1>3, <1>4 DEF DoctorInv

-----------------------------------------------------------------------------
(* The steps. *)

\* What OutboxInv says of the types.
LEMMA Types ==
  ASSUME OutboxInv
  PROVE  /\ sink \in [status : {"absent", "enabled", "disabled"}, after : Nat]
         /\ outbox \in Seq(Row) /\ Len(outbox) \in Nat /\ DOMAIN outbox = 1..Len(outbox)
         /\ \A e \in DOMAIN outbox : outbox[e] \in Row /\ e \in Nat /\ 1 <= e
         /\ journal \in [active : SUBSET Nat, cursor : Nat, archived : SUBSET Nat,
                         cursors : SUBSET Nat]
         /\ worker \in [Workers -> [at : {"idle", "leased", "covered", "appended", "failing"},
                                    item : Nat]]
         /\ doctor \in DoctorRecord
         /\ checkpoint \in Nat \cup {None}
<1>1. outbox \in Seq(Row)
  BY DEF OutboxInv, OutboxTypeOK
<1>2. /\ Len(outbox) \in Nat /\ DOMAIN outbox = 1..Len(outbox)
      /\ \A e \in DOMAIN outbox : outbox[e] \in Row /\ e \in Nat /\ 1 <= e
  BY <1>1, Rows
<1> QED BY <1>1, <1>2 DEF OutboxInv, OutboxTypeOK

\* The parts of the invariant put together again.
LEMMA Together ==
  ASSUME OutboxInv, Kept, WorkerInv', DoctorInv', (doctor \in DoctorRecord)',
         sink' \in [status : {"absent", "enabled", "disabled"}, after : Nat],
         journal' \in [active : SUBSET Nat, cursor : Nat, archived : SUBSET Nat,
                       cursors : SUBSET Nat],
         journal'.cursor = 0 \/ journal'.cursor \in journal'.cursors,
         worker' \in [Workers -> [at : {"idle", "leased", "covered", "appended", "failing"},
                                    item : Nat]],
         checkpoint' \in Nat \cup {None}
  PROVE  OutboxInv'
<1>1. OutboxTypeOK'
  BY DEF OutboxTypeOK, Kept, DoctorRecord
<1>2. JournalInv'
  BY PromisesKept DEF JournalInv
<1> QED BY <1>1, <1>2, PromisesKept DEF OutboxInv

\* Time, the ledger and the sink.
LEMMA LedgerSteps ==
  ASSUME OutboxInv, Tick \/ CommitEvent \/ EnsureSink \/ DisableSink
  PROVE  OutboxInv'
<1>1. CASE Tick
  <2>1. doctor.rows \in Seq(Row) /\ doctor \in DoctorRecord
    BY Types DEF DoctorRecord
  <2>2. /\ Aged(doctor.rows) \in Seq(Row) /\ DOMAIN Aged(doctor.rows) = DOMAIN doctor.rows
        /\ \A e \in DOMAIN doctor.rows : Aged(doctor.rows)[e].status = doctor.rows[e].status
    BY <2>1, AgedRows
  <2>3. /\ outbox' \in Seq(Row) /\ DOMAIN outbox' = DOMAIN outbox
        /\ \A e \in DOMAIN outbox : outbox'[e].status = outbox[e].status
    BY <1>1, Types, AgedRows DEF Tick
  <2>4. Kept
    BY <1>1, <2>3 DEF Kept, Tick, Journaled
  <2>5. doctor' = [doctor EXCEPT !.rows = Aged(doctor.rows)]
    BY <1>1 DEF Tick
  <2>6. /\ doctor' \in DoctorRecord /\ doctor'.seen = doctor.seen /\ doctor'.todo = doctor.todo
        /\ doctor'.rows = Aged(doctor.rows)
    BY <2>1, <2>2, <2>5 DEF DoctorRecord
  <2>7. DoctorInv'
    <3>1. doctor'.seen \subseteq Journaled'
      BY <2>4, <2>6 DEF Kept, OutboxInv, DoctorInv
    <3>2. \A e \in DOMAIN doctor'.rows :
            e \in DOMAIN outbox' /\ (doctor'.rows[e].status # "none" => Enqueued(e)')
      BY <2>2, <2>4, <2>6, KeptFacts DEF OutboxInv, DoctorInv, Kept
    <3>3. ASSUME NEW job \in doctor'.todo
          PROVE  Enqueued(job[1])' /\ (job[2] = "mark_delivered" => Accounted(job[1])')
      <4>1. PICK e : e = job[1]
        OBVIOUS
      <4>2. Enqueued(e)' /\ (job[2] = "mark_delivered" => Accounted(e)')
        BY <2>4, <2>6, <3>3, <4>1, KeptFacts DEF OutboxInv, DoctorInv
      <4> QED BY <4>1, <4>2
    <3> QED BY <3>1, <3>2, <3>3 DEF DoctorInv
  <2>8. WorkerInv'
    BY <1>1, <2>4, WorkersStay DEF Tick
  <2> QED BY <1>1, <2>4, <2>6, <2>7, <2>8, Together, Types DEF Tick, OutboxInv, JournalInv
<1>2. CASE CommitEvent
  <2>1. PICK r \in Row : outbox' = Append(outbox, r) /\ r.status # "delivered"
    <3>1. PICK status \in {"pending", "none"} : outbox' = Append(outbox, NewRow(status))
      BY <1>2 DEF CommitEvent
    <3> QED BY <3>1, NewRowType DEF Statuses
  <2>2. /\ outbox' \in Seq(Row) /\ Len(outbox') = Len(outbox) + 1
        /\ \A e \in 1..Len(outbox) : outbox'[e] = outbox[e]
        /\ outbox'[Len(outbox) + 1] = r
    BY <2>1, Types, AppendProperties
  <2>3. DOMAIN outbox' = 1..(Len(outbox) + 1)
    BY <2>2, Rows
  <2>4. Kept
    BY <1>2, <2>1, <2>2, <2>3, Types DEF Kept, CommitEvent, Journaled
  <2>5. WorkerInv' /\ DoctorInv' /\ (doctor \in DoctorRecord)'
    BY <1>2, <2>4, WorkersStay, DoctorStays DEF CommitEvent
  <2> QED BY <1>2, <2>4, <2>5, Together, Types DEF CommitEvent, OutboxInv, JournalInv
<1>3. CASE EnsureSink \/ DisableSink
  <2>1. sink' \in [status : {"absent", "enabled", "disabled"}, after : Nat]
    BY <1>3, Types DEF EnsureSink, DisableSink
  <2>2. UNCHANGED <<outbox, journal, worker, doctor, checkpoint>>
    BY <1>3 DEF EnsureSink, DisableSink
  <2>3. Kept
    BY <2>2, BothStay
  <2>4. WorkerInv' /\ DoctorInv' /\ (doctor \in DoctorRecord)'
    BY <2>2, <2>3, WorkersStay, DoctorStays
  <2> QED BY <2>1, <2>2, <2>3, <2>4, Together, Types DEF OutboxInv, JournalInv
<1> QED BY <1>1, <1>2, <1>3

\* A worker steps: the rows and the journal keep what they keep, and it moves.
LEMMA WorkerMoved ==
  ASSUME OutboxInv, Kept, NEW w \in Workers,
         NEW at \in {"leased", "covered", "appended", "failing"}, NEW e \in DOMAIN outbox,
         At(w, at, e) \/ GoIdle(w),
         Enqueued(e), \A d \in DOMAIN outbox : (d < e /\ Enqueued(d)) => Accounted(d),
         at = "appended" => Accounted(e)',
         journal' \in [active : SUBSET Nat, cursor : Nat, archived : SUBSET Nat,
                       cursors : SUBSET Nat],
         journal'.cursor = 0 \/ journal'.cursor \in journal'.cursors,
         UNCHANGED <<sink, doctor, checkpoint>>
  PROVE  OutboxInv'
<1>1. /\ WorkerInv'
      /\ worker' \in [Workers -> [at : {"idle", "leased", "covered", "appended", "failing"},
                                  item : Nat]]
  BY WorkerMoves
<1>2. DoctorInv' /\ (doctor \in DoctorRecord)'
  BY DoctorStays
<1> QED BY <1>1, <1>2, Together, Types

\* What a worker that is not idle knows of its event.
LEMMA ItemKnown ==
  ASSUME OutboxInv, NEW w \in Workers, worker[w].at # "idle"
  PROVE  /\ worker[w].item \in DOMAIN outbox /\ Enqueued(worker[w].item)
         /\ \A d \in DOMAIN outbox : (d < worker[w].item /\ Enqueued(d)) => Accounted(d)
         /\ worker[w].at = "appended" => Accounted(worker[w].item)
         /\ worker[w].at \in {"leased", "covered", "appended", "failing"}
BY Types DEF OutboxInv, WorkerInv, Enqueued

LEMMA LeaseStep ==
  ASSUME OutboxInv, NEW w \in Workers, Lease(w)
  PROVE  OutboxInv'
<1>1. PICK e \in DOMAIN outbox, left \in Left(LeaseTicks) :
        /\ IsHead(e) /\ Leaseable(e)
        /\ outbox' = [outbox EXCEPT ![e] =
             [status |-> "delivering", wait |-> left, owner |-> OwnerOf[w], error |-> FALSE,
              attempts |-> IF outbox[e].attempts < MaxAttempts THEN outbox[e].attempts + 1
                           ELSE outbox[e].attempts]]
        /\ At(w, "leased", e)
  BY DEF Lease
<1>2. outbox[e] \in Row /\ left \in Nat
  BY Types, OutboxAssumption DEF Left
<1>3. PICK n \in Nat : n = IF outbox[e].attempts < MaxAttempts THEN outbox[e].attempts + 1
                           ELSE outbox[e].attempts
  BY <1>2, OutboxAssumption DEF Row
<1> DEFINE r == [status |-> "delivering", wait |-> left, owner |-> OwnerOf[w], error |-> FALSE,
                 attempts |-> n]
<1>4. r \in Row /\ r.status = "delivering"
  BY <1>2 DEF Row, Statuses
<1>5. outbox' = [outbox EXCEPT ![e] = r]
  BY <1>1, <1>3
<1> HIDE DEF r
<1>6. Enqueued(e)
  BY <1>1 DEF Enqueued, Leaseable
<1>7. ASSUME NEW d \in DOMAIN outbox, d < e, Enqueued(d)
      PROVE  Accounted(d)
  <2>1. outbox[d].status \notin Undelivered /\ outbox[d].status # "none"
    BY <1>1, <1>7 DEF IsHead, Enqueued
  <2>2. outbox[d].status = "delivered"
    BY <2>1, Types DEF Undelivered, Row, Statuses
  <2> QED BY <2>2 DEF OutboxInv, DeliveredIsAccounted
<1>8. UNCHANGED <<sink, journal, doctor, checkpoint>>
  BY DEF Lease
<1>9. Kept
  BY <1>4, <1>5, <1>6, <1>8, RowStep
<1>10. journal.cursor = 0 \/ journal.cursor \in journal.cursors
  BY DEF OutboxInv, JournalInv
<1>11. journal' \in [active : SUBSET Nat, cursor : Nat, archived : SUBSET Nat, cursors : SUBSET Nat]
       /\ (journal'.cursor = 0 \/ journal'.cursor \in journal'.cursors)
  BY <1>8, <1>10, Types
<1> QED BY <1>1, <1>6, <1>7, <1>8, <1>9, <1>11, WorkerMoved

\* JournalAppend and VerifyCoverage.
LEMMA AppendStep ==
  ASSUME OutboxInv, NEW w \in Workers, JournalAppend(w) \/ VerifyCoverage(w)
  PROVE  OutboxInv'
<1>1. PICK e \in DOMAIN outbox :
        /\ e = worker[w].item /\ Enqueued(e)
        /\ \A d \in DOMAIN outbox : (d < e /\ Enqueued(d)) => Accounted(d)
  BY ItemKnown DEF JournalAppend, VerifyCoverage
<1>2. /\ journal \in [active : SUBSET Nat, cursor : Nat, archived : SUBSET Nat,
                      cursors : SUBSET Nat]
      /\ e \in Nat /\ 1 <= e /\ (journal.cursor = 0 \/ journal.cursor \in journal.cursors)
  BY Types DEF OutboxInv, JournalInv
<1>3. e <= journal.cursor => Accounted(e)
  BY <1>2 DEF Accounted
<1>4. UNCHANGED <<sink, outbox, doctor, checkpoint>>
  BY DEF JournalAppend, VerifyCoverage
<1>5. ASSUME NEW at \in {"covered", "appended", "failing"}, At(w, at, e), UNCHANGED journal,
             at = "appended" => Accounted(e)
      PROVE  OutboxInv'
  <2>1. Kept
    BY <1>4, <1>5, BothStay
  <2>2. at = "appended" => Accounted(e)'
    BY <1>5, <2>1, KeptFacts
  <2> QED BY <1>1, <1>2, <1>4, <1>5, <2>1, <2>2, WorkerMoved
<1>6. CASE journal' = [journal EXCEPT !.active = @ \cup {e}] /\ At(w, "appended", e)
  <2>1. /\ journal' \in [active : SUBSET Nat, cursor : Nat, archived : SUBSET Nat,
                         cursors : SUBSET Nat]
        /\ journal'.cursors = journal.cursors /\ journal'.cursor = journal.cursor
        /\ journal'.active = journal.active \cup {e} /\ journal'.archived = journal.archived
    BY <1>2, <1>6
  <2>2. Journaled' = Journaled \cup {e} /\ Accounted(e)'
    BY <2>1 DEF Journaled, Accounted
  <2>3. Kept
    BY <1>1, <1>4, <2>1, <2>2, Types DEF Kept
  <2> QED BY <1>1, <1>2, <1>4, <1>6, <2>1, <2>2, <2>3, WorkerMoved
<1>7. CASE JournalAppend(w)
  <2>1. e \in journal.active => Accounted(e)
    BY DEF Accounted
  <2>2. \/ UNCHANGED journal /\ (At(w, "covered", e) \/ At(w, "failing", e))
        \/ UNCHANGED journal /\ At(w, "appended", e) /\ e \in journal.active
        \/ journal' = [journal EXCEPT !.active = @ \cup {e}] /\ At(w, "appended", e)
    BY <1>1, <1>7 DEF JournalAppend
  <2> QED BY <1>5, <1>6, <2>1, <2>2
<1>8. CASE VerifyCoverage(w)
  <2>1. UNCHANGED journal /\ At(w, IF e <= journal.cursor THEN "appended" ELSE "failing", e)
    BY <1>1, <1>8 DEF VerifyCoverage
  <2> QED BY <1>3, <1>5, <2>1
<1> QED BY <1>7, <1>8

\* The ends of an iteration that write the row: Complete and Fail.
LEMMA SettleStep ==
  ASSUME OutboxInv, NEW w \in Workers, Complete(w) \/ Fail(w)
  PROVE  OutboxInv'
<1>1. PICK e \in DOMAIN outbox :
        /\ e = worker[w].item /\ Enqueued(e)
        /\ \A d \in DOMAIN outbox : (d < e /\ Enqueued(d)) => Accounted(d)
        /\ Complete(w) => Accounted(e)
  BY ItemKnown DEF Complete, Fail
<1>2. outbox[e] \in Row
  BY Types
<1>3. /\ UNCHANGED <<sink, journal, doctor, checkpoint>> /\ GoIdle(w)
      /\ journal \in [active : SUBSET Nat, cursor : Nat, archived : SUBSET Nat, cursors : SUBSET Nat]
      /\ journal.cursor = 0 \/ journal.cursor \in journal.cursors
  BY Types DEF Complete, Fail, OutboxInv, JournalInv
<1>4. PICK r \in Row : /\ outbox' = [outbox EXCEPT ![e] = r] /\ r.status # "none"
                       /\ r.status = "delivered" => Accounted(e)
  <2>1. CASE Complete(w)
    <3> DEFINE r == [NewRow("delivered") EXCEPT !.attempts = outbox[e].attempts]
    <3>1. r \in Row /\ r.status = "delivered"
      BY <1>2 DEF NewRow, Row, Statuses
    <3>2. outbox' = [outbox EXCEPT ![e] = r]
      BY <1>1, <2>1 DEF Complete
    <3> QED BY <1>1, <2>1, <3>1, <3>2
  <2>2. ASSUME NEW status \in {"quarantined", "pending"}, NEW left \in Nat,
               outbox' = [outbox EXCEPT ![e] = [outbox[e] EXCEPT
                 !.status = status, !.wait = left, !.owner = None, !.error = TRUE]]
        PROVE  \E r \in Row : /\ outbox' = [outbox EXCEPT ![e] = r] /\ r.status # "none"
                              /\ r.status = "delivered" => Accounted(e)
    <3> DEFINE r == [outbox[e] EXCEPT !.status = status, !.wait = left, !.owner = None,
                                      !.error = TRUE]
    <3>1. r \in Row /\ r.status = status
      BY <1>2 DEF Row, Statuses
    <3> QED BY <2>2, <3>1
  <2>3. CASE Fail(w)
    <3>1. \/ outbox' = [outbox EXCEPT ![e] = [outbox[e] EXCEPT
               !.status = "quarantined", !.wait = 0, !.owner = None, !.error = TRUE]]
          \/ \E left \in Left(Delay(outbox[e].attempts)) :
               outbox' = [outbox EXCEPT ![e] = [outbox[e] EXCEPT
                 !.status = "pending", !.wait = left, !.owner = None, !.error = TRUE]]
      BY <1>1, <2>3 DEF Fail
    <3>2. \A left \in Left(Delay(outbox[e].attempts)) : left \in Nat
      BY DEF Left
    <3> QED BY <2>2, <3>1, <3>2
  <2> QED BY <2>1, <2>3
<1>5. Kept
  BY <1>1, <1>3, <1>4, RowStep
<1> QED BY <1>1, <1>3, <1>5, WorkerMoved

\* Refusals and deaths.
LEMMA GivingUpStep ==
  ASSUME OutboxInv, NEW w \in Workers, CompleteRefused(w) \/ FailRefused(w) \/ Crash(w)
  PROVE  OutboxInv'
<1>1. PICK e \in DOMAIN outbox :
        /\ e = worker[w].item /\ Enqueued(e)
        /\ \A d \in DOMAIN outbox : (d < e /\ Enqueued(d)) => Accounted(d)
  BY ItemKnown DEF CompleteRefused, FailRefused, Crash
<1>2. /\ UNCHANGED <<sink, outbox, journal, doctor, checkpoint>>
      /\ At(w, "failing", e) \/ GoIdle(w)
      /\ journal \in [active : SUBSET Nat, cursor : Nat, archived : SUBSET Nat, cursors : SUBSET Nat]
      /\ journal.cursor = 0 \/ journal.cursor \in journal.cursors
  BY <1>1, Types DEF CompleteRefused, FailRefused, Crash, OutboxInv, JournalInv
<1>3. Kept
  BY <1>2, BothStay
<1> QED BY <1>1, <1>2, <1>3, WorkerMoved

\* The repair command.
LEMMA DoctorSteps ==
  ASSUME OutboxInv, DoctorScan \/ DoctorList \/ DoctorPlan \/ DoctorRepair \/ DoctorExit
  PROVE  OutboxInv'
<1>1. doctor \in DoctorRecord /\ outbox \in Seq(Row) /\ DoctorInv
  BY Types DEF OutboxInv
<1>2. UNCHANGED <<sink, journal, worker, checkpoint>>
  BY DEF DoctorScan, DoctorList, DoctorPlan, DoctorRepair, DoctorExit
<1>3. ASSUME Kept, DoctorInv', doctor' \in DoctorRecord
      PROVE  OutboxInv'
  BY <1>2, <1>3, WorkersStay, Together, Types DEF OutboxInv, JournalInv
<1>4. IdleDoctor \in DoctorRecord /\ IdleDoctor.seen = {} /\ DOMAIN IdleDoctor.rows = {}
      /\ IdleDoctor.todo = {}
  BY EmptySeq DEF IdleDoctor, DoctorRecord
<1>5. ASSUME UNCHANGED outbox, doctor' \in DoctorRecord,
             doctor'.seen \subseteq Journaled,
             \A e \in DOMAIN doctor'.rows :
               e \in DOMAIN outbox /\ (doctor'.rows[e].status # "none" => Enqueued(e)),
             \A job \in doctor'.todo :
               Enqueued(job[1]) /\ (job[2] = "mark_delivered" => Accounted(job[1]))
      PROVE  OutboxInv'
  <2>1. Kept
    BY <1>2, <1>5, BothStay
  <2>2. DoctorInv'
    BY <1>2, <1>5 DEF DoctorInv, Journaled, Enqueued, Accounted
  <2> QED BY <1>3, <1>5, <2>1, <2>2
<1>6. CASE DoctorScan
  <2>1. doctor' = [doctor EXCEPT !.at = "scanned", !.seen = journal.active] /\ UNCHANGED outbox
    BY <1>6 DEF DoctorScan
  <2>2. /\ doctor' \in DoctorRecord /\ doctor'.seen = journal.active
        /\ doctor'.rows = doctor.rows /\ doctor'.todo = doctor.todo
    BY <1>1, <2>1, Types DEF DoctorRecord
  <2> QED BY <1>1, <1>5, <2>1, <2>2 DEF DoctorInv, Journaled
<1>7. CASE DoctorList
  <2>1. doctor' = [doctor EXCEPT !.at = "listed", !.rows = outbox] /\ UNCHANGED outbox
    BY <1>7 DEF DoctorList
  <2>2. /\ doctor' \in DoctorRecord /\ doctor'.seen = doctor.seen
        /\ doctor'.rows = outbox /\ doctor'.todo = doctor.todo
    BY <1>1, <2>1 DEF DoctorRecord
  <2> QED BY <1>1, <1>5, <2>1, <2>2 DEF DoctorInv, Enqueued
<1>8. CASE DoctorPlan
  <2> DEFINE todo == UNION {{e} \X Repairs(e) : e \in DOMAIN doctor.rows}
  <2>1. doctor' = [IdleDoctor EXCEPT !.at = "repairing", !.todo = todo] /\ UNCHANGED outbox
    BY <1>8 DEF DoctorPlan
  <2>2. ASSUME NEW job \in todo
        PROVE  /\ job \in Nat \X Actions /\ Enqueued(job[1])
               /\ job[2] = "mark_delivered" => Accounted(job[1])
    <3>1. PICK e \in DOMAIN doctor.rows : job \in {e} \X Repairs(e)
      BY <2>2
    <3>2. job[1] = e /\ job[2] \in Repairs(e) /\ job = <<e, job[2]>>
      BY <3>1
    <3>3. e \in DOMAIN outbox /\ (doctor.rows[e].status # "none" => Enqueued(e))
      BY <1>1 DEF DoctorInv
    <3>4. e \in Nat /\ 1 <= e
      BY <3>3, Types
    <3>5. doctor.rows[e].status # "none"
      BY <3>2 DEF Repairs
    <3>6. job[2] \in Actions
      BY <3>2 DEF Repairs
    <3>7. job[2] = "mark_delivered" => Accounted(e)
      <4>1. job[2] = "mark_delivered" => e \in doctor.seen \/ e <= journal.cursor
        BY <3>2 DEF Repairs
      <4>2. e \in doctor.seen => Accounted(e)
        BY <1>1 DEF DoctorInv, Accounted, Journaled
      <4>3. e <= journal.cursor => Accounted(e)
        BY <3>4, Types DEF OutboxInv, JournalInv, Accounted
      <4> QED BY <4>1, <4>2, <4>3
    <3> QED BY <3>2, <3>3, <3>4, <3>5, <3>6, <3>7
  <2>3. todo \in SUBSET (Nat \X Actions)
    BY <2>2
  <2> HIDE DEF todo
  <2>4. /\ doctor' \in DoctorRecord /\ doctor'.seen = {} /\ DOMAIN doctor'.rows = {}
        /\ doctor'.todo = todo
    BY <1>4, <2>1, <2>3 DEF DoctorRecord
  <2> QED BY <1>5, <2>1, <2>2, <2>4
<1>9. CASE DoctorExit
  <2>1. doctor' = IdleDoctor /\ UNCHANGED outbox
    BY <1>9 DEF DoctorExit
  <2> QED BY <1>4, <1>5, <2>1
<1>10. CASE DoctorRepair
  <2>1. PICK job \in doctor.todo :
          IF Repairable(job[1], job[2])
          THEN /\ outbox' = [outbox EXCEPT ![job[1]] = Repaired(job[1], job[2])]
               /\ doctor' = [doctor EXCEPT !.todo = @ \ {job}]
          ELSE outbox' = outbox /\ doctor' = IdleDoctor
    BY <1>10 DEF DoctorRepair
  <2>2. CASE ~Repairable(job[1], job[2])
    BY <1>4, <1>5, <2>1, <2>2
  <2>3. CASE Repairable(job[1], job[2])
    <3>1. PICK e, action :
            /\ e \in DOMAIN outbox /\ e = job[1] /\ action = job[2] /\ Enqueued(e)
            /\ action = "mark_delivered" => Accounted(e)
      BY <1>1 DEF DoctorInv, Enqueued
    <3>2. outbox[e] \in Row
      BY <3>1, Types
    <3>3. PICK r \in Row : /\ outbox' = [outbox EXCEPT ![e] = r] /\ r.status # "none"
                           /\ r.status = "delivered" => Accounted(e)
      <4> DEFINE r == Repaired(e, action)
      <4>1. CASE action # "mark_delivered"
        <5>1. r = NewRow("pending")
          BY <4>1 DEF Repaired
        <5>2. r \in Row /\ r.status = "pending"
          BY <5>1, NewRowType DEF Statuses
        <5> QED BY <2>1, <2>3, <3>1, <5>2
      <4>2. CASE action = "mark_delivered"
        <5>1. r \in Row /\ r.status = "delivered"
          BY <3>2, <4>2 DEF Repaired, NewRow, Row, Statuses
        <5> QED BY <2>1, <2>3, <3>1, <4>2, <5>1
      <4> QED BY <4>1, <4>2
    <3>4. Kept
      BY <1>2, <3>1, <3>3, RowStep
    <3>5. /\ doctor' = [doctor EXCEPT !.todo = doctor.todo \ {job}]
          /\ doctor.todo \in SUBSET (Nat \X Actions)
      BY <1>1, <2>1, <2>3 DEF DoctorRecord
    <3>6. /\ doctor' \in DoctorRecord /\ doctor'.seen = doctor.seen
          /\ doctor'.rows = doctor.rows /\ doctor'.todo \subseteq doctor.todo
      BY <1>1, <3>5 DEF DoctorRecord
    <3>7. DoctorInv'
      <4>1. doctor'.seen \subseteq Journaled'
        BY <1>1, <3>4, <3>6 DEF Kept, DoctorInv
      <4>2. \A f \in DOMAIN doctor'.rows :
              f \in DOMAIN outbox' /\ (doctor'.rows[f].status # "none" => Enqueued(f)')
        BY <1>1, <3>4, <3>6, KeptFacts DEF DoctorInv, Kept
      <4>3. ASSUME NEW other \in doctor'.todo
            PROVE  Enqueued(other[1])' /\ (other[2] = "mark_delivered" => Accounted(other[1])')
        <5>1. PICK f : f = other[1]
          OBVIOUS
        <5>2. Enqueued(f)' /\ (other[2] = "mark_delivered" => Accounted(f)')
          BY <1>1, <3>4, <3>6, <5>1, KeptFacts DEF DoctorInv
        <5> QED BY <5>1, <5>2
      <4> QED BY <4>1, <4>2, <4>3 DEF DoctorInv
    <3> QED BY <1>3, <3>4, <3>6, <3>7
  <2> QED BY <2>2, <2>3
<1> QED BY <1>6, <1>7, <1>8, <1>9, <1>10

\* The checkpoint command.
LEMMA CheckpointSteps ==
  ASSUME OutboxInv, CheckpointRead \/ CheckpointInstall
  PROVE  OutboxInv'
<1>1. UNCHANGED <<sink, outbox, worker, doctor>>
  BY DEF CheckpointRead, CheckpointInstall
<1>2. ASSUME Kept, checkpoint' \in Nat \cup {None},
             journal' \in [active : SUBSET Nat, cursor : Nat, archived : SUBSET Nat,
                           cursors : SUBSET Nat],
             journal'.cursor = 0 \/ journal'.cursor \in journal'.cursors
      PROVE  OutboxInv'
  BY <1>1, <1>2, WorkersStay, DoctorStays, Together, Types
<1>3. CASE CheckpointRead
  <2>1. UNCHANGED journal /\ checkpoint' \in Nat
    BY <1>3, Types DEF CheckpointRead
  <2>2. Kept
    BY <1>1, <2>1, BothStay
  <2> QED BY <1>2, <2>1, <2>2, Types DEF OutboxInv, JournalInv
<1>4. CASE CheckpointInstall
  <2>1. checkpoint \in Nat /\ checkpoint' = None
    BY <1>4, Types DEF CheckpointInstall
  <2>2. journal' = [active |-> {}, cursor |-> checkpoint,
                    archived |-> journal.archived \cup journal.active,
                    cursors |-> journal.cursors \cup {checkpoint}]
    BY <1>4 DEF CheckpointInstall
  <2>3. /\ journal' \in [active : SUBSET Nat, cursor : Nat, archived : SUBSET Nat,
                         cursors : SUBSET Nat]
        /\ journal'.cursor \in journal'.cursors
        /\ journal.cursors \subseteq journal'.cursors /\ Journaled' = Journaled
    BY <2>1, <2>2, Types DEF Journaled
  <2>4. Kept
    BY <1>1, <2>3, Types DEF Kept
  <2> QED BY <1>2, <2>1, <2>3, <2>4
<1> QED BY <1>3, <1>4

-----------------------------------------------------------------------------
(* The theorems. *)

LEMMA OutboxInitially == OutboxInit => OutboxInv
<1> SUFFICES ASSUME OutboxInit PROVE OutboxInv
  OBVIOUS
<1>1. << >> \in Seq(Row) /\ DOMAIN << >> = {}
  BY EmptySeq
<1>2. IdleDoctor \in DoctorRecord /\ IdleDoctor.seen = {} /\ DOMAIN IdleDoctor.rows = {}
      /\ IdleDoctor.todo = {}
  BY <1>1 DEF IdleDoctor, DoctorRecord
<1>3. OutboxTypeOK /\ doctor \in DoctorRecord
  BY <1>1, <1>2 DEF OutboxInit, OutboxTypeOK, IdleWorker, DoctorRecord
<1>4. JournalInv /\ DeliveredIsAccounted /\ JournalHasNoGap
  BY <1>1 DEF OutboxInit, JournalInv, Journaled, DeliveredIsAccounted, JournalHasNoGap
<1>5. WorkerInv /\ DoctorInv
  BY <1>2 DEF OutboxInit, WorkerInv, DoctorInv, IdleWorker
<1> QED BY <1>3, <1>4, <1>5 DEF OutboxInv

LEMMA OutboxInvariant == OutboxSpec => []OutboxInv
<1>1. ASSUME OutboxInv, [OutboxNext]_outboxVars PROVE OutboxInv'
  <2>1. CASE UNCHANGED outboxVars
    <3>1. Kept /\ UNCHANGED <<sink, outbox, journal, worker, doctor, checkpoint>>
      BY <1>1, <2>1, BothStay DEF outboxVars
    <3> QED BY <1>1, <3>1, WorkersStay, DoctorStays, Together, Types DEF OutboxInv, JournalInv
  <2>2. ASSUME NEW w \in Workers, WorkerStep(w) PROVE OutboxInv'
    BY <1>1, <2>2, LeaseStep, AppendStep, SettleStep, GivingUpStep DEF WorkerStep
  <2> QED BY <1>1, <2>1, <2>2, LedgerSteps, DoctorSteps, CheckpointSteps DEF OutboxNext
<1> QED BY <1>1, OutboxInitially, PTL DEF OutboxSpec

\* The rows, the file and what each process holds stay well formed (delivery.ts,
\* journal.ts).
THEOREM OutboxTypes == OutboxSpec => []OutboxTypeOK
<1>1. OutboxInv => OutboxTypeOK
  BY DEF OutboxInv
<1> QED BY <1>1, OutboxInvariant, PTL

\* At least once: no row is acknowledged for an event that neither the journal nor a
\* checkpoint of its chain accounts for, whichever worker dies between the append and the
\* acknowledgement and however old what a repair acts on is (completeDelivery,
\* repairDelivery).
THEOREM AcknowledgedIsAccounted == OutboxSpec => []DeliveredIsAccounted
<1>1. OutboxInv => DeliveredIsAccounted
  BY DEF OutboxInv
<1> QED BY <1>1, OutboxInvariant, PTL

\* In order: the journal never holds an event while an enqueued one before it is missing
\* (findDeliveryHead, appendJournalEvent), although a repair may send an earlier one
\* again and a worker may go on after its lease has run out.
THEOREM JournalIsGapless == OutboxSpec => []JournalHasNoGap
<1>1. OutboxInv => JournalHasNoGap
  BY DEF OutboxInv
<1> QED BY <1>1, OutboxInvariant, PTL

-----------------------------------------------------------------------------
(* The outbox implements an ordered delivery. *)

\* A checkpoint covers committed events only.
CursorsFit ==
  /\ \A c \in journal.cursors : c <= Len(outbox)
  /\ checkpoint # None => checkpoint <= Len(outbox)

\* What a step does to the statuses of the rows and to the journal: an event is
\* committed, the row of an enqueued one is written, time passes, or the journal is
\* written and forgets nothing.
Commits ==
  /\ \E r \in Row : outbox' = Append(outbox, r) /\ r.status # "delivered"
  /\ UNCHANGED journal

WritesRow ==
  /\ \E e \in DOMAIN outbox :
       /\ outbox[e].status # "none" /\ outbox'[e].status # "none"
       /\ \A d \in DOMAIN outbox : d # e => outbox'[d].status = outbox[d].status
  /\ DOMAIN outbox' = DOMAIN outbox /\ UNCHANGED journal

StatusesStay ==
  /\ \A e \in DOMAIN outbox : outbox'[e].status = outbox[e].status
  /\ DOMAIN outbox' = DOMAIN outbox /\ UNCHANGED journal

WritesJournal ==
  /\ Journaled \subseteq Journaled' /\ journal.cursors \subseteq journal'.cursors
  /\ \A c \in journal'.cursors : c \in journal.cursors \/ c = checkpoint
  /\ checkpoint = None => journal'.cursors = journal.cursors
  /\ UNCHANGED outbox

LEMMA OneRowWritten ==
  ASSUME OutboxInv, NEW e \in DOMAIN outbox, NEW r, outbox[e].status # "none", r.status # "none",
         outbox' = [outbox EXCEPT ![e] = r], UNCHANGED journal
  PROVE  WritesRow
<1>1. outbox \in Seq(Row)
  BY Types
<1>2. /\ DOMAIN outbox' = DOMAIN outbox
      /\ \A d \in DOMAIN outbox : outbox'[d] = IF d = e THEN r ELSE outbox[d]
  BY <1>1, Types
<1> QED BY <1>2 DEF WritesRow

LEMMA WorkerWrites ==
  ASSUME OutboxInv, NEW w \in Workers, WorkerStep(w)
  PROVE  WritesRow \/ StatusesStay \/ WritesJournal
<1>1. CASE Lease(w)
  <2>1. PICK e \in DOMAIN outbox, left \in Left(LeaseTicks) :
          /\ Leaseable(e)
          /\ outbox' = [outbox EXCEPT ![e] =
               [status |-> "delivering", wait |-> left, owner |-> OwnerOf[w], error |-> FALSE,
                attempts |-> IF outbox[e].attempts < MaxAttempts THEN outbox[e].attempts + 1
                             ELSE outbox[e].attempts]]
    BY <1>1 DEF Lease
  <2> QED BY <1>1, <2>1, OneRowWritten DEF Lease, Leaseable
<1>2. CASE JournalAppend(w)
  <2>1. PICK e : e = worker[w].item
    OBVIOUS
  <2>2. /\ UNCHANGED <<outbox, checkpoint>>
        /\ UNCHANGED journal \/ journal' = [journal EXCEPT !.active = journal.active \cup {e}]
    BY <1>2, <2>1 DEF JournalAppend
  <2>3. /\ journal'.archived = journal.archived /\ journal.active \subseteq journal'.active
        /\ journal'.cursors = journal.cursors
    BY <2>2, Types
  <2> QED BY <2>2, <2>3 DEF WritesJournal, Journaled
<1>3. CASE UNCHANGED <<outbox, journal>>
  BY <1>3 DEF StatusesStay
<1>4. CASE Complete(w)
  <2>1. PICK e \in DOMAIN outbox : e = worker[w].item /\ Enqueued(e)
    BY <1>4, ItemKnown DEF Complete
  <2>2. PICK r : r = [NewRow("delivered") EXCEPT !.attempts = outbox[e].attempts]
    OBVIOUS
  <2>3. r.status = "delivered"
    BY <2>2 DEF NewRow
  <2>4. outbox' = [outbox EXCEPT ![e] = r]
    BY <1>4, <2>1, <2>2 DEF Complete
  <2> QED BY <1>4, <2>1, <2>3, <2>4, OneRowWritten DEF Complete, Enqueued
<1>5. CASE Fail(w)
  <2>1. PICK e \in DOMAIN outbox : e = worker[w].item /\ Enqueued(e)
    BY <1>5, ItemKnown DEF Fail
  <2>2. PICK status \in {"quarantined", "pending"} :
          \E left : outbox' = [outbox EXCEPT ![e] = [outbox[e] EXCEPT
            !.status = status, !.wait = left, !.owner = None, !.error = TRUE]]
    BY <1>5, <2>1 DEF Fail
  <2>3. PICK left :
          outbox' = [outbox EXCEPT ![e] = [outbox[e] EXCEPT
            !.status = status, !.wait = left, !.owner = None, !.error = TRUE]]
    BY <2>2
  <2>4. PICK r : r = [outbox[e] EXCEPT !.status = status, !.wait = left, !.owner = None,
                                       !.error = TRUE]
    OBVIOUS
  <2>5. r.status = status
    BY <2>4, Types DEF Row
  <2> QED BY <1>5, <2>1, <2>3, <2>4, <2>5, OneRowWritten DEF Fail, Enqueued
<1> QED BY <1>1, <1>2, <1>3, <1>4, <1>5
        DEF WorkerStep, VerifyCoverage, CompleteRefused, FailRefused, Crash

LEMMA OneThingAtATime ==
  ASSUME OutboxInv, OutboxNext
  PROVE  Commits \/ WritesRow \/ StatusesStay \/ WritesJournal
<1>1. CASE CommitEvent
  <2>1. PICK status \in {"pending", "none"} : outbox' = Append(outbox, NewRow(status))
    BY <1>1 DEF CommitEvent
  <2>2. NewRow(status) \in Row /\ NewRow(status).status # "delivered"
    BY NewRowType DEF Statuses
  <2> QED BY <1>1, <2>1, <2>2 DEF CommitEvent, Commits
<1>2. CASE Tick
  BY <1>2, AgedRows, Types DEF Tick, StatusesStay
<1>3. CASE UNCHANGED <<outbox, journal>>
  BY <1>3 DEF StatusesStay
<1>4. CASE DoctorRepair
  <2>1. PICK job \in doctor.todo :
          \/ outbox' = [outbox EXCEPT ![job[1]] = Repaired(job[1], job[2])]
          \/ outbox' = outbox
    BY <1>4 DEF DoctorRepair
  <2>2. PICK e \in DOMAIN outbox : e = job[1] /\ Enqueued(e)
    BY DEF OutboxInv, DoctorInv, Enqueued
  <2>3. PICK r : r = Repaired(e, job[2])
    OBVIOUS
  <2>4. r.status # "none"
    BY <2>2, <2>3 DEF Repaired, NewRow, Enqueued
  <2> QED BY <1>3, <1>4, <2>1, <2>2, <2>3, <2>4, OneRowWritten DEF DoctorRepair, Enqueued
<1>5. CASE CheckpointInstall
  <2>1. /\ UNCHANGED outbox /\ checkpoint # None
        /\ journal' = [active |-> {}, cursor |-> checkpoint,
                       archived |-> journal.archived \cup journal.active,
                       cursors |-> journal.cursors \cup {checkpoint}]
    BY <1>5 DEF CheckpointInstall
  <2> QED BY <2>1 DEF WritesJournal, Journaled
<1>6. CASE EnsureSink \/ DisableSink \/ DoctorScan \/ DoctorList \/ DoctorPlan \/ DoctorExit
           \/ CheckpointRead
  BY <1>3, <1>6 DEF EnsureSink, DisableSink, DoctorScan, DoctorList, DoctorPlan, DoctorExit,
                    CheckpointRead
<1> QED BY <1>1, <1>2, <1>4, <1>5, <1>6, WorkerWrites DEF OutboxNext

LEMMA RowsOnlyGrow ==
  ASSUME OutboxInv, OutboxInv', Commits \/ WritesRow \/ StatusesStay \/ WritesJournal
  PROVE  Len(outbox') \in Nat /\ Len(outbox) \in Nat /\ Len(outbox) <= Len(outbox')
<1>1. /\ Len(outbox) \in Nat /\ DOMAIN outbox = 1..Len(outbox)
      /\ Len(outbox') \in Nat /\ DOMAIN outbox' = 1..Len(outbox')
  <2>1. outbox \in Seq(Row) /\ outbox' \in Seq(Row)
    BY DEF OutboxInv, OutboxTypeOK
  <2> QED BY <2>1, Rows
<1>2. CASE Commits
  BY <1>1, <1>2, Types, AppendProperties DEF Commits
<1>3. CASE DOMAIN outbox' = DOMAIN outbox
  BY <1>1, <1>3
<1> QED BY <1>2, <1>3 DEF WritesRow, StatusesStay, WritesJournal

LEMMA CursorsStep ==
  ASSUME OutboxInv, OutboxInv', CursorsFit, OutboxNext
  PROVE  CursorsFit'
<1>1. /\ Commits \/ WritesRow \/ StatusesStay \/ WritesJournal
      /\ Len(outbox') \in Nat /\ Len(outbox) \in Nat /\ Len(outbox) <= Len(outbox')
  BY OneThingAtATime, RowsOnlyGrow
<1>2. \A c \in journal'.cursors : c \in journal.cursors \/ (checkpoint # None /\ c = checkpoint)
  BY <1>1 DEF Commits, WritesRow, StatusesStay, WritesJournal
<1>3. checkpoint' = checkpoint \/ checkpoint' = None \/ checkpoint' = Len(outbox)
  BY DEF OutboxNext, WorkerStep, Tick, CommitEvent, EnsureSink, DisableSink, Lease, JournalAppend,
         VerifyCoverage, Complete, CompleteRefused, Fail, FailRefused, Crash, DoctorScan,
         DoctorList, DoctorPlan, DoctorRepair, DoctorExit, CheckpointRead, CheckpointInstall
<1>4. /\ \A c \in journal.cursors : c \in Nat
      /\ checkpoint # None => checkpoint \in Nat
  BY Types
<1>5. ASSUME NEW c \in Nat, c <= Len(outbox)
      PROVE  c <= Len(outbox')
  BY <1>1, <1>5
<1>6. \A c \in journal'.cursors : c <= Len(outbox')
  BY <1>2, <1>4, <1>5 DEF CursorsFit
<1>7. checkpoint' # None => checkpoint' <= Len(outbox')
  BY <1>1, <1>3, <1>4, <1>5 DEF CursorsFit
<1> QED BY <1>6, <1>7 DEF CursorsFit

\* The journal accounts for all that is enqueued before an event it accounts for.
LEMMA AccountedIsPrefix ==
  ASSUME OutboxInv, NEW e \in Owed, NEW d \in Owed, Accounted(e), d < e
  PROVE  Accounted(d)
<1>1. e \in Nat /\ d \in Nat /\ outbox[d].status # "none" /\ d \in DOMAIN outbox
  BY Types DEF Owed
<1>2. CASE e \in Journaled
  BY <1>1, <1>2 DEF OutboxInv, JournalHasNoGap, Journaled
<1>3. CASE \E c \in journal.cursors : e <= c
  <2>1. PICK c \in journal.cursors : e <= c
    BY <1>3
  <2>2. d <= c
    BY <1>1, <2>1, Types
  <2> QED BY <2>1, <2>2 DEF Accounted
<1> QED BY <1>2, <1>3 DEF Accounted, Journaled

Recorded == {e \in Owed : Accounted(e)}
Believed == {e \in Owed : outbox[e].status = "delivered"}

LEMMA BelievedIsRecorded ==
  ASSUME OutboxInv
  PROVE  Believed \subseteq Recorded /\ Recorded \subseteq Owed /\ Owed \subseteq Nat
BY Types DEF OutboxInv, DeliveredIsAccounted, Believed, Recorded, Owed

LEMMA OwingStep ==
  ASSUME OutboxInv, OutboxInv', CursorsFit, Commits
  PROVE  Delivery!Owe \/ UNCHANGED Delivery!deliveryVars
<1>1. PICK r \in Row : outbox' = Append(outbox, r) /\ r.status # "delivered"
  BY DEF Commits
<1>2. PICK n \in Nat : n = Len(outbox)
  BY Types
<1>3. /\ Len(outbox') = n + 1 /\ \A e \in 1..n : outbox'[e] = outbox[e]
      /\ outbox'[n + 1] = r
  BY <1>1, <1>2, Types, AppendProperties
<1>4. DOMAIN outbox = 1..n /\ DOMAIN outbox' = 1..(n + 1)
  <2>1. outbox' \in Seq(Row)
    BY DEF OutboxInv, OutboxTypeOK
  <2> QED BY <1>2, <1>3, <2>1, Rows, Types
<1>5. \A e : Accounted(e)' <=> Accounted(e)
  BY DEF Accounted, Commits
<1>6. \A e \in 1..(n + 1) : e \in 1..n \/ e = n + 1
  BY <1>2
<1>7. n + 1 \notin 1..n /\ n + 1 \in 1..(n + 1) /\ \A e \in 1..n : e \in 1..(n + 1) /\ e < n + 1
  BY <1>2
<1>8. Owed' = Owed \cup (IF r.status = "none" THEN {} ELSE {n + 1})
  BY <1>3, <1>4, <1>6, <1>7 DEF Owed
<1>9. ~Accounted(n + 1)
  <2>1. n + 1 \notin Journaled
    BY <1>4, <1>7 DEF OutboxInv, JournalInv
  <2>2. \A c \in journal.cursors : c \in Nat /\ ~(n + 1 <= c)
    BY <1>2, Types DEF CursorsFit
  <2> QED BY <2>1, <2>2 DEF Accounted, Journaled
<1>10. Recorded' = Recorded
  BY <1>5, <1>8, <1>9 DEF Recorded
<1>11. Believed' = Believed
  BY <1>1, <1>3, <1>4, <1>7, <1>8 DEF Believed, Owed
<1>12. n + 1 \notin Owed /\ \A d \in Owed : d < n + 1
  BY <1>4, <1>7 DEF Owed
<1> QED BY <1>8, <1>10, <1>11, <1>12 DEF Recorded, Believed, Delivery!Owe, Delivery!deliveryVars

LEMMA RowStepSettles ==
  ASSUME OutboxInv, OutboxInv', WritesRow
  PROVE  Delivery!Settle \/ UNCHANGED Delivery!deliveryVars
<1>1. PICK e \in DOMAIN outbox :
        /\ outbox[e].status # "none" /\ outbox'[e].status # "none"
        /\ \A d \in DOMAIN outbox : d # e => outbox'[d].status = outbox[d].status
  BY DEF WritesRow
<1>2. DOMAIN outbox' = DOMAIN outbox
  BY DEF WritesRow
<1>3. \A d : Accounted(d)' <=> Accounted(d)
  BY DEF Accounted, WritesRow
<1>4. Owed' = Owed /\ e \in Owed
  BY <1>1, <1>2 DEF Owed
<1>5. Recorded' = Recorded
  BY <1>3, <1>4 DEF Recorded
<1>6. \A d \in Owed : d # e => (d \in Believed' <=> d \in Believed)
  BY <1>1, <1>4 DEF Believed, Owed
<1>7. Believed \subseteq Recorded /\ Believed' \subseteq Recorded /\ Believed \subseteq Owed
      /\ Believed' \subseteq Owed
  <2>1. (Believed \subseteq Recorded)'
    BY DEF OutboxInv, DeliveredIsAccounted, Believed, Recorded, Owed
  <2> QED BY <1>4, <1>5, <2>1, BelievedIsRecorded DEF Believed
<1>8. CASE e \in Believed \/ e \in Believed'
  <2>1. e \in Recorded
    BY <1>7, <1>8
  <2>2. Believed' \in {Believed \cup {e}, Believed \ {e}}
    BY <1>6, <1>7, <1>8
  <2> QED BY <1>4, <1>5, <2>1, <2>2 DEF Recorded, Believed, Delivery!Settle
<1>9. CASE e \notin Believed /\ e \notin Believed'
  <2>1. Believed' = Believed
    BY <1>6, <1>7, <1>9
  <2> QED BY <1>4, <1>5, <2>1 DEF Recorded, Believed, Delivery!deliveryVars
<1> QED BY <1>8, <1>9

LEMMA JournalStepAccounts ==
  ASSUME OutboxInv, OutboxInv', WritesJournal
  PROVE  Delivery!Account
<1>1. Owed' = Owed /\ Believed' = Believed
  BY DEF WritesJournal, Owed, Believed
<1>2. \A e : Accounted(e) => Accounted(e)'
  BY DEF WritesJournal, Accounted, Journaled
<1>3. Recorded \subseteq Recorded' /\ Recorded' \subseteq Owed
  BY <1>1, <1>2 DEF Recorded
<1>4. ASSUME NEW e \in Recorded', NEW d \in Owed, d < e
      PROVE  d \in Recorded'
  <2>1. e \in Owed' /\ d \in Owed' /\ Accounted(e)'
    BY <1>1, <1>4 DEF Recorded
  <2>2. e \in Nat /\ d \in Nat /\ outbox'[d].status # "none" /\ d \in DOMAIN outbox'
    BY <1>1, <2>1, BelievedIsRecorded DEF Owed
  <2>3. CASE e \in Journaled'
    BY <1>4, <2>2, <2>3 DEF OutboxInv, JournalHasNoGap, Journaled, Recorded, Accounted, Owed
  <2>4. CASE \E c \in journal'.cursors : e <= c
    <3>1. PICK c \in journal'.cursors : e <= c
      BY <2>4
    <3>2. c \in Nat
      BY DEF OutboxInv, OutboxTypeOK
    <3>3. d <= c
      BY <1>4, <2>2, <3>1, <3>2
    <3> QED BY <2>1, <3>1, <3>3 DEF Recorded, Accounted
  <2> QED BY <2>1, <2>3, <2>4 DEF Accounted, Journaled
<1> QED BY <1>1, <1>3, <1>4 DEF Recorded, Believed, Delivery!Account

LEMMA OutboxStepIsDeliveryStep ==
  ASSUME OutboxInv, OutboxInv', CursorsFit, [OutboxNext]_outboxVars
  PROVE  [Delivery!DeliveryNext]_(Delivery!deliveryVars)
<1>1. CASE StatusesStay \/ UNCHANGED outboxVars
  <2>1. /\ DOMAIN outbox' = DOMAIN outbox /\ UNCHANGED journal
        /\ \A e \in DOMAIN outbox : outbox'[e].status = outbox[e].status
    BY <1>1 DEF StatusesStay, outboxVars
  <2>2. Owed' = Owed /\ Believed' = Believed
    BY <2>1 DEF Owed, Believed
  <2>3. Recorded' = Recorded
    BY <2>1, <2>2 DEF Recorded, Accounted
  <2> QED BY <2>2, <2>3 DEF Recorded, Believed, Delivery!deliveryVars
<1> QED BY <1>1, OneThingAtATime, OwingStep, RowStepSettles, JournalStepAccounts
        DEF Delivery!DeliveryNext

LEMMA CursorsAlwaysFit == OutboxSpec => []CursorsFit
<1>1. OutboxInit => CursorsFit
  BY DEF OutboxInit, CursorsFit
<1>2. OutboxInv /\ OutboxInv' /\ CursorsFit /\ [OutboxNext]_outboxVars => CursorsFit'
  <2>1. UNCHANGED outboxVars /\ CursorsFit => CursorsFit'
    BY DEF outboxVars, CursorsFit
  <2> QED BY <2>1, CursorsStep
<1> QED BY <1>1, <1>2, OutboxInvariant, PTL DEF OutboxSpec

\* Every history of the rows and of the journal is one of the abstract ordered delivery:
\* for any number of drains, owners and maintenance commands, whoever dies between the
\* append and the acknowledgement, the journal takes the events in their order and none
\* is acknowledged before it did (leaseNextDelivery, appendJournalEvent,
\* completeDelivery, repairDelivery, checkpointJournal).
THEOREM OutboxImplementsOrderedDelivery == OutboxSpec => ImplementsOrderedDelivery
<1>1. OutboxInit => Delivery!DeliveryInit
  <2>1. OutboxInit => DOMAIN outbox = {}
    BY EmptySeq DEF OutboxInit
  <2> QED BY <2>1 DEF Delivery!DeliveryInit, Owed
<1> QED BY <1>1, OutboxStepIsDeliveryStep, OutboxInvariant, CursorsAlwaysFit, PTL
        DEF OutboxSpec, ImplementsOrderedDelivery, Delivery!DeliverySpec

\* So a receiver that reads the journal sees every enqueued event up to the last it
\* finds, in order and for good, and the ledger believes nothing delivered that is not
\* there.
THEOREM OutboxKeepsDeliveryPromises ==
  OutboxSpec => Delivery!InOrder /\ []Delivery!NothingSkipped
<1>1. OutboxInv => Delivery!NothingSkipped
  <2> SUFFICES ASSUME OutboxInv PROVE Delivery!NothingSkipped
    OBVIOUS
  <2>1. \A e \in Recorded, d \in Owed : d < e => d \in Recorded
    BY AccountedIsPrefix DEF Recorded
  <2> QED BY <2>1, BelievedIsRecorded DEF Recorded, Believed, Delivery!NothingSkipped
<1> DEFINE Orderly ==
             /\ Recorded \subseteq Recorded'
             /\ \A e \in Recorded' \ Recorded, d \in Recorded : d < e
<1>2. ASSUME OutboxInv, Delivery!DeliveryNext
      PROVE  Orderly
  <2>1. \A e \in Recorded, d \in Owed : d < e => d \in Recorded
    BY <1>2, AccountedIsPrefix DEF Recorded
  <2>2. Recorded \subseteq Owed /\ Owed \subseteq Nat
    BY <1>2, BelievedIsRecorded
  <2>3. CASE Delivery!Account
    <3>1. Recorded \subseteq Recorded' /\ Recorded' \subseteq Owed
      BY <2>3 DEF Delivery!Account, Recorded
    <3>2. ASSUME NEW e \in Recorded' \ Recorded, NEW d \in Recorded
          PROVE  d < e
      <4>1. e \in Nat /\ d \in Nat /\ e \in Owed /\ ~(e < d) /\ e # d
        BY <2>1, <2>2, <3>1, <3>2
      <4> QED BY <4>1
    <3> QED BY <3>1, <3>2
  <2>4. CASE Delivery!Owe \/ Delivery!Settle
    <3>1. Recorded' = Recorded
      BY <2>4 DEF Delivery!Owe, Delivery!Settle, Recorded
    <3> QED BY <3>1
  <2> QED BY <1>2, <2>3, <2>4 DEF Delivery!DeliveryNext
<1>3. Delivery!InOrder <=> [][Orderly]_(Delivery!deliveryVars)
  BY DEF Delivery!InOrder, Recorded
<1> HIDE DEF Orderly
<1>4. OutboxInv /\ OutboxInv' /\ CursorsFit /\ [OutboxNext]_outboxVars =>
        [Orderly]_(Delivery!deliveryVars)
  BY <1>2, OutboxStepIsDeliveryStep
<1> QED BY <1>1, <1>3, <1>4, OutboxInvariant, CursorsAlwaysFit, PTL DEF OutboxSpec

-----------------------------------------------------------------------------
(* Replication: the invariant. *)

Elements(s) == {s[i] : i \in DOMAIN s}
IsSequence(s) == s \in Seq(Elements(s))

IsGeneration(g) == g \in [status : {"absent", "active", "stale"}, accepted : {g.accepted},
                          acknowledged : Nat]

\* An authority's database and a replica's own.
AuthorityShape ==
  /\ authority \in [epoch : Nat, log : {authority.log}, floor : Nat, data : {authority.data},
                    replica : {authority.replica}]
  /\ IsSequence(authority.log)
  /\ authority.replica = [r \in Replicas |-> authority.replica[r]]
  /\ \A r \in Replicas : IsGeneration(authority.replica[r])

LocalShape ==
  /\ local = [r \in Replicas |-> local[r]]
  /\ \A r \in Replicas :
       local[r] \in [epoch : Nat, observed : {local[r].observed}, next : Nat,
                     previous : {local[r].previous}, retired : {local[r].retired}]
  /\ outgoing = [r \in Replicas |-> outgoing[r]]
  /\ \A r \in Replicas : IsSequence(outgoing[r])

\* Data in which what is retired is gone: the authority's, and what it would restore.
Sound(d) ==
  /\ d \in [records : {d.records}, retired : SUBSET Records]
  /\ d.records = [x \in Records |-> d.records[x]]
  /\ \A x \in d.retired : d.records[x] = Absent

DataInv ==
  /\ Sound(authority.data)
  /\ \A i \in DOMAIN authority.log : Sound(authority.log[i].data)

\* What the authority takes for the last operation of r is the last one in its log.
FrontierFits(r) ==
  \/ RowsOf(r) = {} /\ authority.replica[r].accepted = Genesis
  \/ \E i \in RowsOf(r) : /\ \A j \in RowsOf(r) : j <= i
                          /\ authority.replica[r].accepted = authority.log[i].op

FrontierInv == EachDotOnceInOrder /\ \A r \in Replicas : FrontierFits(r)

\* The log has the operation of a result, at its number, with its disposition.
Agrees(result) ==
  /\ result.sequence \in DOMAIN authority.log
  /\ authority.log[result.sequence].op = result.op
  /\ authority.log[result.sequence].disposition = result.disposition

\* The results of a push, so far and in the reply, are those of the log, unless the
\* replica is of an earlier epoch.
ResultsHold(m) ==
  /\ IsSequence(m.results)
  /\ local[m.replica].epoch # 0
  /\ local[m.replica].epoch = authority.epoch => \A i \in DOMAIN m.results : Agrees(m.results[i])

NetworkInv ==
  \A m \in network :
    /\ m.kind \in {"push", "reply", "snapshot"} /\ m.replica \in Replicas
    /\ m.kind \in {"push", "reply"} => ResultsHold(m)
    /\ m.kind = "push" => m \in [kind : {"push"}, replica : {m.replica}, results : {m.results},
                                 ops : {m.ops}]

\* A replica that has joined no authority has queued nothing; no one is ahead of the
\* authority's epoch.
EpochInv ==
  \A r \in Replicas :
    /\ local[r].epoch <= authority.epoch
    /\ local[r].epoch = 0 => DOMAIN outgoing[r] = {}

ReplicationInv ==
  /\ AuthorityShape /\ LocalShape
  /\ DataInv /\ FrontierInv /\ NetworkInv /\ EpochInv /\ DecisionsAgreeWithTheLog
  /\ 1 <= authority.epoch

-----------------------------------------------------------------------------
(* Sequences whose elements are in no set that can be written down, and numbers. *)

LEMMA SequenceFacts ==
  ASSUME NEW s, IsSequence(s)
  PROVE  Len(s) \in Nat /\ DOMAIN s = 1..Len(s)
BY LenProperties DEF IsSequence

LEMMA ASequence ==
  ASSUME NEW s, NEW n \in Nat, s = [i \in 1..n |-> s[i]]
  PROVE  IsSequence(s) /\ DOMAIN s = 1..n
<1>1. DOMAIN s = 1..n
  OBVIOUS
<1>2. \A i \in 1..n : s[i] \in Elements(s)
  BY <1>1 DEF Elements
<1>3. s \in Seq(Elements(s))
  BY <1>2, IsASeq
<1> QED BY <1>1, <1>3 DEF IsSequence

LEMMA SequenceOver ==
  ASSUME NEW S, NEW s \in Seq(S)
  PROVE  IsSequence(s)
<1>1. s \in [1..Len(s) -> S] /\ Len(s) \in Nat
  BY LenProperties
<1>2. s = [i \in 1..Len(s) |-> s[i]]
  BY <1>1
<1> QED BY <1>1, <1>2, ASequence

LEMMA EmptySequence == IsSequence(<< >>) /\ DOMAIN << >> = {}
<1>1. PICK s : s = << >> /\ s \in Seq({}) /\ Len(s) = 0
  BY EmptySeq
<1>2. IsSequence(s)
  BY <1>1, SequenceOver
<1>3. DOMAIN s = 1..0
  BY <1>1, LenProperties
<1> QED BY <1>1, <1>2, <1>3

LEMMA AppendedSequence ==
  ASSUME NEW s, IsSequence(s), NEW x
  PROVE  /\ IsSequence(Append(s, x)) /\ DOMAIN Append(s, x) = 1..(Len(s) + 1)
         /\ \A i \in DOMAIN s : i \in DOMAIN Append(s, x) /\ Append(s, x)[i] = s[i]
         /\ Append(s, x)[Len(s) + 1] = x
<1> DEFINE S == Elements(s) \cup {x}
<1>1. s \in Seq(S) /\ x \in S
  BY SeqMonotonic DEF IsSequence
<1> HIDE DEF S
<1>2. /\ Append(s, x) \in Seq(S) /\ Len(Append(s, x)) = Len(s) + 1
      /\ \A i \in 1..Len(s) : Append(s, x)[i] = s[i]
      /\ Append(s, x)[Len(s) + 1] = x
  BY <1>1, AppendProperties
<1>3. Len(s) \in Nat /\ DOMAIN s = 1..Len(s)
  BY SequenceFacts
<1>4. IsSequence(Append(s, x)) /\ DOMAIN Append(s, x) = 1..(Len(s) + 1)
  BY <1>2, LenProperties, SequenceOver
<1> QED BY <1>2, <1>3, <1>4

LEMMA LeastNumber ==
  ASSUME NEW S \in SUBSET Nat, S # {}
  PROVE  \E n \in S : \A m \in S : n <= m
<1>1. PICK n \in S : \A m \in S : ~(<<m, n>> \in OpToRel(<, Nat))
  BY NatLessThanWellFounded, WFMin
<1>2. \A m \in S : ~(m < n)
  BY <1>1 DEF OpToRel
<1> QED BY <1>2

LEMMA GreatestNumber ==
  ASSUME NEW n \in Nat, NEW S \in SUBSET (1..n), S # {}
  PROVE  \E i \in S : \A j \in S : j <= i
<1> DEFINE T == {k \in Nat : n - k \in S}
<1>1. T \in SUBSET Nat /\ T # {}
  <2>1. PICK i \in S : i \in 1..n
    OBVIOUS
  <2>2. n - i \in Nat /\ n - (n - i) = i
    BY <2>1
  <2>3. n - i \in T
    BY <2>2
  <2> QED BY <2>3
<1>2. PICK k \in T : \A l \in T : k <= l
  BY <1>1, LeastNumber
<1>3. ASSUME NEW j \in S
      PROVE  j <= n - k
  <2>1. n - j \in Nat /\ n - (n - j) = j
    OBVIOUS
  <2>2. k <= n - j
    BY <1>2, <2>1
  <2> QED BY <1>2, <2>1, <2>2
<1> QED BY <1>2, <1>3

-----------------------------------------------------------------------------
(* The authority. *)

AuthorityInv == AuthorityShape /\ DataInv /\ FrontierInv /\ 1 <= authority.epoch

\* What the authority does to its log: nothing, one more row, or a recovery.
LogStays ==
  /\ authority'.epoch = authority.epoch /\ authority'.log = authority.log
  /\ \A r \in Replicas : authority'.replica[r].accepted = authority.replica[r].accepted

Accepts(op) ==
  /\ authority'.epoch = authority.epoch /\ op.epoch = authority.epoch
  /\ op.origin \in Replicas => Succeeds(op)
  /\ \E disposition, data :
       authority'.log = Append(authority.log, [op |-> op, disposition |-> disposition, data |-> data])
  /\ \A r \in Replicas : authority'.replica[r].accepted =
       IF r = op.origin THEN op ELSE authority.replica[r].accepted

Recovers(n) ==
  /\ authority'.epoch = authority.epoch + 1
  /\ authority'.log = SubSeq(authority.log, 1, n)
  /\ \A r \in Replicas : authority'.replica[r].accepted = FrontierAt(r, n)

LogStep ==
  \/ LogStays \/ \E op : Accepts(op)
  \/ \E n \in 0..CurrentSequence : Recovers(n)

\* The rows of the log, and those of one generation.
LEMMA LogRows ==
  ASSUME AuthorityShape
  PROVE  /\ Len(authority.log) \in Nat /\ DOMAIN authority.log = 1..Len(authority.log)
         /\ \A r : RowsOf(r) = {i \in 1..Len(authority.log) : authority.log[i].op.origin = r}
         /\ \A r : IsFiniteSet(RowsOf(r)) /\ Cardinality(RowsOf(r)) \in Nat
<1>1. Len(authority.log) \in Nat /\ DOMAIN authority.log = 1..Len(authority.log)
  BY SequenceFacts DEF AuthorityShape
<1>2. ASSUME NEW r
      PROVE  IsFiniteSet(RowsOf(r)) /\ Cardinality(RowsOf(r)) \in Nat
  <2>1. RowsOf(r) \in SUBSET (1..Len(authority.log))
    BY <1>1 DEF RowsOf
  <2>2. IsFiniteSet(1..Len(authority.log))
    BY <1>1, FS_Interval
  <2> QED BY <2>1, <2>2, FS_Subset, FS_CardinalityType
<1> QED BY <1>1, <1>2 DEF RowsOf

\* The counter of the last operation of a generation counts its rows.
LEMMA RowsCounted ==
  ASSUME AuthorityShape, FrontierInv, NEW r \in Replicas
  PROVE  Cardinality(RowsOf(r)) = authority.replica[r].accepted.counter
<1>1. FrontierFits(r)
  BY DEF FrontierInv
<1>2. CASE RowsOf(r) = {} /\ authority.replica[r].accepted = Genesis
  BY <1>2, FS_EmptySet DEF Genesis
<1>3. ASSUME NEW i \in RowsOf(r), \A j \in RowsOf(r) : j <= i,
             authority.replica[r].accepted = authority.log[i].op
      PROVE  Cardinality(RowsOf(r)) = authority.replica[r].accepted.counter
  <2>1. authority.log[i].op.counter = Cardinality({j \in RowsOf(r) : j < i}) + 1
    BY DEF FrontierInv, EachDotOnceInOrder
  <2>2. {j \in RowsOf(r) : j < i} = RowsOf(r) \ {i}
    BY <1>3, LogRows
  <2>3. IsFiniteSet(RowsOf(r)) /\ Cardinality(RowsOf(r)) \in Nat
    BY LogRows
  <2>4. Cardinality(RowsOf(r) \ {i}) = Cardinality(RowsOf(r)) - 1
    BY <2>3, FS_RemoveElement
  <2>5. Cardinality({j \in RowsOf(r) : j < i}) = Cardinality(RowsOf(r)) - 1
    BY <2>2, <2>4
  <2>6. authority.log[i].op.counter = (Cardinality(RowsOf(r)) - 1) + 1
    BY <2>1, <2>5
  <2> QED BY <1>3, <2>3, <2>6
<1> QED BY <1>1, <1>2, <1>3 DEF FrontierFits

\* The order of a generation's rows, of its own ...
OrderOf(r) ==
  \A i \in RowsOf(r) :
    /\ authority.log[i].op.counter = Cardinality({j \in RowsOf(r) : j < i}) + 1
    /\ \/ {j \in RowsOf(r) : j < i} = {} /\ authority.log[i].op.previous = Genesis
       \/ \E j \in {k \in RowsOf(r) : k < i} :
            authority.log[i].op.previous = authority.log[j].op

LEMMA OrderIsOrders == EachDotOnceInOrder <=> \A r \in Replicas : OrderOf(r)
BY DEF EachDotOnceInOrder, OrderOf

LEMMA FrontierStays ==
  ASSUME AuthorityShape, FrontierInv, LogStays
  PROVE  FrontierInv'
<1>1. \A r : RowsOf(r)' = RowsOf(r)
  BY DEF LogStays, RowsOf
<1>2. \A r \in Replicas : FrontierFits(r)'
  BY <1>1 DEF FrontierInv, FrontierFits, LogStays
<1>3. ASSUME NEW r \in Replicas
      PROVE  OrderOf(r)'
  <2>1. OrderOf(r)
    BY OrderIsOrders DEF FrontierInv
  <2> QED BY <1>1, <2>1 DEF OrderOf, LogStays
<1>4. EachDotOnceInOrder'
  BY <1>3 DEF EachDotOnceInOrder, OrderOf
<1> QED BY <1>2, <1>4 DEF FrontierInv

\* ... once it was accepted ...
LEMMA FrontierGrows ==
  ASSUME AuthorityShape, FrontierInv, NEW op, Accepts(op)
  PROVE  FrontierInv'
<1>1. PICK n \in Nat : n = Len(authority.log)
  BY LogRows
<1>2. PICK row : authority'.log = Append(authority.log, row) /\ row.op = op
  BY DEF Accepts
<1>3. /\ DOMAIN authority'.log = 1..(n + 1)
      /\ \A i \in 1..n : authority'.log[i] = authority.log[i]
      /\ authority'.log[n + 1].op = op
  BY <1>1, <1>2, AppendedSequence, LogRows DEF AuthorityShape
<1>4. \A r : RowsOf(r)' = RowsOf(r) \cup (IF op.origin = r THEN {n + 1} ELSE {})
  BY <1>1, <1>3, LogRows DEF RowsOf
<1>5. \A r : RowsOf(r) \subseteq 1..n
  BY <1>1, LogRows
<1>6. ASSUME NEW r \in Replicas
      PROVE  \A i \in RowsOf(r) :
               /\ {j \in RowsOf(r)' : j < i} = {j \in RowsOf(r) : j < i}
               /\ authority'.log[i] = authority.log[i]
  BY <1>3, <1>4, <1>5
<1>7. ASSUME NEW r \in Replicas, r # op.origin
      PROVE  OrderOf(r)' /\ FrontierFits(r)'
  <2>1. RowsOf(r)' = RowsOf(r)
    BY <1>4, <1>7
  <2>2. OrderOf(r)'
    BY <1>6, <2>1, OrderIsOrders DEF FrontierInv, OrderOf
  <2>3. authority'.replica[r].accepted = authority.replica[r].accepted
    BY <1>7 DEF Accepts
  <2>4. FrontierFits(r)'
    BY <1>6, <2>1, <2>3 DEF FrontierInv, FrontierFits
  <2> QED BY <2>2, <2>4
<1>8. ASSUME NEW r \in Replicas, r = op.origin
      PROVE  OrderOf(r)' /\ FrontierFits(r)'
  <2>1. RowsOf(r)' = RowsOf(r) \cup {n + 1} /\ {j \in RowsOf(r)' : j < n + 1} = RowsOf(r)
    BY <1>4, <1>5, <1>8
  <2>2. /\ authority'.replica[r].accepted = op
        /\ op.counter = authority.replica[r].accepted.counter + 1
        /\ op.previous = authority.replica[r].accepted
    BY <1>8 DEF Accepts, Succeeds
  <2>3. FrontierFits(r)'
    <3>1. n + 1 \in RowsOf(r)' /\ \A j \in RowsOf(r)' : j <= n + 1
      BY <1>5, <2>1
    <3> QED BY <1>3, <2>2, <3>1 DEF FrontierFits
  <2>4. authority'.log[n + 1].op.counter = Cardinality(RowsOf(r)) + 1
    BY <1>3, <2>2, RowsCounted
  <2>5. \/ RowsOf(r) = {} /\ authority'.log[n + 1].op.previous = Genesis
        \/ \E j \in RowsOf(r) : authority'.log[n + 1].op.previous = authority'.log[j].op
    BY <1>3, <1>6, <2>2 DEF FrontierInv, FrontierFits
  <2>6. OrderOf(r)
    BY OrderIsOrders DEF FrontierInv
  <2>7. ASSUME NEW i \in RowsOf(r)'
        PROVE  /\ authority'.log[i].op.counter = Cardinality({j \in RowsOf(r)' : j < i}) + 1
               /\ \/ {j \in RowsOf(r)' : j < i} = {} /\ authority'.log[i].op.previous = Genesis
                  \/ \E j \in {k \in RowsOf(r)' : k < i} :
                       authority'.log[i].op.previous = authority'.log[j].op
    <3>1. CASE i = n + 1
      BY <2>1, <2>4, <2>5, <3>1
    <3>2. CASE i # n + 1
      <4>1. i \in RowsOf(r)
        BY <2>1, <3>2
      <4>2. {j \in RowsOf(r)' : j < i} = {j \in RowsOf(r) : j < i}
            /\ authority'.log[i] = authority.log[i]
        BY <1>6, <4>1
      <4>3. \A j \in {k \in RowsOf(r) : k < i} : authority'.log[j] = authority.log[j]
        BY <1>6
      <4> QED BY <2>6, <4>1, <4>2, <4>3 DEF OrderOf
    <3> QED BY <3>1, <3>2
  <2> QED BY <2>3, <2>7 DEF OrderOf
<1>9. EachDotOnceInOrder'
  BY <1>7, <1>8 DEF EachDotOnceInOrder, OrderOf
<1> QED BY <1>7, <1>8, <1>9 DEF FrontierInv

\* ... and after a recovery, which forgets the last rows.
LEMMA FrontierRestored ==
  ASSUME AuthorityShape, FrontierInv, NEW n \in 0..CurrentSequence, Recovers(n)
  PROVE  FrontierInv'
<1>1. n \in Nat /\ n <= Len(authority.log) /\ Len(authority.log) \in Nat
  BY LogRows DEF CurrentSequence
<1>2. /\ DOMAIN authority'.log = 1..n
      /\ \A i \in 1..n : authority'.log[i] = authority.log[i]
  <2>1. \A i \in 1..n : authority.log[i] \in Elements(authority.log)
    BY <1>1, LogRows DEF Elements
  <2>2. /\ SubSeq(authority.log, 1, n) \in Seq(Elements(authority.log))
        /\ Len(SubSeq(authority.log, 1, n)) = n
        /\ \A i \in 1..n : SubSeq(authority.log, 1, n)[i] = authority.log[i]
    BY <1>1, <2>1, SubSeqProperties
  <2> QED BY <2>2, LenProperties DEF Recovers
<1>3. \A r : RowsOf(r)' = {i \in 1..n : authority.log[i].op.origin = r} /\ RowsOf(r)' \subseteq RowsOf(r)
  BY <1>1, <1>2, LogRows DEF RowsOf
<1>4. ASSUME NEW r \in Replicas
      PROVE  FrontierFits(r)'
  <2> DEFINE rows == {i \in 1..n : authority.log[i].op.origin = r}
  <2>1. authority'.replica[r].accepted = FrontierAt(r, n) /\ RowsOf(r)' = rows
    BY <1>3 DEF Recovers
  <2>2. CASE rows = {}
    BY <2>1, <2>2 DEF FrontierAt, FrontierFits
  <2>3. CASE rows # {}
    <3>1. PICK i \in rows : \A j \in rows : j <= i
      BY <1>1, <2>3, GreatestNumber
    <3>2. PICK k : k = CHOOSE i_1 \in rows : \A j \in rows : j <= i_1
      OBVIOUS
    <3>3. k \in rows /\ \A j \in rows : j <= k
      BY <3>1, <3>2
    <3>4. FrontierAt(r, n) = authority.log[k].op
      BY <2>3, <3>2 DEF FrontierAt
    <3> QED BY <1>2, <2>1, <3>3, <3>4 DEF FrontierFits
  <2> QED BY <2>2, <2>3
<1>5. ASSUME NEW r \in Replicas
      PROVE  OrderOf(r)'
  <2>1. OrderOf(r)
    BY OrderIsOrders DEF FrontierInv
  <2>2. \A i \in RowsOf(r)' : /\ i \in RowsOf(r) /\ authority'.log[i] = authority.log[i]
                              /\ {j \in RowsOf(r)' : j < i} = {j \in RowsOf(r) : j < i}
    BY <1>1, <1>2, <1>3, LogRows
  <2>3. ASSUME NEW i \in RowsOf(r)'
        PROVE  /\ authority'.log[i].op.counter = Cardinality({j \in RowsOf(r)' : j < i}) + 1
               /\ \/ {j \in RowsOf(r)' : j < i} = {} /\ authority'.log[i].op.previous = Genesis
                  \/ \E j \in {k \in RowsOf(r)' : k < i} :
                       authority'.log[i].op.previous = authority'.log[j].op
    <3>1. \A j \in {k \in RowsOf(r)' : k < i} : authority'.log[j] = authority.log[j]
      BY <2>2
    <3>2. i \in RowsOf(r) /\ authority'.log[i] = authority.log[i]
          /\ {j \in RowsOf(r)' : j < i} = {j \in RowsOf(r) : j < i}
      BY <2>2
    <3>3. authority.log[i].op.counter = Cardinality({j \in RowsOf(r) : j < i}) + 1
      BY <2>1, <3>2 DEF OrderOf
    <3>4. \/ {j \in RowsOf(r) : j < i} = {} /\ authority.log[i].op.previous = Genesis
          \/ \E j \in {k \in RowsOf(r) : k < i} :
               authority.log[i].op.previous = authority.log[j].op
      BY <2>1, <3>2 DEF OrderOf
    <3>5. \/ {j \in RowsOf(r)' : j < i} = {} /\ authority'.log[i].op.previous = Genesis
          \/ \E j \in {k \in RowsOf(r)' : k < i} :
               authority'.log[i].op.previous = authority'.log[j].op
      BY <3>1, <3>2, <3>4
    <3> QED BY <3>2, <3>3, <3>5
  <2> QED BY <2>3 DEF OrderOf
<1>6. EachDotOnceInOrder'
  BY <1>5 DEF EachDotOnceInOrder, OrderOf
<1> QED BY <1>4, <1>6 DEF FrontierInv

-----------------------------------------------------------------------------
(* The steps of the authority. *)

\* What the authority knows of r is written again.
LEMMA GenerationWritten ==
  ASSUME AuthorityInv, NEW r \in Replicas, NEW g, IsGeneration(g),
         g.accepted = authority.replica[r].accepted,
         authority' = [authority EXCEPT !.replica = [authority.replica EXCEPT ![r] = g]]
  PROVE  AuthorityInv' /\ LogStays
<1>1. PICK replica : replica = [authority.replica EXCEPT ![r] = g]
  OBVIOUS
<1>2. /\ replica = [u \in Replicas |-> replica[u]]
      /\ \A u \in Replicas : replica[u] = IF u = r THEN g ELSE authority.replica[u]
  BY <1>1 DEF AuthorityInv, AuthorityShape
<1>3. authority' = [authority EXCEPT !.replica = replica]
  BY <1>1
<1>4. /\ authority' \in [epoch : Nat, log : {authority.log}, floor : Nat, data : {authority.data},
                         replica : {replica}]
      /\ authority'.epoch = authority.epoch /\ authority'.log = authority.log
      /\ authority'.data = authority.data /\ authority'.replica = replica
  BY <1>3 DEF AuthorityInv, AuthorityShape
<1>5. LogStays
  BY <1>2, <1>4 DEF LogStays
<1>6. AuthorityShape'
  BY <1>2, <1>4 DEF AuthorityInv, AuthorityShape
<1>7. DataInv'
  BY <1>4 DEF AuthorityInv, DataInv
<1> QED BY <1>4, <1>5, <1>6, <1>7, FrontierStays DEF AuthorityInv

\* Its data, or how far it has pruned, is.
LEMMA DataWritten ==
  ASSUME AuthorityInv, NEW d, Sound(d), NEW floor \in Nat,
         authority' = [authority EXCEPT !.data = d, !.floor = floor]
  PROVE  AuthorityInv' /\ LogStays
<1>1. /\ authority' \in [epoch : Nat, log : {authority.log}, floor : Nat, data : {d},
                         replica : {authority.replica}]
      /\ authority'.epoch = authority.epoch /\ authority'.log = authority.log
      /\ authority'.data = d /\ authority'.replica = authority.replica
  BY DEF AuthorityInv, AuthorityShape
<1>2. LogStays
  BY <1>1 DEF LogStays
<1>3. AuthorityShape' /\ DataInv'
  BY <1>1 DEF AuthorityInv, AuthorityShape, DataInv
<1> QED BY <1>1, <1>2, <1>3, FrontierStays DEF AuthorityInv

\* A record is written that was not retired.
LEMMA RecordWritten ==
  ASSUME NEW d, Sound(d), NEW x \in Records, NEW s, x \in d.retired => s = Absent
  PROVE  Sound([d EXCEPT !.records = [d.records EXCEPT ![x] = s]])
<1>1. PICK records : records = [d.records EXCEPT ![x] = s]
  OBVIOUS
<1>2. /\ records = [y \in Records |-> records[y]]
      /\ \A y \in Records : records[y] = IF y = x THEN s ELSE d.records[y]
  BY <1>1 DEF Sound
<1>3. PICK e : e = [d EXCEPT !.records = records]
  OBVIOUS
<1>4. e \in [records : {records}, retired : SUBSET Records] /\ e.records = records
      /\ e.retired = d.retired
  BY <1>3 DEF Sound
<1>5. Sound(e)
  BY <1>2, <1>4 DEF Sound
<1> QED BY <1>1, <1>3, <1>5

\* Register, Pull, GoSilent, AuthorityWrites, Retire and Prune.
LEMMA QuietAuthority ==
  ASSUME AuthorityInv,
         \/ \E r \in Replicas : Register(r) \/ Pull(r) \/ GoSilent(r)
         \/ \E x \in Records : AuthorityWrites(x) \/ Retire(x)
         \/ Prune
  PROVE  AuthorityInv' /\ LogStays
<1>1. /\ authority \in [epoch : Nat, log : {authority.log}, floor : Nat, data : {authority.data},
                        replica : {authority.replica}]
      /\ Sound(authority.data) /\ \A r \in Replicas : IsGeneration(authority.replica[r])
  BY DEF AuthorityInv, AuthorityShape, DataInv
<1>2. ASSUME NEW r \in Replicas, Register(r) \/ Pull(r) \/ GoSilent(r)
      PROVE  AuthorityInv' /\ LogStays
  <2>1. PICK g : /\ IsGeneration(g) /\ g.accepted = authority.replica[r].accepted
                 /\ authority' = [authority EXCEPT !.replica = [authority.replica EXCEPT ![r] = g]]
    <3>1. PICK old : old = authority.replica[r] /\ IsGeneration(old)
      BY <1>1
    <3>2. \A status \in {"active", "stale"} :
            IsGeneration([old EXCEPT !.status = status])
            /\ [old EXCEPT !.status = status].accepted = old.accepted
      BY <3>1 DEF IsGeneration
    <3>3. CASE Register(r)
      <4>1. authority' = [authority EXCEPT !.replica =
                            [authority.replica EXCEPT ![r] = [old EXCEPT !.status = "active"]]]
        BY <3>1, <3>3 DEF Register
      <4> QED BY <3>1, <3>2, <4>1
    <3>4. CASE GoSilent(r)
      <4>1. authority' = [authority EXCEPT !.replica =
                            [authority.replica EXCEPT ![r] = [old EXCEPT !.status = "stale"]]]
        BY <3>1, <3>4 DEF GoSilent
      <4> QED BY <3>1, <3>2, <4>1
    <3>5. CASE Pull(r)
      <4>1. PICK n \in Nat : n = CurrentSequence
        BY LogRows DEF AuthorityInv, CurrentSequence
      <4>2. authority' = [authority EXCEPT !.replica =
                            [authority.replica EXCEPT ![r] = [old EXCEPT !.acknowledged = n]]]
        BY <3>1, <3>5, <4>1 DEF Pull
      <4>3. IsGeneration([old EXCEPT !.acknowledged = n])
            /\ [old EXCEPT !.acknowledged = n].accepted = old.accepted
        BY <3>1 DEF IsGeneration
      <4> QED BY <3>1, <4>2, <4>3
    <3> QED BY <1>2, <3>3, <3>4, <3>5
  <2> QED BY <2>1, GenerationWritten
<1>3. PICK floor \in Nat : floor = authority.floor
  BY <1>1
<1>4. ASSUME NEW d, Sound(d), authority' = [authority EXCEPT !.data = d]
      PROVE  AuthorityInv' /\ LogStays
  <2>1. authority' = [authority EXCEPT !.data = d, !.floor = floor]
    BY <1>1, <1>3, <1>4
  <2> QED BY <1>3, <1>4, <2>1, DataWritten
<1>5. PICK data : data = authority.data /\ Sound(data)
  BY <1>1
<1>6. ASSUME NEW x \in Records, AuthorityWrites(x)
      PROVE  AuthorityInv' /\ LogStays
  <2>1. x \notin data.retired
    BY <1>5, <1>6 DEF AuthorityWrites, Sound
  <2>2. PICK s : authority' = [authority EXCEPT !.data =
                                [data EXCEPT !.records = [data.records EXCEPT ![x] = s]]]
    BY <1>5, <1>6 DEF AuthorityWrites
  <2>3. Sound([data EXCEPT !.records = [data.records EXCEPT ![x] = s]])
    BY <1>5, <2>1, RecordWritten
  <2> QED BY <1>4, <2>2, <2>3
<1>7. ASSUME NEW x \in Records, Retire(x)
      PROVE  AuthorityInv' /\ LogStays
  <2>1. PICK gone : gone = [data EXCEPT !.records = [data.records EXCEPT ![x] = Absent]]
    OBVIOUS
  <2>2. Sound(gone)
    BY <1>5, <2>1, RecordWritten
  <2>3. gone.records[x] = Absent /\ gone.retired = data.retired
    BY <1>5, <2>1 DEF Sound
  <2>4. authority' = [authority EXCEPT !.data = [gone EXCEPT !.retired = data.retired \cup {x}]]
    BY <1>5, <1>7, <2>1 DEF Retire
  <2>5. PICK e : e = [gone EXCEPT !.retired = data.retired \cup {x}]
    OBVIOUS
  <2>6. e.records = gone.records /\ e.retired = data.retired \cup {x}
        /\ e \in [records : {gone.records}, retired : SUBSET Records]
    BY <1>5, <2>2, <2>5 DEF Sound
  <2>7. Sound(e)
    BY <2>2, <2>3, <2>6 DEF Sound
  <2> QED BY <1>4, <2>4, <2>5, <2>7
<1>8. CASE Prune
  <2>1. PICK n \in Nat : authority' = [authority EXCEPT !.floor = n]
    BY <1>8 DEF Prune
  <2>2. authority' = [authority EXCEPT !.data = data, !.floor = n]
    BY <1>1, <1>5, <2>1
  <2> QED BY <1>5, <2>2, DataWritten
<1> QED BY <1>2, <1>6, <1>7, <1>8

\* An operation is accepted.
LEMMA AcceptingAuthority ==
  ASSUME AuthorityInv, NEW op, Welcome(op), Succeeds(op), authority' = Accepted(op)
  PROVE  /\ AuthorityInv' /\ Accepts(op)
         /\ authority'.log = Append(authority.log, [op |-> op, disposition |-> Disposition(op),
                                                    data |-> DataAfter(op)])
         /\ authority'.data = DataAfter(op)
<1>1. /\ authority \in [epoch : Nat, log : {authority.log}, floor : Nat, data : {authority.data},
                        replica : {authority.replica}]
      /\ Sound(authority.data) /\ \A r \in Replicas : IsGeneration(authority.replica[r])
      /\ authority.replica = [r \in Replicas |-> authority.replica[r]]
  BY DEF AuthorityInv, AuthorityShape, DataInv
<1>2. PICK d : d = DataAfter(op)
  OBVIOUS
<1>3. Sound(d)
  <2>1. CASE Disposition(op) # "applied"
    BY <1>1, <1>2, <2>1 DEF DataAfter
  <2>2. CASE Disposition(op) = "applied"
    <3>1. op.record \notin authority.data.retired
      BY <2>2 DEF Disposition
    <3>2. d = [authority.data EXCEPT !.records = [authority.data.records EXCEPT ![op.record] = op.outcome]]
      BY <1>2, <2>2 DEF DataAfter
    <3>3. CASE op.record \in Records
      BY <1>1, <3>1, <3>2, <3>3, RecordWritten
    <3>4. CASE op.record \notin Records
      <4>1. [authority.data.records EXCEPT ![op.record] = op.outcome] = authority.data.records
        BY <1>1, <3>4 DEF Sound
      <4>2. d = authority.data
        BY <1>1, <3>2, <4>1 DEF Sound
      <4> QED BY <1>1, <4>2
    <3> QED BY <3>3, <3>4
  <2> QED BY <2>1, <2>2
<1>4. PICK row : row = [op |-> op, disposition |-> Disposition(op), data |-> d]
  OBVIOUS
<1>5. PICK log : log = Append(authority.log, row)
  OBVIOUS
<1>6. PICK replica : replica = [authority.replica EXCEPT ![op.origin] =
                                  [authority.replica[op.origin] EXCEPT !.accepted = op]]
  OBVIOUS
<1>7. authority' = [authority EXCEPT !.log = log, !.data = d, !.replica = replica]
  BY <1>2, <1>4, <1>5, <1>6 DEF Accepted
<1>8. /\ authority' \in [epoch : Nat, log : {log}, floor : Nat, data : {d}, replica : {replica}]
      /\ authority'.epoch = authority.epoch /\ authority'.log = log
      /\ authority'.data = d /\ authority'.replica = replica
  BY <1>1, <1>7
<1>9. /\ replica = [r \in Replicas |-> replica[r]]
      /\ \A r \in Replicas : IsGeneration(replica[r])
      /\ \A r \in Replicas : replica[r].accepted =
                               IF r = op.origin THEN op ELSE authority.replica[r].accepted
  <2>1. /\ replica = [r \in Replicas |-> replica[r]]
        /\ \A r \in Replicas : replica[r] = IF r = op.origin
                                            THEN [authority.replica[r] EXCEPT !.accepted = op]
                                            ELSE authority.replica[r]
    BY <1>1, <1>6
  <2>2. ASSUME NEW r \in Replicas
        PROVE  /\ IsGeneration(replica[r])
               /\ replica[r].accepted = IF r = op.origin THEN op ELSE authority.replica[r].accepted
    <3>1. PICK g : g = authority.replica[r] /\ IsGeneration(g)
      BY <1>1
    <3>2. IsGeneration([g EXCEPT !.accepted = op]) /\ [g EXCEPT !.accepted = op].accepted = op
      BY <3>1 DEF IsGeneration
    <3>3. replica[r] = IF r = op.origin THEN [g EXCEPT !.accepted = op] ELSE g
      BY <2>1, <3>1
    <3> QED BY <3>1, <3>2, <3>3
  <2> QED BY <2>1, <2>2
<1>10. Accepts(op) /\ authority'.log = Append(authority.log, [op |-> op,
                         disposition |-> Disposition(op), data |-> DataAfter(op)])
  <2>1. authority'.log = Append(authority.log, [op |-> op, disposition |-> Disposition(op),
                                                data |-> DataAfter(op)])
    BY <1>2, <1>4, <1>5, <1>8
  <2>2. authority'.epoch = authority.epoch /\ op.epoch = authority.epoch
    BY <1>8 DEF Welcome
  <2>3. \A r \in Replicas : authority'.replica[r].accepted =
          IF r = op.origin THEN op ELSE authority.replica[r].accepted
    BY <1>8, <1>9
  <2> QED BY <2>1, <2>2, <2>3 DEF Accepts
<1>11. /\ IsSequence(log) /\ DOMAIN log = 1..(Len(authority.log) + 1)
       /\ \A i \in DOMAIN authority.log : log[i] = authority.log[i]
       /\ log[Len(authority.log) + 1] = row
       /\ DOMAIN authority.log = 1..Len(authority.log) /\ Len(authority.log) \in Nat
  BY <1>5, AppendedSequence, LogRows DEF AuthorityInv, AuthorityShape
<1>12. AuthorityShape'
  BY <1>8, <1>9, <1>11 DEF AuthorityShape
<1>13. DataInv'
  <2>1. \A i \in DOMAIN log : i \in DOMAIN authority.log \/ log[i] = row
    BY <1>11
  <2> QED BY <1>3, <1>4, <1>8, <1>11, <2>1 DEF AuthorityInv, DataInv
<1> QED BY <1>2, <1>8, <1>10, <1>12, <1>13, FrontierGrows DEF AuthorityInv

\* A recovery.
LEMMA RecoveredAuthority ==
  ASSUME AuthorityInv, Recover
  PROVE  /\ AuthorityInv' /\ \E n \in 0..CurrentSequence : Recovers(n)
         /\ \/ authority'.data \in {authority.data, Nothing}
            \/ \E i \in DOMAIN authority.log : authority'.data = authority.log[i].data
<1>1. PICK n \in 0..CurrentSequence : authority' = [AllStale(AsOf(n)) EXCEPT !.epoch = @ + 1]
  BY DEF Recover
<1>2. /\ authority \in [epoch : Nat, log : {authority.log}, floor : Nat, data : {authority.data},
                        replica : {authority.replica}]
      /\ \A r \in Replicas : IsGeneration(authority.replica[r])
      /\ authority.replica = [r \in Replicas |-> authority.replica[r]]
      /\ Sound(authority.data) /\ \A i \in DOMAIN authority.log : Sound(authority.log[i].data)
  BY DEF AuthorityInv, AuthorityShape, DataInv
<1>3. n \in Nat /\ n <= Len(authority.log) /\ DOMAIN authority.log = 1..Len(authority.log)
      /\ Len(authority.log) \in Nat
  BY LogRows DEF CurrentSequence, AuthorityInv
<1>4. PICK d : d = IF n = CurrentSequence THEN authority.data
                   ELSE IF n = 0 THEN Nothing ELSE authority.log[n].data
  OBVIOUS
<1>5. Sound(d)
  <2>1. Sound(Nothing)
    BY DEF Nothing, Sound
  <2> QED BY <1>2, <1>3, <1>4, <2>1
<1>6. PICK log : log = SubSeq(authority.log, 1, n)
  OBVIOUS
<1>7. PICK floor \in Nat : floor = IF authority.floor < n THEN authority.floor ELSE n
  BY <1>2, <1>3
<1>8. PICK older : older = [r \in Replicas |->
                              [authority.replica[r] EXCEPT !.accepted = FrontierAt(r, n)]]
  OBVIOUS
<1>9. PICK replica : replica = [r \in Replicas |->
         IF older[r].status = "absent" THEN older[r] ELSE [older[r] EXCEPT !.status = "stale"]]
  OBVIOUS
<1>10. AsOf(n) = [authority EXCEPT !.log = log, !.floor = floor, !.data = d, !.replica = older]
  BY <1>4, <1>6, <1>7, <1>8 DEF AsOf
<1>11. PICK restored : restored = AsOf(n)
  OBVIOUS
<1>12. restored \in [epoch : {authority.epoch}, log : {log}, floor : {floor}, data : {d},
                     replica : {older}]
  BY <1>2, <1>10, <1>11
<1>13. AllStale(restored) = [restored EXCEPT !.replica = replica]
  BY <1>9, <1>12 DEF AllStale
<1>14. authority' = [[restored EXCEPT !.replica = replica] EXCEPT !.epoch = @ + 1]
  BY <1>1, <1>11, <1>13
<1>15. /\ authority' \in [epoch : Nat, log : {log}, floor : Nat, data : {d}, replica : {replica}]
       /\ authority'.epoch = authority.epoch + 1 /\ authority'.log = log
       /\ authority'.data = d /\ authority'.replica = replica
  <2>1. PICK epoch \in Nat : epoch = authority.epoch
    BY <1>2
  <2>2. PICK moved : moved = [restored EXCEPT !.replica = replica]
    OBVIOUS
  <2>3. moved \in [epoch : {epoch}, log : {log}, floor : {floor}, data : {d}, replica : {replica}]
    BY <1>12, <2>1, <2>2
  <2>4. authority' = [moved EXCEPT !.epoch = epoch + 1]
    BY <1>14, <2>2, <2>3
  <2> QED BY <2>1, <2>3, <2>4
<1>16. /\ \A r \in Replicas : IsGeneration(replica[r]) /\ replica[r].accepted = FrontierAt(r, n)
       /\ replica = [r \in Replicas |-> replica[r]]
  <2>1. ASSUME NEW g, IsGeneration(g), NEW op
        PROVE  IsGeneration([g EXCEPT !.accepted = op]) /\ [g EXCEPT !.accepted = op].accepted = op
    BY <2>1 DEF IsGeneration
  <2>2. ASSUME NEW g, IsGeneration(g)
        PROVE  IsGeneration([g EXCEPT !.status = "stale"])
               /\ [g EXCEPT !.status = "stale"].accepted = g.accepted
    BY <2>2 DEF IsGeneration
  <2>3. \A r \in Replicas : IsGeneration(older[r]) /\ older[r].accepted = FrontierAt(r, n)
    BY <1>2, <1>8, <2>1
  <2> QED BY <1>9, <2>2, <2>3
<1>17. Recovers(n)
  BY <1>6, <1>15, <1>16 DEF Recovers
<1>18. /\ IsSequence(log) /\ DOMAIN log = 1..n /\ \A i \in 1..n : log[i] = authority.log[i]
  <2>1. \A i \in 1..n : authority.log[i] \in Elements(authority.log)
    BY <1>3 DEF Elements
  <2>2. /\ SubSeq(authority.log, 1, n) \in Seq(Elements(authority.log))
        /\ Len(SubSeq(authority.log, 1, n)) = n
        /\ \A i \in 1..n : SubSeq(authority.log, 1, n)[i] = authority.log[i]
    BY <1>3, <2>1, SubSeqProperties
  <2> QED BY <1>6, <2>2, LenProperties, SequenceOver
<1>19. AuthorityShape'
  BY <1>15, <1>16, <1>18 DEF AuthorityShape
<1>20. DataInv'
  BY <1>2, <1>3, <1>5, <1>15, <1>18 DEF DataInv
<1>21. 1 <= authority'.epoch
  BY <1>2, <1>15 DEF AuthorityInv
<1>22. \/ authority'.data \in {authority.data, Nothing}
       \/ \E i \in DOMAIN authority.log : authority'.data = authority.log[i].data
  BY <1>3, <1>4, <1>15
<1> QED BY <1>17, <1>19, <1>20, <1>21, <1>22, FrontierRestored DEF AuthorityInv

\* Every step.
LEMMA AuthoritySteps ==
  ASSUME AuthorityInv, ReplicationNext
  PROVE  AuthorityInv' /\ LogStep
<1>1. CASE UNCHANGED authority
  <2>1. LogStays
    BY <1>1 DEF LogStays
  <2>2. AuthorityShape' /\ DataInv' /\ 1 <= authority'.epoch
    BY <1>1 DEF AuthorityInv, AuthorityShape, DataInv
  <2> QED BY <2>1, <2>2, FrontierStays DEF AuthorityInv, LogStep
<1>2. ASSUME NEW r \in Replicas, ReplicaNext(r)
      PROVE  UNCHANGED authority \/ Register(r) \/ Pull(r) \/ GoSilent(r)
  BY <1>2 DEF ReplicaNext, InitializeLocal, Push, Queue
<1>3. ASSUME NEW m, AcceptOne(m)
      PROVE  AuthorityInv' /\ LogStep
  BY <1>3, AcceptingAuthority DEF AcceptOne, LogStep
<1>4. ASSUME NEW m, MessageNext(m)
      PROVE  UNCHANGED authority \/ AcceptOne(m)
  BY <1>4 DEF MessageNext, AcceptAgain, Respond, Acknowledge, Install
<1> QED
  BY <1>1, <1>2, <1>3, <1>4, QuietAuthority, RecoveredAuthority DEF ReplicationNext, LogStep

-----------------------------------------------------------------------------
(* What the replicas were told. *)

\* A row that agreed with the log agrees with it in the same epoch.
LEMMA AgreementStays ==
  ASSUME AuthorityShape, LogStep, authority'.epoch = authority.epoch, NEW result, Agrees(result)
  PROVE  Agrees(result)'
<1>1. LogStays \/ \E op : Accepts(op)
  <2>1. authority.epoch + 1 # authority.epoch
    BY DEF AuthorityShape
  <2> QED BY <2>1 DEF LogStep, Recovers
<1>2. CASE LogStays
  BY <1>2 DEF LogStays, Agrees
<1>3. ASSUME NEW op, Accepts(op)
      PROVE  Agrees(result)'
  <2>1. PICK row : authority'.log = Append(authority.log, row)
    BY <1>3 DEF Accepts
  <2>2. \A i \in DOMAIN authority.log : i \in DOMAIN authority'.log
                                        /\ authority'.log[i] = authority.log[i]
    BY <2>1, AppendedSequence DEF AuthorityShape
  <2> QED BY <2>2 DEF Agrees
<1> QED BY <1>1, <1>2, <1>3

\* An epoch passes only once.
LEMMA EpochsPass ==
  ASSUME AuthorityInv, LogStep
  PROVE  /\ authority.epoch \in Nat /\ authority'.epoch \in {authority.epoch, authority.epoch + 1}
         /\ 1 <= authority.epoch
BY DEF AuthorityInv, AuthorityShape, LogStep, LogStays, Accepts, Recovers

\* What a step does to the epochs of the replicas ...
EpochStep ==
  /\ local' = [r \in Replicas |-> local'[r]]
  /\ \A r \in Replicas :
       /\ local'[r] \in [epoch : Nat, observed : {local'[r].observed}, next : Nat,
                         previous : {local'[r].previous}, retired : {local'[r].retired}]
       /\ \/ local'[r].epoch = local[r].epoch
          \/ local[r].epoch = 0 /\ local'[r].epoch = authority.epoch

\* ... and to their queues: an entry is new, kept, or decided as the log has it.
TheLogHas(e) == Agrees([op |-> e.op, disposition |-> e.status, sequence |-> e.sequence])

QueueStep ==
  /\ outgoing' = [r \in Replicas |-> outgoing'[r]]
  /\ \A r \in Replicas :
       /\ IsSequence(outgoing'[r])
       /\ local[r].epoch = 0 => DOMAIN outgoing'[r] = {}
       /\ \A c \in DOMAIN outgoing'[r] :
            \/ outgoing'[r][c].status = "pending"
            \/ c \in DOMAIN outgoing[r] /\ outgoing'[r][c] = outgoing[r][c]
            \/ local[r].epoch = authority.epoch => TheLogHas(outgoing'[r][c])

LEMMA ReplicasHold ==
  ASSUME AuthorityInv, LogStep, LocalShape, EpochInv, DecisionsAgreeWithTheLog,
         EpochStep, QueueStep
  PROVE  LocalShape' /\ EpochInv' /\ DecisionsAgreeWithTheLog'
<1>1. LocalShape'
  BY DEF EpochStep, QueueStep, LocalShape
<1>2. /\ authority.epoch \in Nat /\ authority'.epoch \in {authority.epoch, authority.epoch + 1}
      /\ 1 <= authority.epoch /\ AuthorityShape
  BY EpochsPass DEF AuthorityInv
<1>3. \A r \in Replicas : local[r].epoch \in Nat /\ local[r].epoch <= authority.epoch
  BY DEF LocalShape, EpochInv
<1>4. EpochInv'
  BY <1>2, <1>3 DEF EpochInv, EpochStep, QueueStep
<1>5. ASSUME NEW r \in Replicas, local'[r].epoch = authority'.epoch,
             NEW c \in DOMAIN outgoing'[r], outgoing'[r][c].status # "pending"
      PROVE  /\ outgoing'[r][c].sequence \in DOMAIN authority'.log
             /\ authority'.log[outgoing'[r][c].sequence].op = outgoing'[r][c].op
             /\ authority'.log[outgoing'[r][c].sequence].disposition = outgoing'[r][c].status
  <2>1. local[r].epoch # 0
    BY <1>5 DEF QueueStep
  <2>2. local[r].epoch = authority.epoch /\ authority'.epoch = authority.epoch
    BY <1>2, <1>3, <1>5, <2>1 DEF EpochStep
  <2>3. TheLogHas(outgoing'[r][c])
    <3>1. ASSUME c \in DOMAIN outgoing[r], outgoing'[r][c] = outgoing[r][c]
          PROVE  TheLogHas(outgoing'[r][c])
      BY <1>5, <2>2, <3>1 DEF DecisionsAgreeWithTheLog, TheLogHas, Agrees
    <3> QED BY <1>5, <2>2, <3>1 DEF QueueStep
  <2>4. PICK result : result = [op |-> outgoing'[r][c].op, disposition |-> outgoing'[r][c].status,
                                sequence |-> outgoing'[r][c].sequence]
    OBVIOUS
  <2>5. Agrees(result)'
    BY <1>2, <2>2, <2>3, <2>4, AgreementStays DEF TheLogHas
  <2> QED BY <2>4, <2>5 DEF Agrees
<1>6. DecisionsAgreeWithTheLog'
  BY <1>5 DEF DecisionsAgreeWithTheLog
<1> QED BY <1>1, <1>4, <1>6

\* A message is as NetworkInv says it is.
GoodMessage(m) ==
  /\ m.kind \in {"push", "reply", "snapshot"} /\ m.replica \in Replicas
  /\ m.kind \in {"push", "reply"} => ResultsHold(m)
  /\ m.kind = "push" => m \in [kind : {"push"}, replica : {m.replica}, results : {m.results},
                               ops : {m.ops}]

\* What a replica was told stays told.
LEMMA ResultsStay ==
  ASSUME AuthorityInv, LogStep, LocalShape, EpochInv, EpochStep,
         NEW m, m.replica \in Replicas, ResultsHold(m)
  PROVE  ResultsHold(m)'
<1>1. /\ authority.epoch \in Nat /\ authority'.epoch \in {authority.epoch, authority.epoch + 1}
      /\ AuthorityShape
  BY EpochsPass DEF AuthorityInv
<1>2. local[m.replica].epoch \in Nat /\ local[m.replica].epoch <= authority.epoch
  BY DEF LocalShape, EpochInv
<1>3. local[m.replica].epoch # 0 /\ local'[m.replica].epoch = local[m.replica].epoch
  BY DEF ResultsHold, EpochStep
<1>4. ASSUME local'[m.replica].epoch = authority'.epoch, NEW i \in DOMAIN m.results
      PROVE  Agrees(m.results[i])'
  <2>1. local[m.replica].epoch = authority.epoch /\ authority'.epoch = authority.epoch
    BY <1>1, <1>2, <1>3, <1>4
  <2>2. PICK result : result = m.results[i]
    OBVIOUS
  <2>3. Agrees(result)
    BY <2>1, <2>2 DEF ResultsHold
  <2>4. Agrees(result)'
    BY <1>1, <2>1, <2>3, AgreementStays
  <2> QED BY <2>2, <2>4 DEF Agrees
<1> QED BY <1>3, <1>4 DEF ResultsHold

LEMMA MessagesHold ==
  ASSUME AuthorityInv, LogStep, LocalShape, EpochInv, EpochStep, NetworkInv,
         \A m \in network' : m \in network \/ GoodMessage(m)'
  PROVE  NetworkInv'
<1>1. ASSUME NEW m \in network
      PROVE  GoodMessage(m)'
  BY ResultsStay DEF NetworkInv, GoodMessage
<1>2. \A m \in network' : GoodMessage(m)'
  BY <1>1
<1> QED BY <1>2 DEF NetworkInv, GoodMessage

-----------------------------------------------------------------------------
(* What a step tells the replicas, and what it does to them. *)

LEMMA NoEpochPasses ==
  ASSUME LocalShape, UNCHANGED local
  PROVE  EpochStep
BY DEF LocalShape, EpochStep

LEMMA QueuesStay ==
  ASSUME LocalShape, EpochInv, UNCHANGED outgoing
  PROVE  QueueStep
BY DEF LocalShape, EpochInv, QueueStep

\* Joining, queueing and installing leave the epoch alone, or set it once.
LEMMA EpochSteps ==
  ASSUME AuthorityInv, LocalShape, NetworkInv,
         \/ \E r \in Replicas : InitializeLocal(r)
         \/ \E r \in Replicas, x \in Records, command \in Commands : Queue(r, x, command)
         \/ \E m \in network : Install(m)
  PROVE  EpochStep
<1>1. ASSUME NEW r \in Replicas, NEW mine,
             local' = [local EXCEPT ![r] = mine],
             mine \in [epoch : Nat, observed : {mine.observed}, next : Nat,
                       previous : {mine.previous}, retired : {mine.retired}],
             \/ mine.epoch = local[r].epoch
             \/ local[r].epoch = 0 /\ mine.epoch = authority.epoch
      PROVE  EpochStep
  <2>1. /\ local' = [u \in Replicas |-> local'[u]]
        /\ \A u \in Replicas : local'[u] = IF u = r THEN mine ELSE local[u]
    BY <1>1 DEF LocalShape
  <2> QED BY <1>1, <2>1 DEF LocalShape, EpochStep
<1>2. ASSUME NEW r \in Replicas
      PROVE  \E me : /\ me = local[r]
                     /\ me \in [epoch : Nat, observed : {me.observed}, next : Nat,
                                previous : {me.previous}, retired : {me.retired}]
  BY DEF LocalShape
<1>3. ASSUME NEW r \in Replicas, InitializeLocal(r)
      PROVE  EpochStep
  <2>1. PICK me : /\ me = local[r]
                  /\ me \in [epoch : Nat, observed : {me.observed}, next : Nat,
                             previous : {me.previous}, retired : {me.retired}]
    BY <1>2
  <2>2. PICK n \in Nat : n = authority.epoch
    BY DEF AuthorityInv, AuthorityShape
  <2>3. PICK mine : mine = [me EXCEPT !.epoch = n]
    OBVIOUS
  <2>4. local' = [local EXCEPT ![r] = mine] /\ local[r].epoch = 0
    BY <1>3, <2>1, <2>2, <2>3 DEF InitializeLocal
  <2>5. /\ mine \in [epoch : Nat, observed : {mine.observed}, next : Nat,
                     previous : {mine.previous}, retired : {mine.retired}]
        /\ mine.epoch = authority.epoch
    BY <2>1, <2>2, <2>3
  <2> QED BY <1>1, <2>4, <2>5
<1>4. ASSUME NEW r \in Replicas, NEW x \in Records, NEW command \in Commands, Queue(r, x, command)
      PROVE  EpochStep
  <2>1. PICK me : /\ me = local[r]
                  /\ me \in [epoch : Nat, observed : {me.observed}, next : Nat,
                             previous : {me.previous}, retired : {me.retired}]
    BY <1>2
  <2>2. PICK op : local' = [local EXCEPT ![r].next = @ + 1, ![r].previous = op]
    BY <1>4 DEF Queue
  <2>3. PICK mine : mine = [[me EXCEPT !.next = @ + 1] EXCEPT !.previous = op]
    OBVIOUS
  <2>4. local' = [local EXCEPT ![r] = mine]
    BY <2>1, <2>2, <2>3 DEF LocalShape
  <2>5. PICK next \in Nat : next = me.next + 1
    BY <2>1
  <2>6. PICK later : later = [me EXCEPT !.next = next]
    OBVIOUS
  <2>7. later \in [epoch : {me.epoch}, observed : {me.observed}, next : {next},
                   previous : {me.previous}, retired : {me.retired}]
        /\ mine = [later EXCEPT !.previous = op]
    BY <2>1, <2>3, <2>5, <2>6
  <2>8. /\ mine \in [epoch : {me.epoch}, observed : {me.observed}, next : {next},
                     previous : {op}, retired : {me.retired}]
    BY <2>7
  <2> QED BY <1>1, <2>1, <2>4, <2>5, <2>8
<1>5. ASSUME NEW m \in network, Install(m)
      PROVE  EpochStep
  <2>1. PICK r \in Replicas : r = m.replica
    BY DEF NetworkInv
  <2>2. PICK me : /\ me = local[r]
                  /\ me \in [epoch : Nat, observed : {me.observed}, next : Nat,
                             previous : {me.previous}, retired : {me.retired}]
    BY <1>2
  <2>3. PICK covered, retired, previous :
          local' = [local EXCEPT ![r].observed = covered, ![r].retired = retired,
                                 ![r].previous = previous]
    BY <1>5, <2>1 DEF Install
  <2>4. PICK first : first = [me EXCEPT !.observed = covered]
    OBVIOUS
  <2>5. PICK second : second = [first EXCEPT !.retired = retired]
    OBVIOUS
  <2>6. PICK mine : mine = [second EXCEPT !.previous = previous]
    OBVIOUS
  <2>7. local' = [local EXCEPT ![r] = mine]
    BY <2>2, <2>3, <2>4, <2>5, <2>6 DEF LocalShape
  <2>8. first \in [epoch : {me.epoch}, observed : {covered}, next : {me.next},
                   previous : {me.previous}, retired : {me.retired}]
    BY <2>2, <2>4
  <2>9. second \in [epoch : {me.epoch}, observed : {covered}, next : {me.next},
                    previous : {me.previous}, retired : {retired}]
    BY <2>5, <2>8
  <2>10. mine \in [epoch : {me.epoch}, observed : {covered}, next : {me.next},
                   previous : {previous}, retired : {retired}]
    BY <2>6, <2>9
  <2> QED BY <1>1, <2>2, <2>7, <2>10
<1> QED BY <1>3, <1>4, <1>5

\* A queue gets one more entry, which is pending; an acknowledgement decides entries
\* as the log has them; an installation writes pending entries again.
LEMMA QueueSteps ==
  ASSUME AuthorityInv, LocalShape, EpochInv, NetworkInv,
         \/ \E r \in Replicas, x \in Records, command \in Commands : Queue(r, x, command)
         \/ \E m \in network : Acknowledge(m) \/ Install(m)
  PROVE  QueueStep
<1>1. ASSUME NEW r \in Replicas, NEW queue, outgoing' = [outgoing EXCEPT ![r] = queue],
             IsSequence(queue), local[r].epoch = 0 => DOMAIN queue = {},
             \A c \in DOMAIN queue :
               \/ queue[c].status = "pending"
               \/ c \in DOMAIN outgoing[r] /\ queue[c] = outgoing[r][c]
               \/ local[r].epoch = authority.epoch => TheLogHas(queue[c])
      PROVE  QueueStep
  <2>1. /\ outgoing' = [u \in Replicas |-> outgoing'[u]]
        /\ \A u \in Replicas : outgoing'[u] = IF u = r THEN queue ELSE outgoing[u]
    BY <1>1 DEF LocalShape
  <2> QED BY <1>1, <2>1 DEF LocalShape, EpochInv, QueueStep
<1>2. ASSUME NEW r \in Replicas, NEW x \in Records, NEW command \in Commands, Queue(r, x, command)
      PROVE  QueueStep
  <2>1. PICK op : outgoing' = [outgoing EXCEPT ![r] = Append(@, Entry(op))]
    BY <1>2 DEF Queue
  <2>2. PICK queue : queue = Append(outgoing[r], Entry(op))
    OBVIOUS
  <2>3. outgoing' = [outgoing EXCEPT ![r] = queue]
    BY <2>1, <2>2 DEF LocalShape
  <2>4. /\ IsSequence(queue) /\ DOMAIN queue = 1..(Len(outgoing[r]) + 1)
        /\ \A c \in DOMAIN outgoing[r] : queue[c] = outgoing[r][c]
        /\ queue[Len(outgoing[r]) + 1] = Entry(op)
        /\ DOMAIN outgoing[r] = 1..Len(outgoing[r]) /\ Len(outgoing[r]) \in Nat
    <3>1. IsSequence(outgoing[r])
      BY DEF LocalShape
    <3> QED BY <2>2, <3>1, AppendedSequence, SequenceFacts
  <2>5. local[r].epoch # 0
    BY <1>2 DEF Queue
  <2>6. Entry(op).status = "pending"
    BY DEF Entry
  <2>7. \A c \in DOMAIN queue : \/ queue[c].status = "pending"
                                \/ c \in DOMAIN outgoing[r] /\ queue[c] = outgoing[r][c]
    BY <2>4, <2>6
  <2>8. IsSequence(queue) /\ (local[r].epoch = 0 => DOMAIN queue = {})
    BY <2>4, <2>5
  <2> QED BY <1>1, <2>3, <2>7, <2>8
<1>3. ASSUME NEW m \in network, Acknowledge(m)
      PROVE  QueueStep
  <2>1. PICK r \in Replicas : r = m.replica /\ ResultsHold(m)
    BY <1>3 DEF NetworkInv, Acknowledge
  <2> DEFINE decided(e) == {m.results[i] : i \in {j \in DOMAIN m.results : m.results[j].op = e.op}}
             after(e) == IF decided(e) = {} THEN e
                         ELSE LET result == CHOOSE d \in decided(e) : TRUE
                              IN  [op |-> e.op, status |-> result.disposition,
                                   sequence |-> result.sequence]
  <2>2. PICK queue : queue = [c \in DOMAIN outgoing[r] |-> after(outgoing[r][c])]
    OBVIOUS
  <2>3. outgoing' = [outgoing EXCEPT ![r] = queue]
    <3>1. outgoing' = [outgoing EXCEPT ![m.replica] = [c \in DOMAIN @ |-> after(@[c])]]
      BY <1>3 DEF Acknowledge
    <3> HIDE DEF after, decided
    <3> QED BY <2>1, <2>2, <3>1
  <2>4. ASSUME NEW e, local[r].epoch = authority.epoch
        PROVE  after(e) = e \/ TheLogHas(after(e))
    <3>1. ASSUME decided(e) # {}
          PROVE  TheLogHas(after(e))
      <4>1. PICK result : result = CHOOSE d \in decided(e) : TRUE
        OBVIOUS
      <4>2. result \in decided(e)
        BY <3>1, <4>1
      <4>3. PICK i \in DOMAIN m.results : m.results[i].op = e.op /\ result = m.results[i]
        BY <4>2
      <4>4. Agrees(result)
        BY <2>1, <2>4, <4>3 DEF ResultsHold
      <4>5. after(e) = [op |-> e.op, status |-> result.disposition, sequence |-> result.sequence]
        BY <3>1, <4>1
      <4> HIDE DEF after
      <4> QED BY <4>3, <4>4, <4>5 DEF TheLogHas, Agrees
    <3> QED BY <3>1
  <2> HIDE DEF after
  <2>5. IsSequence(outgoing[r]) /\ DOMAIN outgoing[r] = 1..Len(outgoing[r]) /\ Len(outgoing[r]) \in Nat
    BY SequenceFacts DEF LocalShape
  <2>6. IsSequence(queue) /\ DOMAIN queue = DOMAIN outgoing[r]
    BY <2>2, <2>5, ASequence
  <2>7. \A c \in DOMAIN queue : queue[c] = after(outgoing[r][c])
    BY <2>2
  <2>8. local[r].epoch = 0 => DOMAIN queue = {}
    BY <2>6 DEF EpochInv
  <2> QED BY <1>1, <2>3, <2>4, <2>6, <2>7, <2>8
<1>4. ASSUME NEW m \in network, Install(m)
      PROVE  QueueStep
  <2>1. PICK r \in Replicas : r = m.replica
    BY DEF NetworkInv
  <2>2. PICK done, replay :
          outgoing' = [outgoing EXCEPT ![r] = [c \in DOMAIN @ |->
            IF c <= done THEN @[c] ELSE Entry(replay.ops[c - done])]]
    <3>1. PICK done : done = Len(outgoing[r]) - Len(Pending(r))
      OBVIOUS
    <3>2. PICK replay : replay = Replay(r, m)
      OBVIOUS
    <3>3. outgoing' = [outgoing EXCEPT ![r] = [c \in DOMAIN @ |->
            IF c <= done THEN @[c] ELSE Entry(replay.ops[c - done])]]
      BY <1>4, <2>1, <3>1, <3>2 DEF Install
    <3> QED BY <3>3
  <2>3. PICK queue : queue = [c \in DOMAIN outgoing[r] |->
                                IF c <= done THEN outgoing[r][c] ELSE Entry(replay.ops[c - done])]
    OBVIOUS
  <2>4. outgoing' = [outgoing EXCEPT ![r] = queue]
    BY <2>2, <2>3 DEF LocalShape
  <2>5. IsSequence(outgoing[r]) /\ DOMAIN outgoing[r] = 1..Len(outgoing[r]) /\ Len(outgoing[r]) \in Nat
    BY SequenceFacts DEF LocalShape
  <2>6. IsSequence(queue) /\ DOMAIN queue = DOMAIN outgoing[r]
    BY <2>3, <2>5, ASequence
  <2>7. \A c \in DOMAIN queue : queue[c].status = "pending" \/ queue[c] = outgoing[r][c]
    BY <2>3 DEF Entry
  <2>8. local[r].epoch = 0 => DOMAIN queue = {}
    BY <2>6 DEF EpochInv
  <2> QED BY <1>1, <2>4, <2>6, <2>7, <2>8
<1> QED BY <1>2, <1>3, <1>4

\* A replica that pushes has queued something.
LEMMA PendingIsQueued ==
  ASSUME NEW r \in Replicas, Pending(r) # << >>
  PROVE  DOMAIN outgoing[r] # {}
<1> SUFFICES ASSUME DOMAIN outgoing[r] = {}
             PROVE  FALSE
  OBVIOUS
<1> DEFINE undecided == {c \in DOMAIN outgoing[r] : outgoing[r][c].status = "pending"}
           UpTo(c) == {d \in undecided : d <= c}
           e(i) == outgoing[r][CHOOSE c \in undecided : Cardinality(UpTo(c)) = i]
<1>1. Cardinality(undecided) = 0
  BY FS_EmptySet
<1>2. Pending(r) = [i \in 1..Cardinality(undecided) |-> e(i)]
  BY DEF Pending
<1> HIDE DEF e, undecided
<1>3. PICK s : s = [i \in 1..0 |-> e(i)]
  OBVIOUS
<1>4. s \in Seq({}) /\ Len(s) = 0
  <2>1. \A i \in 1..0 : e(i) \in {}
    OBVIOUS
  <2>2. s \in Seq({})
    BY <1>3, <2>1, IsASeq
  <2>3. DOMAIN s = {}
    BY <1>3
  <2> QED BY <2>2, <2>3, LenProperties
<1>5. s = << >>
  BY <1>4, EmptySeq
<1> QED BY <1>1, <1>2, <1>3, <1>5

\* What the authority decides of the first operation of a push is added to its results.
LEMMA ProgressHolds ==
  ASSUME AuthorityInv, LogStep, LocalShape, EpochInv, NetworkInv, UNCHANGED local,
         NEW m \in network, m.kind = "push", NEW result, Agrees(result)',
         network' = Progress(m, result)
  PROVE  \A k \in network' : k \in network \/ GoodMessage(k)'
<1>1. /\ m.replica \in Replicas /\ ResultsHold(m) /\ IsSequence(m.results)
      /\ m \in [kind : {"push"}, replica : {m.replica}, results : {m.results}, ops : {m.ops}]
  BY DEF NetworkInv, ResultsHold
<1>2. ResultsHold(m)'
  BY <1>1, NoEpochPasses, ResultsStay
<1>3. PICK results : results = Append(m.results, result)
  OBVIOUS
<1>4. PICK ops : ops = Tail(m.ops)
  OBVIOUS
<1>5. PICK k : k = [m EXCEPT !.ops = ops, !.results = results]
  OBVIOUS
<1>6. k \in [kind : {"push"}, replica : {m.replica}, results : {results}, ops : {ops}]
  BY <1>1, <1>5
<1>7. /\ IsSequence(results) /\ DOMAIN results = 1..(Len(m.results) + 1)
      /\ \A i \in DOMAIN m.results : results[i] = m.results[i]
      /\ results[Len(m.results) + 1] = result
      /\ DOMAIN m.results = 1..Len(m.results) /\ Len(m.results) \in Nat
  BY <1>1, <1>3, AppendedSequence, SequenceFacts
<1>8. \A i \in DOMAIN results : i \in DOMAIN m.results \/ results[i] = result
  BY <1>7
<1>9. local'[m.replica].epoch # 0
      /\ (local'[m.replica].epoch = authority'.epoch =>
            \A i \in DOMAIN results : Agrees(results[i])')
  <2>1. local'[m.replica].epoch # 0
    BY <1>2 DEF ResultsHold
  <2>2. ASSUME local'[m.replica].epoch = authority'.epoch, NEW i \in DOMAIN results
        PROVE  Agrees(results[i])'
    <3>1. CASE i \in DOMAIN m.results
      <4>1. Agrees(m.results[i])'
        BY <1>2, <2>2, <3>1 DEF ResultsHold
      <4> QED BY <1>7, <3>1, <4>1 DEF Agrees
    <3>2. CASE results[i] = result
      BY <3>2 DEF Agrees
    <3> QED BY <1>8, <3>1, <3>2
  <2> QED BY <2>1, <2>2
<1>10. k.results = results /\ k.replica = m.replica /\ k.kind = "push"
  BY <1>6
<1>11. ResultsHold(k)'
  BY <1>7, <1>9, <1>10 DEF ResultsHold
<1>12. GoodMessage(k)'
  BY <1>1, <1>6, <1>10, <1>11 DEF GoodMessage
<1>13. network' = (network \ {m}) \cup {k}
  BY <1>3, <1>4, <1>5 DEF Progress
<1> QED BY <1>12, <1>13

\* Every step: a message was there before, or holds what the log does.
LEMMA MessageSteps ==
  ASSUME AuthorityInv, LogStep, LocalShape, EpochInv, NetworkInv, ReplicationNext
  PROVE  \A k \in network' : k \in network \/ GoodMessage(k)'
<1>1. CASE UNCHANGED network
  BY <1>1
<1>2. ASSUME NEW r \in Replicas, Push(r)
      PROVE  \A k \in network' : k \in network \/ GoodMessage(k)'
  <2>1. PICK ops : network' \in Sent([kind |-> "push", replica |-> r, results |-> << >>,
                                      ops |-> ops], MaxPushes)
    BY <1>2 DEF Push
  <2>2. PICK m : m = [kind |-> "push", replica |-> r, results |-> << >>, ops |-> ops]
    OBVIOUS
  <2>3. \A k \in network' : k \in network \/ k = m
    BY <2>1, <2>2 DEF Sent
  <2>4. local'[r].epoch # 0
    <3>1. DOMAIN outgoing[r] # {}
      BY <1>2, PendingIsQueued DEF Push
    <3> QED BY <1>2, <3>1 DEF Push, clientVars, EpochInv
  <2>5. IsSequence(<< >>) /\ DOMAIN << >> = {}
    BY EmptySequence
  <2>6. ResultsHold(m)'
    BY <2>2, <2>4, <2>5 DEF ResultsHold
  <2>7. GoodMessage(m)'
    BY <2>2, <2>6 DEF GoodMessage
  <2> QED BY <2>3, <2>7
<1>3. ASSUME NEW r \in Replicas, Pull(r)
      PROVE  \A k \in network' : k \in network \/ GoodMessage(k)'
  <2>1. PICK m : m = Snapshot(r)
    OBVIOUS
  <2>2. m.kind = "snapshot" /\ m.replica = r
    BY <2>1 DEF Snapshot
  <2>3. GoodMessage(m)'
    BY <2>2 DEF GoodMessage
  <2>4. \A k \in network' : k \in network \/ k = m
    BY <1>3, <2>1 DEF Pull
  <2> QED BY <2>3, <2>4
<1>4. ASSUME NEW m \in network, AcceptAgain(m)
      PROVE  \A k \in network' : k \in network \/ GoodMessage(k)'
  <2>1. PICK i \in RowsAt(Head(m.ops)) :
          /\ authority.log[i].op = Head(m.ops)
          /\ network' = Progress(m, Result(Head(m.ops), authority.log[i].disposition, i))
    BY <1>4 DEF AcceptAgain
  <2>2. PICK result : result = Result(Head(m.ops), authority.log[i].disposition, i)
    OBVIOUS
  <2>3. i \in DOMAIN authority.log
    <3>1. authority.floor \in Nat /\ DOMAIN authority.log = 1..Len(authority.log)
          /\ Len(authority.log) \in Nat
      BY LogRows DEF AuthorityInv, AuthorityShape
    <3>2. i \in authority.floor + 1 .. Len(authority.log)
      BY DEF RowsAt, CurrentSequence
    <3> QED BY <3>1, <3>2
  <2>4. Agrees(result)'
    BY <1>4, <2>1, <2>2, <2>3 DEF AcceptAgain, Agrees, Result
  <2>5. m.kind = "push" /\ UNCHANGED local /\ network' = Progress(m, result)
    BY <1>4, <2>1, <2>2 DEF AcceptAgain, clientVars
  <2> QED BY <2>4, <2>5, ProgressHolds
<1>5. ASSUME NEW m \in network, AcceptOne(m)
      PROVE  \A k \in network' : k \in network \/ GoodMessage(k)'
  <2>1. PICK op : op = Head(m.ops)
    OBVIOUS
  <2>2. PICK result : result = Result(op, Disposition(op), CurrentSequence + 1)
    OBVIOUS
  <2>3. PICK row : row = [op |-> op, disposition |-> Disposition(op), data |-> DataAfter(op)]
    OBVIOUS
  <2>4. authority'.log = Append(authority.log, row)
    BY <1>5, <2>1, <2>3, AcceptingAuthority DEF AcceptOne
  <2>5. /\ DOMAIN authority'.log = 1..(Len(authority.log) + 1)
        /\ authority'.log[Len(authority.log) + 1] = row /\ Len(authority.log) \in Nat
    BY <2>4, AppendedSequence, LogRows DEF AuthorityInv, AuthorityShape
  <2>6. Agrees(result)'
    BY <2>2, <2>3, <2>5 DEF Agrees, Result, CurrentSequence
  <2>7. m.kind = "push" /\ UNCHANGED local /\ network' = Progress(m, result)
    BY <1>5, <2>1, <2>2 DEF AcceptOne, clientVars
  <2> QED BY <2>6, <2>7, ProgressHolds
<1>6. ASSUME NEW m \in network, Respond(m)
      PROVE  \A k \in network' : k \in network \/ GoodMessage(k)'
  <2>1. /\ m.replica \in Replicas /\ ResultsHold(m)
        /\ UNCHANGED local
    BY <1>6 DEF NetworkInv, Respond, clientVars
  <2>2. ResultsHold(m)'
    BY <2>1, NoEpochPasses, ResultsStay
  <2>3. PICK reply : reply = [kind |-> "reply", replica |-> m.replica, results |-> m.results,
                              epoch |-> authority.epoch]
    OBVIOUS
  <2>4. ResultsHold(reply)'
    BY <2>2, <2>3 DEF ResultsHold
  <2>5. GoodMessage(reply)'
    BY <2>1, <2>3, <2>4 DEF GoodMessage
  <2>6. \A k \in network' : k \in network \/ k = reply
    BY <1>6, <2>3 DEF Respond
  <2> QED BY <2>5, <2>6
<1>7. ASSUME NEW r \in Replicas, ReplicaNext(r)
      PROVE  UNCHANGED network \/ Push(r) \/ Pull(r)
  BY <1>7 DEF ReplicaNext, Register, InitializeLocal, GoSilent, Queue
<1>8. ASSUME NEW m, MessageNext(m)
      PROVE  UNCHANGED network \/ AcceptAgain(m) \/ AcceptOne(m) \/ Respond(m)
  BY <1>8 DEF MessageNext, Acknowledge, Install
<1> QED
  BY <1>1, <1>2, <1>3, <1>4, <1>5, <1>6, <1>7, <1>8
  DEF ReplicationNext, Retire, AuthorityWrites, Prune, Recover

-----------------------------------------------------------------------------
(* The invariant holds. *)

LEMMA ReplicationStarts == ReplicationInit => ReplicationInv
<1> SUFFICES ASSUME ReplicationInit
             PROVE  ReplicationInv
  OBVIOUS
<1>1. IsSequence(<< >>) /\ DOMAIN << >> = {}
  BY EmptySequence
<1>2. authority = Fresh
  BY DEF ReplicationInit
<1>3. AuthorityShape
  <2>1. IsGeneration(Stranger)
    BY DEF IsGeneration, Stranger
  <2> QED BY <1>1, <1>2, <2>1 DEF AuthorityShape, Fresh
<1>4. LocalShape
  BY <1>1 DEF LocalShape, ReplicationInit
<1>5. DataInv
  BY <1>1, <1>2 DEF DataInv, Fresh, Sound, Nothing
<1>6. FrontierInv
  <2>1. \A r : RowsOf(r) = {}
    BY <1>1, <1>2 DEF RowsOf, Fresh
  <2>2. \A r \in Replicas : authority.replica[r].accepted = Genesis
    BY <1>2 DEF Fresh, Stranger
  <2> QED BY <2>1, <2>2 DEF FrontierInv, FrontierFits, EachDotOnceInOrder
<1>7. NetworkInv
  BY DEF NetworkInv, ReplicationInit
<1>8. EpochInv /\ 1 <= authority.epoch
  BY <1>1, <1>2 DEF EpochInv, ReplicationInit, Fresh
<1>9. DecisionsAgreeWithTheLog
  BY <1>1 DEF DecisionsAgreeWithTheLog, ReplicationInit
<1> QED BY <1>3, <1>4, <1>5, <1>6, <1>7, <1>8, <1>9 DEF ReplicationInv

LEMMA ReplicationStep ==
  ASSUME ReplicationInv, ReplicationNext
  PROVE  ReplicationInv' /\ LogStep /\ EpochStep
<1>1. AuthorityInv /\ LocalShape /\ NetworkInv /\ EpochInv /\ DecisionsAgreeWithTheLog
  BY DEF ReplicationInv, AuthorityInv
<1>2. AuthorityInv' /\ LogStep
  BY <1>1, AuthoritySteps
<1>3. ASSUME NEW r \in Replicas, ReplicaNext(r)
      PROVE  EpochStep /\ QueueStep
  <2>1. \/ UNCHANGED <<local, outgoing>>
        \/ InitializeLocal(r) /\ UNCHANGED outgoing
        \/ \E x \in Records, command \in Commands : Queue(r, x, command)
    BY <1>3 DEF ReplicaNext, Register, InitializeLocal, Push, Pull, GoSilent, clientVars
  <2> QED BY <1>1, <2>1, NoEpochPasses, QueuesStay, EpochSteps, QueueSteps
<1>4. ASSUME NEW m \in network, MessageNext(m)
      PROVE  EpochStep /\ QueueStep
  <2>1. \/ UNCHANGED <<local, outgoing>>
        \/ Acknowledge(m) /\ UNCHANGED local
        \/ Install(m)
    BY <1>4 DEF MessageNext, AcceptAgain, AcceptOne, Respond, Acknowledge, clientVars
  <2> QED BY <1>1, <2>1, NoEpochPasses, QueuesStay, EpochSteps, QueueSteps
<1>5. EpochStep /\ QueueStep
  <2>1. UNCHANGED <<local, outgoing>> \/ (\E r \in Replicas : ReplicaNext(r))
        \/ \E m \in network : MessageNext(m)
    BY DEF ReplicationNext, Retire, AuthorityWrites, Prune, Recover, clientVars
  <2> QED BY <1>1, <1>3, <1>4, <2>1, NoEpochPasses, QueuesStay
<1>6. LocalShape' /\ EpochInv' /\ DecisionsAgreeWithTheLog'
  BY <1>1, <1>2, <1>5, ReplicasHold
<1>7. NetworkInv'
  BY <1>1, <1>2, <1>5, MessageSteps, MessagesHold
<1> QED BY <1>2, <1>5, <1>6, <1>7 DEF ReplicationInv, AuthorityInv

LEMMA ReplicationStutters ==
  ASSUME ReplicationInv, UNCHANGED replicationVars
  PROVE  ReplicationInv'
<1>1. /\ authority' = authority /\ local' = local /\ outgoing' = outgoing /\ network' = network
  BY DEF replicationVars
<1>2. AuthorityInv /\ LocalShape /\ NetworkInv /\ EpochInv /\ DecisionsAgreeWithTheLog
  BY DEF ReplicationInv, AuthorityInv
<1>3. LogStays
  BY <1>1 DEF LogStays
<1>4. AuthorityInv'
  BY <1>1, <1>2, <1>3, FrontierStays DEF AuthorityInv, AuthorityShape, DataInv
<1>5. EpochStep /\ QueueStep /\ LogStep
  BY <1>1, <1>2, <1>3, NoEpochPasses, QueuesStay DEF LogStep
<1>6. LocalShape' /\ EpochInv' /\ DecisionsAgreeWithTheLog'
  BY <1>2, <1>5, ReplicasHold
<1>7. NetworkInv'
  BY <1>1, <1>2, <1>5, MessagesHold
<1> QED BY <1>4, <1>6, <1>7 DEF ReplicationInv, AuthorityInv

LEMMA ReplicationIsInv == ReplicationSpec => []ReplicationInv
<1>1. ReplicationInv /\ [ReplicationNext]_replicationVars => ReplicationInv'
  BY ReplicationStep, ReplicationStutters
<1> QED BY <1>1, ReplicationStarts, PTL DEF ReplicationSpec

-----------------------------------------------------------------------------
(* What is promised. *)

\* Each generation is in the log with its operations 1, 2, ... once each, in order, each
\* after the digest of the one before (acceptOneOperation), however pushes are repeated,
\* cut short or reordered and whichever rows are pruned or recovered.
THEOREM DotsOnceInOrder == ReplicationSpec => []EachDotOnceInOrder
<1>1. ReplicationInv => EachDotOnceInOrder
  BY DEF ReplicationInv, FrontierInv
<1> QED BY <1>1, ReplicationIsInv, PTL

\* What acknowledgeReplicationPush has decided is what the log of the replica's epoch
\* says at that number.
THEOREM DecisionsAgree == ReplicationSpec => []DecisionsAgreeWithTheLog
<1>1. ReplicationInv => DecisionsAgreeWithTheLog
  BY DEF ReplicationInv
<1> QED BY <1>1, ReplicationIsInv, PTL

\* No operation, write or recovery brings a retired identity back.
THEOREM RetiredIsGone == ReplicationSpec => []RetiredStaysRetired
<1>1. ReplicationInv => RetiredStaysRetired
  BY DEF ReplicationInv, DataInv, Sound, RetiredStaysRetired
<1> QED BY <1>1, ReplicationIsInv, PTL

\* A row that a step adds is of the epoch that the authority is in, and while that is
\* the epoch no row is written again.
RowsKept == authority'.epoch = authority.epoch =>
              \A n \in DOMAIN authority.log : authority'.log[n] = authority.log[n]

RowsFenced == \A n \in DOMAIN authority'.log :
                n > Len(authority.log) => authority'.log[n].op.epoch = authority.epoch

LEMMA RowsAreFinal ==
  ASSUME ReplicationInv, ReplicationNext
  PROVE  RowsKept /\ RowsFenced
<1>1. LogStep /\ AuthorityShape
  BY ReplicationStep DEF ReplicationInv
<1>2. Len(authority.log) \in Nat /\ DOMAIN authority.log = 1..Len(authority.log)
  BY <1>1, LogRows
<1>3. CASE LogStays
  BY <1>2, <1>3 DEF LogStays, RowsKept, RowsFenced
<1>4. ASSUME NEW op, Accepts(op)
      PROVE  RowsKept /\ RowsFenced
  <2>1. PICK row : authority'.log = Append(authority.log, row) /\ row.op = op
    BY <1>4 DEF Accepts
  <2>2. /\ DOMAIN authority'.log = 1..(Len(authority.log) + 1)
        /\ authority'.log[Len(authority.log) + 1] = row
        /\ \A n \in DOMAIN authority.log : authority'.log[n] = authority.log[n]
    BY <1>1, <2>1, AppendedSequence DEF AuthorityShape
  <2>3. op.epoch = authority.epoch
    BY <1>4 DEF Accepts
  <2> QED BY <1>2, <2>1, <2>2, <2>3 DEF RowsKept, RowsFenced
<1>5. ASSUME NEW n \in 0..CurrentSequence, Recovers(n)
      PROVE  RowsKept /\ RowsFenced
  <2>1. n \in Nat /\ n <= Len(authority.log)
    BY <1>2 DEF CurrentSequence
  <2>2. \A i \in 1..n : authority.log[i] \in Elements(authority.log)
    BY <1>2, <2>1 DEF Elements
  <2>3. /\ SubSeq(authority.log, 1, n) \in Seq(Elements(authority.log))
        /\ Len(SubSeq(authority.log, 1, n)) = n
    BY <2>1, <2>2, SubSeqProperties
  <2>4. DOMAIN authority'.log = 1..n
    BY <1>5, <2>3, LenProperties DEF Recovers
  <2>5. RowsFenced
    BY <1>2, <2>1, <2>4 DEF RowsFenced
  <2>6. authority'.epoch # authority.epoch
    <3>1. PICK e \in Nat : e = authority.epoch
      BY <1>1 DEF AuthorityShape
    <3> QED BY <1>5, <3>1 DEF Recovers
  <2> QED BY <2>5, <2>6 DEF RowsKept
<1> QED BY <1>1, <1>3, <1>4, <1>5 DEF LogStep

-----------------------------------------------------------------------------
(* One generation's queue is a chain. *)

\* The operation at counter c of a queue; what precedes the first is Genesis.
OpAt(s, c) == IF c = 0 THEN Genesis ELSE s[c].op

\* An operation declares what its command makes of its base.
Fits(op) == Legal(op.command, op.base) /\ Outcome(op.command, op.base) = op.outcome

\* What a commitment can be, seen from outside.
States == {Absent} \cup [body : Bodies \cup {ByAuthority}, deleted : BOOLEAN]

Shows(v) == v \in [Records -> States]

HasFields(op, r) ==
  op \in [origin : {r}, counter : Nat, previous : {op.previous}, epoch : {op.epoch},
          observed : {op.observed}, record : Records, command : Commands,
          base : States, outcome : States]

IsOperation(op, r) == HasFields(op, r) /\ Fits(op)

\* The queue s of r, of which r knows the end (me): numbered from 1, each operation
\* after the digest of the one before, the decided ones first.
IsChain(r, s, me) ==
  /\ me.next = Len(s) + 1 /\ me.previous = OpAt(s, Len(s))
  /\ \A c \in DOMAIN s : /\ IsOperation(s[c].op, r) /\ s[c].op.counter = c
                         /\ s[c].op.previous = OpAt(s, c - 1)
  /\ \A c, d \in DOMAIN s : c <= d /\ s[d].status # "pending" => s[c].status # "pending"

ChainInv == \A r \in Replicas : IsChain(r, outgoing[r], local[r])

\* What is on the way for r is a run of operations of its queue, up to which all are
\* decided: the results first, then the operations still to accept.
Settled(r, c) == c \in DOMAIN outgoing[r] /\ outgoing[r][c].status # "pending"

RunsFrom(m, start) ==
  /\ \A c \in 1..(start - 1) : Settled(m.replica, c)
  /\ start - 1 + Len(m.results) <= Len(outgoing[m.replica])
  /\ \A i \in DOMAIN m.results : /\ m.results[i].op.counter = start - 1 + i
                                 /\ m.results[i].disposition # "pending"
  /\ m.kind = "push" =>
       /\ IsSequence(m.ops)
       /\ start - 1 + Len(m.results) + Len(m.ops) <= Len(outgoing[m.replica])
       /\ \A i \in DOMAIN m.ops : /\ m.ops[i].counter = start - 1 + Len(m.results) + i
                                  /\ IsOperation(m.ops[i], m.replica)

RunInv ==
  /\ \A i \in DOMAIN authority.log : authority.log[i].disposition # "pending"
  /\ \A m \in network :
       /\ m.kind \in {"push", "reply"} => \E start \in Nat \ {0} : RunsFrom(m, start)
       /\ m.kind = "snapshot" => m.accepted.counter \in Nat

\* Every database, and every snapshot of one, shows states of commitments.
ShowInv ==
  /\ view = [r \in Replicas |-> view[r]] /\ \A r \in Replicas : Shows(view[r])
  /\ Shows(authority.data.records)
  /\ \A i \in DOMAIN authority.log : Shows(authority.log[i].data.records)
  /\ \A m \in network : m.kind = "snapshot" => Shows(m.records)

\* What is pending is the rest of the queue after the decided ones.
LEMMA PendingIsTheRest ==
  ASSUME NEW r \in Replicas, IsSequence(outgoing[r]), IsChain(r, outgoing[r], local[r])
  PROVE  \E done \in 0..Len(outgoing[r]) :
           /\ \A c \in DOMAIN outgoing[r] : outgoing[r][c].status = "pending" <=> done < c
           /\ IsSequence(Pending(r)) /\ Len(Pending(r)) = Len(outgoing[r]) - done
           /\ \A i \in 1..Len(Pending(r)) : Pending(r)[i] = outgoing[r][done + i]
<1>1. PICK n \in Nat : n = Len(outgoing[r]) /\ DOMAIN outgoing[r] = 1..n
  BY SequenceFacts
<1>2. PICK undecided \in SUBSET (1..n) :
        undecided = {c \in DOMAIN outgoing[r] : outgoing[r][c].status = "pending"}
  BY <1>1
<1>3. PICK done \in 0..n : undecided = (done + 1)..n
  <2>1. CASE undecided = {}
    BY <2>1
  <2>2. CASE undecided # {}
    <3>1. PICK c \in undecided : \A d \in undecided : c <= d
      BY <2>2, LeastNumber
    <3>2. ASSUME NEW d \in c..n
          PROVE  d \in undecided
      <4>1. c \in DOMAIN outgoing[r] /\ d \in DOMAIN outgoing[r] /\ c <= d
        BY <1>1, <3>1
      <4>2. outgoing[r][c].status = "pending"
        BY <1>2, <3>1
      <4>3. outgoing[r][d].status = "pending"
        BY <4>1, <4>2 DEF IsChain
      <4> QED BY <1>2, <4>1, <4>3
    <3>3. undecided = c..n
      <4>1. \A d \in undecided : d \in 1..n /\ c <= d
        BY <3>1
      <4>2. \A d \in undecided : d \in c..n
        BY <3>1, <4>1
      <4> QED BY <3>2, <4>2
    <3>4. c - 1 \in 0..n /\ (c - 1) + 1 = c
      BY <3>1
    <3> QED BY <3>3, <3>4
  <2> QED BY <2>1, <2>2
<1>4. \A i \in Nat : Cardinality((done + 1)..(done + i)) = i
  <2>1. ASSUME NEW i \in Nat
        PROVE  Cardinality((done + 1)..(done + i)) = i
    <3>1. Cardinality((done + 1)..(done + i)) =
            IF done + 1 > done + i THEN 0 ELSE (done + i) - (done + 1) + 1
      BY FS_Interval
    <3> QED BY <3>1
  <2> QED BY <2>1
<1>5. PICK size \in Nat : size = n - done
  OBVIOUS
<1>6. Cardinality(undecided) = size
  <2>1. n = done + size
    BY <1>5
  <2> QED BY <1>3, <1>4, <2>1
<1>7. ASSUME NEW i \in 1..size
      PROVE  (CHOOSE c \in undecided : Cardinality({d \in undecided : d <= c}) = i) = done + i
  <2>1. ASSUME NEW c \in undecided
        PROVE  Cardinality({d \in undecided : d <= c}) = c - done
    <3>1. c - done \in Nat /\ done + (c - done) = c
      BY <1>3
    <3>2. {d \in undecided : d <= c} = (done + 1)..c
      BY <1>3
    <3> QED BY <1>4, <3>1, <3>2
  <2>2. done + i \in undecided /\ (done + i) - done = i
    BY <1>3, <1>5
  <2>3. \A c \in undecided : Cardinality({d \in undecided : d <= c}) = i <=> c = done + i
    <3>1. \A c \in undecided : c - done = i <=> c = done + i
      BY <1>3
    <3> QED BY <2>1, <3>1
  <2> QED BY <2>2, <2>3
<1>8. Pending(r) = [i \in 1..size |->
        outgoing[r][CHOOSE c \in undecided : Cardinality({d \in undecided : d <= c}) = i]]
  BY <1>2, <1>6 DEF Pending
<1>9. PICK rest : rest = Pending(r)
  OBVIOUS
<1>10. DOMAIN rest = 1..size /\ \A i \in 1..size : rest[i] = outgoing[r][done + i]
  BY <1>7, <1>8, <1>9
<1>11. rest = [i \in 1..size |-> rest[i]]
  BY <1>8, <1>9, <1>10
<1>12. IsSequence(rest) /\ Len(rest) = size
  <2>1. IsSequence(rest)
    BY <1>11, ASequence
  <2>2. Len(rest) \in Nat /\ DOMAIN rest = 1..Len(rest)
    BY <2>1, SequenceFacts
  <2> QED BY <1>10, <2>1, <2>2
<1>13. \A c \in DOMAIN outgoing[r] : outgoing[r][c].status = "pending" <=> done < c
  BY <1>1, <1>2, <1>3
<1> QED BY <1>1, <1>5, <1>9, <1>10, <1>12, <1>13


\* The replay is the run of its steps.
LEMMA ReplayRuns ==
  ASSUME NEW r \in Replicas, NEW m, Len(Pending(r)) \in Nat
  PROVE  \E after :
           /\ after = [i \in 0..Len(Pending(r)) |->
                         IF i = 0 THEN ReplayStart(r, m)
                         ELSE ReplayStep(after[i - 1], Pending(r)[i].op, m)]
           /\ Replay(r, m) = after[Len(Pending(r))]
<1> DEFINE Runs(f, n) == f = [i \in 0..n |-> IF i = 0 THEN ReplayStart(r, m)
                                            ELSE ReplayStep(f[i - 1], Pending(r)[i].op, m)]
<1>1. \A n \in Nat : \E f : Runs(f, n)
  <2> DEFINE Stuck == {n \in Nat : ~\E f : Runs(f, n)}
  <2> SUFFICES ASSUME Stuck # {}
               PROVE  FALSE
    OBVIOUS
  <2>1. PICK n \in Stuck : \A k \in Stuck : n <= k
    <3>1. Stuck \in SUBSET Nat
      OBVIOUS
    <3> HIDE DEF Stuck
    <3> QED BY <3>1, LeastNumber
  <2>2. n \in Nat /\ ~\E f : Runs(f, n)
    OBVIOUS
  <2>3. CASE n = 0
    <3>1. PICK f : f = [i \in 0..0 |-> ReplayStart(r, m)]
      OBVIOUS
    <3>2. Runs(f, 0)
      BY <3>1
    <3> QED BY <2>2, <2>3, <3>2
  <2>4. CASE n # 0
    <3>1. n - 1 \in Nat /\ n - 1 \notin Stuck
      BY <2>1, <2>2, <2>4
    <3>2. PICK f : Runs(f, n - 1)
      BY <3>1
    <3>3. PICK last : last = ReplayStep(f[n - 1], Pending(r)[n].op, m)
      OBVIOUS
    <3>4. PICK g : g = [i \in 0..n |-> IF i = n THEN last ELSE f[i]]
      OBVIOUS
    <3>5. \A i \in 0..(n - 1) : f[i] = IF i = 0 THEN ReplayStart(r, m)
                                       ELSE ReplayStep(f[i - 1], Pending(r)[i].op, m)
      BY <3>2
    <3>6. \A i \in 0..n : g[i] = IF i = 0 THEN ReplayStart(r, m)
                                 ELSE ReplayStep(g[i - 1], Pending(r)[i].op, m)
      <4>1. \A i \in 0..(n - 1) : g[i] = f[i]
        BY <2>2, <3>4
      <4>2. g[n] = last
        BY <2>2, <3>4
      <4>3. ASSUME NEW i \in 0..n
            PROVE  g[i] = IF i = 0 THEN ReplayStart(r, m)
                          ELSE ReplayStep(g[i - 1], Pending(r)[i].op, m)
        <5>1. CASE i = n
          <6>1. g[i - 1] = f[n - 1]
            BY <2>2, <2>4, <4>1, <5>1
          <6> QED BY <2>4, <3>3, <4>2, <5>1, <6>1
        <5>2. CASE i # n
          <6>1. i \in 0..(n - 1)
            BY <2>2, <5>2
          <6>2. i # 0 => i - 1 \in 0..(n - 1)
            BY <2>2, <6>1
          <6> QED BY <3>5, <4>1, <6>1, <6>2
        <5> QED BY <5>1, <5>2
      <4> QED BY <4>3
    <3>7. Runs(g, n)
      BY <3>4, <3>6
    <3> QED BY <2>2, <3>7
  <2> QED BY <2>3, <2>4
<1>2. PICK n \in Nat : n = Len(Pending(r))
  OBVIOUS
<1>3. PICK after : after = CHOOSE f : Runs(f, n)
  OBVIOUS
<1>4. Runs(after, n)
  BY <1>1, <1>3
<1>5. Replay(r, m) = after[n]
  BY <1>2, <1>3 DEF Replay
<1> QED BY <1>2, <1>4, <1>5

-----------------------------------------------------------------------------
(* The replay. *)

LEMMA OutcomeIsState ==
  ASSUME NEW command \in Commands, NEW s \in States, Legal(command, s)
  PROVE  Outcome(command, s) \in States
<1>1. /\ command.kind \in {"create", "update", "delete", "restore"}
      /\ command.kind \in {"create", "update"} => command.body \in Bodies
  BY DEF Commands
<1>2. CASE command.kind \in {"create", "update"}
  BY <1>1, <1>2 DEF Outcome, States
<1>3. CASE command.kind \in {"delete", "restore"}
  <2>1. s \in [body : Bodies \cup {ByAuthority}, deleted : BOOLEAN]
    BY <1>3 DEF Legal, States
  <2>2. [s EXCEPT !.deleted = TRUE] \in States /\ [s EXCEPT !.deleted = FALSE] \in States
    BY <2>1 DEF States
  <2> QED BY <1>3, <2>2 DEF Outcome
<1> QED BY <1>1, <1>2, <1>3

\* What the view shows is what it started with, but for the commitments of operations
\* before that were rebased; an operation takes it for its base, or keeps its own.
ReplayShows(s, i, m, were, start) ==
  /\ \A x \in Records : \/ s.view[x] = start[x]
                        \/ \E j \in 1..i : were[j].record = x /\ Rebases(were[j], m)
  /\ \A j \in 1..i : \/ s.ops[j].base = were[j].base
                     \/ s.ops[j].base = start[were[j].record]
                     \/ \E k \in 1..(j - 1) : were[k].record = were[j].record
  /\ (\A j \in 1..i : ~Rebases(were[j], m)) => s.view = start

\* After the i-th of the operations `were`, which follow the counter `done` and the
\* digest `first`, over the view `start`.
Replayed(s, i, r, m, were, done, first, start) ==
  /\ s \in [view : {s.view}, previous : {s.previous}, ops : {s.ops}, fits : {s.fits}]
  /\ s.fits \in BOOLEAN
  /\ IsSequence(s.ops) /\ Len(s.ops) = i
  /\ s.previous = IF i = 0 THEN first ELSE s.ops[i]
  /\ \A j \in 1..i : /\ s.ops[j].counter = done + j
                     /\ s.ops[j].record = were[j].record
                     /\ s.ops[j].previous = IF j = 1 THEN first ELSE s.ops[j - 1]
                     /\ ~Rebases(were[j], m) => s.ops[j] = were[j]
                     /\ s.fits => IsOperation(s.ops[j], r)
  /\ s.fits => Shows(s.view) /\ ReplayShows(s, i, m, were, start)

LEMMA ReplayGoes ==
  ASSUME NEW r, NEW m, m.accepted.counter \in Nat, NEW were, NEW done \in Nat, NEW first, NEW start,
         NEW i \in Nat \ {0}, NEW s, Replayed(s, i - 1, r, m, were, done, first, start),
         \A j \in 1..i : /\ IsOperation(were[j], r) /\ were[j].counter = done + j
                         /\ were[j].previous = IF j = 1 THEN first ELSE were[j - 1]
  PROVE  Replayed(ReplayStep(s, were[i], m), i, r, m, were, done, first, start)
<1>1. PICK op : op = were[i]
  OBVIOUS
<1>2. /\ IsOperation(op, r) /\ op.counter = done + i
      /\ op.previous = IF i = 1 THEN first ELSE were[i - 1]
  BY <1>1
<1>3. PICK t : t = ReplayStep(s, op, m)
  OBVIOUS
<1>4. /\ s \in [view : {s.view}, previous : {s.previous}, ops : {s.ops}, fits : {s.fits}]
      /\ s.fits \in BOOLEAN
      /\ IsSequence(s.ops) /\ Len(s.ops) = i - 1 /\ DOMAIN s.ops = 1..(i - 1)
      /\ s.previous = IF i = 1 THEN first ELSE s.ops[i - 1]
  BY SequenceFacts DEF Replayed
<1>5. PICK new : /\ t \in [view : {t.view}, previous : {new}, ops : {Append(s.ops, new)}, fits : {t.fits}]
                 /\ t.fits \in BOOLEAN /\ (t.fits => s.fits)
                 /\ new.counter = done + i /\ new.record = op.record
                 /\ new.previous = IF i = 1 THEN first ELSE s.ops[i - 1]
                 /\ ~Rebases(op, m) => new = op
                 /\ t.fits => IsOperation(new, r) /\ Shows(t.view)
                 /\ ~Rebases(op, m) => t.view = s.view
                 /\ t.fits => \A x \in Records : x # op.record => t.view[x] = s.view[x]
                 /\ new.base = op.base \/ new.base = s.view[op.record]
  <2>1. CASE ~Rebases(op, m)
    <3>1. PICK ops : ops = Append(s.ops, op)
      OBVIOUS
    <3>2. t = [s EXCEPT !.previous = op, !.ops = ops]
      BY <1>3, <2>1, <3>1 DEF ReplayStep
    <3>3. t \in [view : {s.view}, previous : {op}, ops : {ops}, fits : {s.fits}]
      BY <1>4, <3>2
    <3>4. op.previous = IF i = 1 THEN first ELSE s.ops[i - 1]
      <4>1. CASE i = 1
        BY <1>2, <4>1
      <4>2. CASE i # 1
        <5>1. i - 1 \in 1..(i - 1) /\ were[i - 1].counter = done + (i - 1)
          BY <4>2
        <5>2. ~Rebases(were[i - 1], m)
          BY <1>2, <2>1, <5>1 DEF Rebases
        <5>3. s.ops[i - 1] = were[i - 1]
          BY <5>1, <5>2 DEF Replayed
        <5> QED BY <1>2, <4>2, <5>3
      <4> QED BY <4>1, <4>2
    <3>5. t.fits => Shows(t.view)
      BY <3>3 DEF Replayed
    <3> QED BY <1>2, <1>4, <2>1, <3>1, <3>3, <3>4, <3>5
  <2>2. CASE Rebases(op, m)
    <3>1. PICK replays \in BOOLEAN :
            replays = ((op.command.kind = "create") # (s.view[op.record] # Absent))
      OBVIOUS
    <3>2. PICK base : base = s.view[op.record]
      OBVIOUS
    <3>3. PICK new : new = Rebased(op, m, s.view, s.previous)
      OBVIOUS
    <3>4. PICK fits \in BOOLEAN : fits = (s.fits /\ (replays => Legal(op.command, base)))
      OBVIOUS
    <3>5. PICK shown : shown = IF replays
                               THEN [s.view EXCEPT ![op.record] = Outcome(op.command, base)]
                               ELSE s.view
      OBVIOUS
    <3>6. t = [view |-> shown, previous |-> new, ops |-> Append(s.ops, new), fits |-> fits]
      BY <1>3, <2>2, <3>1, <3>2, <3>3, <3>4, <3>5 DEF ReplayStep
    <3>7. op \in [origin : {r}, counter : Nat, previous : {op.previous}, epoch : {op.epoch},
                  observed : {op.observed}, record : Records, command : Commands,
                  base : States, outcome : States]
      BY <1>2 DEF IsOperation, HasFields
    <3>8. PICK moved : moved = [op EXCEPT !.previous = s.previous, !.epoch = m.epoch, !.observed = m.covered]
      OBVIOUS
    <3>9. /\ moved \in [origin : {r}, counter : Nat, previous : {s.previous}, epoch : {m.epoch},
                        observed : {m.covered}, record : Records, command : Commands,
                        base : States, outcome : States]
          /\ moved.counter = op.counter /\ moved.record = op.record /\ moved.command = op.command
          /\ moved.base = op.base /\ moved.outcome = op.outcome
      BY <3>7, <3>8
    <3>10. CASE replays
      <4>1. PICK outcome : outcome = Outcome(op.command, base)
        OBVIOUS
      <4>2. new = [moved EXCEPT !.base = base, !.outcome = outcome]
        BY <3>1, <3>2, <3>3, <3>8, <3>10, <4>1 DEF Rebased
      <4>3. new.counter = op.counter /\ new.record = op.record /\ new.previous = s.previous
        BY <3>9, <4>2
      <4>5. new.base = s.view[op.record]
        BY <3>2, <3>9, <4>2
      <4>4. ASSUME fits
            PROVE  /\ IsOperation(new, r) /\ Shows(shown)
                   /\ \A x \in Records : x # op.record => shown[x] = s.view[x]
        <5>1. s.fits /\ Legal(op.command, base) /\ Shows(s.view)
          BY <3>4, <3>10, <4>4 DEF Replayed
        <5>2. base \in States /\ op.record \in Records /\ op.command \in Commands
          BY <3>2, <3>7, <5>1 DEF Shows
        <5>3. outcome \in States
          BY <4>1, <5>1, <5>2, OutcomeIsState
        <5>4. /\ new \in [origin : {r}, counter : Nat, previous : {s.previous}, epoch : {m.epoch},
                          observed : {m.covered}, record : Records, command : Commands,
                          base : States, outcome : States]
              /\ new.command = op.command /\ new.base = base /\ new.outcome = outcome
          BY <3>9, <4>2, <5>2, <5>3
        <5>5. HasFields(new, r) /\ Fits(new)
          BY <4>1, <5>1, <5>4 DEF HasFields, Fits
        <5>6. Shows(shown)
          BY <3>5, <3>10, <4>1, <5>1, <5>2, <5>3 DEF Shows
        <5>7. \A x \in Records : x # op.record => shown[x] = s.view[x]
          BY <3>5, <3>10, <5>1, <5>2 DEF Shows
        <5> QED BY <5>5, <5>6, <5>7 DEF IsOperation
      <4> QED BY <1>2, <1>4, <2>2, <3>4, <3>6, <4>3, <4>4, <4>5
    <3>11. CASE ~replays
      <4>1. new = moved
        BY <3>1, <3>3, <3>8, <3>11 DEF Rebased
      <4>2. IsOperation(new, r)
        BY <1>2, <3>9, <4>1 DEF IsOperation, HasFields, Fits
      <4>3. t.fits => Shows(t.view)
        BY <3>4, <3>5, <3>6, <3>11 DEF Replayed
      <4>4. /\ new.counter = op.counter /\ new.record = op.record /\ new.previous = s.previous
            /\ new.base = op.base
        BY <3>9, <4>1
      <4>5. t.view = s.view
        BY <3>5, <3>6, <3>11
      <4> QED BY <1>2, <1>4, <2>2, <3>4, <3>6, <4>2, <4>3, <4>4, <4>5
    <3> QED BY <3>10, <3>11
  <2> QED BY <2>1, <2>2
<1>6. /\ IsSequence(t.ops) /\ DOMAIN t.ops = 1..i /\ t.ops[i] = new
      /\ \A j \in 1..(i - 1) : t.ops[j] = s.ops[j]
  <2>1. t.ops = Append(s.ops, new)
    BY <1>5
  <2>2. PICK before : before = s.ops
    OBVIOUS
  <2>3. /\ IsSequence(before) /\ Len(before) = i - 1 /\ DOMAIN before = 1..(i - 1)
        /\ (i - 1) + 1 = i
    BY <1>4, <2>2
  <2>4. /\ IsSequence(Append(before, new)) /\ DOMAIN Append(before, new) = 1..(Len(before) + 1)
        /\ \A j \in DOMAIN before : Append(before, new)[j] = before[j]
        /\ Append(before, new)[Len(before) + 1] = new
    BY <2>3, AppendedSequence
  <2> QED BY <2>1, <2>2, <2>3, <2>4
<1>7. Len(t.ops) = i
  BY <1>6, SequenceFacts
<1>8. ASSUME NEW j \in 1..i
      PROVE  /\ t.ops[j].counter = done + j
             /\ t.ops[j].record = were[j].record
             /\ t.ops[j].previous = IF j = 1 THEN first ELSE t.ops[j - 1]
             /\ ~Rebases(were[j], m) => t.ops[j] = were[j]
             /\ t.fits => IsOperation(t.ops[j], r)
  <2>1. CASE j = i
    <3>1. i # 1 => t.ops[i - 1] = s.ops[i - 1]
      <4>1. i # 1 => i - 1 \in 1..(i - 1)
        OBVIOUS
      <4> QED BY <1>6, <4>1
    <3> QED BY <1>1, <1>5, <1>6, <2>1, <3>1
  <2>2. CASE j # i
    <3>1. j \in 1..(i - 1) /\ (j # 1 => j - 1 \in 1..(i - 1))
      BY <2>2
    <3>2. t.ops[j] = s.ops[j] /\ (j # 1 => t.ops[j - 1] = s.ops[j - 1])
      BY <1>6, <3>1
    <3> QED BY <1>5, <3>1, <3>2 DEF Replayed
  <2> QED BY <2>1, <2>2
<1>9. /\ t \in [view : {t.view}, previous : {t.previous}, ops : {t.ops}, fits : {t.fits}]
      /\ t.previous = t.ops[i]
  BY <1>5, <1>6
<1>10. ASSUME t.fits
       PROVE  ReplayShows(t, i, m, were, start)
  <2>1. ReplayShows(s, i - 1, m, were, start) /\ op.record \in Records
    BY <1>2, <1>5, <1>10 DEF Replayed, IsOperation, HasFields
  <2>2. /\ \A j \in 1..(i - 1) : j \in 1..i
        /\ \A j \in 1..i : j \in 1..(i - 1) \/ j = i
        /\ i \in 1..i
    OBVIOUS
  <2>3. ASSUME NEW x \in Records
        PROVE  t.view[x] = start[x] \/ \E j \in 1..i : were[j].record = x /\ Rebases(were[j], m)
    <3>1. s.view[x] = start[x] \/ \E j \in 1..i : were[j].record = x /\ Rebases(were[j], m)
      BY <2>1, <2>2 DEF ReplayShows
    <3>2. t.view[x] = s.view[x] \/ (were[i].record = x /\ Rebases(were[i], m))
      <4>1. CASE ~Rebases(op, m)
        BY <1>5, <4>1
      <4>2. CASE x # op.record
        BY <1>5, <1>10, <4>2
      <4>3. CASE x = op.record /\ Rebases(op, m)
        BY <1>1, <4>3
      <4> QED BY <4>1, <4>2, <4>3
    <3> QED BY <2>2, <3>1, <3>2
  <2>4. ASSUME NEW j \in 1..i
        PROVE  \/ t.ops[j].base = were[j].base
               \/ t.ops[j].base = start[were[j].record]
               \/ \E k \in 1..(j - 1) : were[k].record = were[j].record
    <3>1. CASE j = i
      <4>1. t.ops[j].base = were[j].base \/ t.ops[j].base = s.view[were[j].record]
        BY <1>1, <1>5, <1>6, <3>1
      <4>2. \/ s.view[were[j].record] = start[were[j].record]
            \/ \E k \in 1..(j - 1) : were[k].record = were[j].record
        BY <1>1, <2>1, <3>1 DEF ReplayShows
      <4> QED BY <4>1, <4>2
    <3>2. CASE j \in 1..(i - 1)
      BY <1>6, <2>1, <3>2 DEF ReplayShows
    <3> QED BY <2>2, <3>1, <3>2
  <2>5. (\A j \in 1..i : ~Rebases(were[j], m)) => t.view = start
    BY <1>1, <1>5, <2>1, <2>2 DEF ReplayShows
  <2> QED BY <2>3, <2>4, <2>5 DEF ReplayShows
<1>11. Replayed(t, i, r, m, were, done, first, start)
  BY <1>5, <1>6, <1>7, <1>8, <1>9, <1>10 DEF Replayed
<1> QED BY <1>1, <1>3, <1>11

\* The operations of the queue s after its first `done`.
RestOf(s, done) == [i \in 1..(Len(s) - done) |-> s[done + i].op]

Cleared(r, m) == ReplayStart(r, m).view

\* A replay of what is pending continues the chain of what is decided.
LEMMA ReplayHolds ==
  ASSUME NEW r \in Replicas, IsSequence(outgoing[r]), IsChain(r, outgoing[r], local[r]),
         NEW m, m.accepted.counter \in Nat, Shows(m.records), Shows(view[r])
  PROVE  \E done \in 0..Len(outgoing[r]) :
           /\ \A c \in DOMAIN outgoing[r] : outgoing[r][c].status = "pending" <=> done < c
           /\ Len(Pending(r)) = Len(outgoing[r]) - done
           /\ \A i \in 1..(Len(outgoing[r]) - done) : Pending(r)[i].op = RestOf(outgoing[r], done)[i]
           /\ Replayed(Replay(r, m), Len(outgoing[r]) - done, r, m, RestOf(outgoing[r], done), done,
                       OpAt(outgoing[r], done), Cleared(r, m))
<1>1. PICK n \in Nat : n = Len(outgoing[r]) /\ DOMAIN outgoing[r] = 1..n
  BY SequenceFacts
<1>2. PICK done \in 0..n :
        /\ \A c \in DOMAIN outgoing[r] : outgoing[r][c].status = "pending" <=> done < c
        /\ IsSequence(Pending(r)) /\ Len(Pending(r)) = n - done
        /\ \A i \in 1..Len(Pending(r)) : Pending(r)[i] = outgoing[r][done + i]
  BY <1>1, PendingIsTheRest
<1>3. PICK size \in Nat : size = n - done
  BY <1>2
<1>4. PICK were : were = RestOf(outgoing[r], done)
  OBVIOUS
<1>5. PICK first : first = OpAt(outgoing[r], done)
  OBVIOUS
<1>6. PICK start : start = Cleared(r, m)
  OBVIOUS
<1>7. /\ DOMAIN were = 1..size
      /\ \A i \in 1..size : were[i] = outgoing[r][done + i].op /\ were[i] = Pending(r)[i].op
  BY <1>1, <1>2, <1>3, <1>4 DEF RestOf
<1>8. \A j \in 1..size : /\ IsOperation(were[j], r) /\ were[j].counter = done + j
                         /\ were[j].previous = IF j = 1 THEN first ELSE were[j - 1]
  <2>1. ASSUME NEW j \in 1..size
        PROVE  /\ IsOperation(were[j], r) /\ were[j].counter = done + j
               /\ were[j].previous = IF j = 1 THEN first ELSE were[j - 1]
    <3>1. /\ done + j \in DOMAIN outgoing[r] /\ (done + j) - 1 = done + (j - 1)
          /\ (j = 1 => done + (j - 1) = done)
          /\ (j # 1 => j - 1 \in 1..size /\ done + (j - 1) # 0)
      <4>1. done + j \in 1..n
        BY <1>3
      <4>2. (done + j) - 1 = done + (j - 1) /\ (j = 1 => done + (j - 1) = done)
        OBVIOUS
      <4>3. j # 1 => j - 1 \in 1..size /\ done + (j - 1) # 0
        OBVIOUS
      <4> QED BY <1>1, <4>1, <4>2, <4>3
    <3>2. /\ IsOperation(were[j], r) /\ were[j].counter = done + j
          /\ were[j].previous = OpAt(outgoing[r], done + (j - 1))
      BY <1>7, <3>1 DEF IsChain
    <3>3. CASE j = 1
      BY <1>5, <3>1, <3>2, <3>3
    <3>4. CASE j # 1
      <4>1. OpAt(outgoing[r], done + (j - 1)) = outgoing[r][done + (j - 1)].op
        BY <3>1, <3>4 DEF OpAt
      <4>2. were[j - 1] = outgoing[r][done + (j - 1)].op
        BY <1>7, <3>1, <3>4
      <4> QED BY <3>2, <3>4, <4>1, <4>2
    <3> QED BY <3>3, <3>4
  <2> QED BY <2>1
<1>9. FirstPrevious(r) = first
  <2>1. Pending(r) = << >> <=> size = 0
    <3>1. PICK rest : rest = Pending(r) /\ IsSequence(rest) /\ Len(rest) = size
      BY <1>2, <1>3
    <3>2. rest = << >> <=> Len(rest) = 0
      BY <3>1, EmptySeq DEF IsSequence
    <3> QED BY <3>1, <3>2
  <2>2. CASE size = 0
    <3>1. done = n
      BY <1>3, <2>2
    <3> QED BY <1>1, <1>5, <2>1, <2>2, <3>1 DEF FirstPrevious, IsChain
  <2>3. CASE size # 0
    <3>1. 1 \in 1..size
      BY <2>3
    <3>2. Pending(r)[1].op.previous = first
      BY <1>7, <1>8, <3>1
    <3> QED BY <2>1, <2>3, <3>2 DEF FirstPrevious
  <2> QED BY <2>2, <2>3
<1>10. Shows(start)
  <2>1. start = [x \in Records |-> IF x \in ResetIds(r, m) THEN m.records[x] ELSE view[r][x]]
    BY <1>6 DEF Cleared, ReplayStart
  <2> QED BY <2>1 DEF Shows
<1>11. PICK after :
         /\ after = [i \in 0..size |-> IF i = 0 THEN ReplayStart(r, m)
                                       ELSE ReplayStep(after[i - 1], Pending(r)[i].op, m)]
         /\ Replay(r, m) = after[size]
  BY <1>2, <1>3, ReplayRuns
<1>12. /\ after[0] = ReplayStart(r, m)
       /\ \A i \in 1..size : after[i] = ReplayStep(after[i - 1], were[i], m)
  <2>1. \A i \in 0..size : after[i] = IF i = 0 THEN ReplayStart(r, m)
                                      ELSE ReplayStep(after[i - 1], Pending(r)[i].op, m)
    BY <1>11
  <2>2. after[0] = ReplayStart(r, m)
    BY <2>1
  <2>3. ASSUME NEW i \in 1..size
        PROVE  after[i] = ReplayStep(after[i - 1], were[i], m)
    <3>1. i \in 0..size /\ i # 0 /\ were[i] = Pending(r)[i].op
      BY <1>7
    <3> QED BY <2>1, <3>1
  <2> QED BY <2>2, <2>3
<1>13. Replayed(after[0], 0, r, m, were, done, first, start)
  <2>1. PICK s : s = after[0]
    OBVIOUS
  <2>2. s = [view |-> start, previous |-> first, ops |-> << >>, fits |-> TRUE]
    BY <1>6, <1>9, <1>12, <2>1 DEF ReplayStart, Cleared
  <2>3. IsSequence(<< >>) /\ Len(<< >>) = 0
    BY EmptySequence, EmptySeq
  <2>4. ReplayShows(s, 0, m, were, start)
    BY <2>2 DEF ReplayShows
  <2>5. Replayed(s, 0, r, m, were, done, first, start)
    BY <1>10, <2>2, <2>3, <2>4 DEF Replayed
  <2> QED BY <2>1, <2>5
<1>14. \A i \in 0..size : Replayed(after[i], i, r, m, were, done, first, start)
  <2> DEFINE Off == {i \in 0..size : ~Replayed(after[i], i, r, m, were, done, first, start)}
  <2> SUFFICES ASSUME Off # {}
               PROVE  FALSE
    OBVIOUS
  <2>1. PICK i \in Off : \A k \in Off : i <= k
    <3>1. Off \in SUBSET Nat
      OBVIOUS
    <3> HIDE DEF Off
    <3> QED BY <3>1, LeastNumber
  <2>2. i \in 1..size /\ i \in Nat \ {0} /\ i - 1 \in 0..size /\ i - 1 \notin Off
    BY <1>13, <2>1
  <2>3. Replayed(after[i - 1], i - 1, r, m, were, done, first, start)
    BY <2>2
  <2>4. \A j \in 1..i : j \in 1..size
    BY <2>2
  <2>5. PICK s : s = after[i - 1]
    OBVIOUS
  <2>6. Replayed(ReplayStep(s, were[i], m), i, r, m, were, done, first, start)
    BY <1>8, <2>2, <2>3, <2>4, <2>5, ReplayGoes
  <2>7. after[i] = ReplayStep(s, were[i], m)
    BY <1>12, <2>2, <2>5
  <2> QED BY <2>1, <2>6, <2>7
<1>15. Replayed(Replay(r, m), size, r, m, were, done, first, start)
  BY <1>11, <1>14
<1> QED BY <1>1, <1>2, <1>3, <1>4, <1>5, <1>6, <1>7, <1>15

-----------------------------------------------------------------------------
(* What a step does to a queue, and to what is on the way. *)

LEMMA OutcomesFit ==
  ASSUME NEW op, NEW r, op \in [origin : {r}, counter : Nat, previous : {op.previous},
           epoch : {op.epoch}, observed : {op.observed}, record : Records, command : Commands,
           base : States, outcome : {Outcome(op.command, op.base)}],
         Legal(op.command, op.base)
  PROVE  IsOperation(op, r)
<1>1. op.outcome \in States
  BY OutcomeIsState
<1> QED BY <1>1 DEF IsOperation, HasFields, Fits

\* A queue that gets one more operation.
LEMMA ChainGrows ==
  ASSUME NEW r, NEW s, IsSequence(s), NEW me, NEW you, IsChain(r, s, me), NEW op, IsOperation(op, r),
         op.counter = me.next, op.previous = me.previous,
         you.next = me.next + 1, you.previous = op
  PROVE  IsChain(r, Append(s, Entry(op)), you)
<1>1. PICK t : t = Append(s, Entry(op))
  OBVIOUS
<1>2. PICK n \in Nat : n = Len(s) /\ DOMAIN s = 1..n
  BY SequenceFacts
<1>3. /\ IsSequence(t) /\ DOMAIN t = 1..(n + 1) /\ t[n + 1] = Entry(op)
      /\ \A c \in 1..n : t[c] = s[c]
  BY <1>1, <1>2, AppendedSequence
<1>4. Len(t) = n + 1
  BY <1>3, SequenceFacts
<1>5. t[n + 1].op = op /\ t[n + 1].status = "pending"
  BY <1>3 DEF Entry
<1>6. \A c \in 0..n : OpAt(t, c) = OpAt(s, c)
  BY <1>3 DEF OpAt
<1>7. OpAt(t, n + 1) = op
  BY <1>5 DEF OpAt
<1>8. ASSUME NEW c \in DOMAIN t
      PROVE  /\ IsOperation(t[c].op, r) /\ t[c].op.counter = c
             /\ t[c].op.previous = OpAt(t, c - 1)
  <2>1. CASE c = n + 1
    <3>1. (n + 1) - 1 = n /\ n \in 0..n
      OBVIOUS
    <3> QED BY <1>2, <1>5, <1>6, <2>1, <3>1 DEF IsChain
  <2>2. CASE c # n + 1
    <3>1. c \in 1..n /\ c - 1 \in 0..n
      BY <1>3, <2>2
    <3> QED BY <1>2, <1>3, <1>6, <3>1 DEF IsChain
  <2> QED BY <2>1, <2>2
<1>9. ASSUME NEW c \in DOMAIN t, NEW d \in DOMAIN t, c <= d, t[d].status # "pending"
      PROVE  t[c].status # "pending"
  <2>1. c \in 1..n /\ d \in 1..n
    BY <1>3, <1>5, <1>9
  <2> QED BY <1>2, <1>3, <1>9, <2>1 DEF IsChain
<1>10. you.next = Len(t) + 1 /\ you.previous = OpAt(t, Len(t))
  BY <1>2, <1>4, <1>7 DEF IsChain
<1> QED BY <1>1, <1>8, <1>9, <1>10 DEF IsChain

\* A queue in which entries are decided, up to one of them.
LEMMA ChainDecided ==
  ASSUME NEW r, NEW s, IsSequence(s), NEW me, IsChain(r, s, me), NEW t,
         IsSequence(t), DOMAIN t = DOMAIN s, \A c \in DOMAIN s : t[c].op = s[c].op,
         \A c, d \in DOMAIN t : c <= d /\ t[d].status # "pending" => t[c].status # "pending"
  PROVE  IsChain(r, t, me)
<1>1. PICK n \in Nat : n = Len(s) /\ DOMAIN s = 1..n /\ Len(t) = n
  <2>1. Len(s) \in Nat /\ DOMAIN s = 1..Len(s) /\ Len(t) \in Nat /\ DOMAIN t = 1..Len(t)
    BY SequenceFacts
  <2>2. \A k, l \in Nat : 1..k = 1..l => k = l
    OBVIOUS
  <2>3. Len(t) = Len(s)
    BY <2>1, <2>2
  <2> QED BY <2>1, <2>3
<1>2. \A c \in 0..n : OpAt(t, c) = OpAt(s, c)
  BY <1>1 DEF OpAt
<1>3. \A c \in 1..n : c - 1 \in 0..n
  OBVIOUS
<1> QED BY <1>1, <1>2, <1>3 DEF IsChain

\* A queue s of which all but the first `done` are written again, as the replay has them.
IsRewritten(s, t, done, ops) ==
  /\ IsSequence(t) /\ DOMAIN t = DOMAIN s /\ done \in 0..Len(s)
  /\ \A c \in DOMAIN s : s[c].status = "pending" <=> done < c
  /\ \A c \in DOMAIN s : t[c] = IF c <= done THEN s[c] ELSE Entry(ops[c - done])

Rewrites(r, s, me, t, you, done, replay, m, start) ==
  /\ IsChain(r, s, me)
  /\ IsRewritten(s, t, done, replay.ops) /\ replay.fits
  /\ Replayed(replay, Len(s) - done, r, m, RestOf(s, done), done, OpAt(s, done), start)
  /\ you.next = me.next /\ you.previous = replay.previous

LEMMA ChainRebased ==
  ASSUME NEW r, NEW s, NEW me, NEW t, NEW you, NEW done, NEW replay, NEW m, NEW start,
         IsSequence(s), Rewrites(r, s, me, t, you, done, replay, m, start)
  PROVE  /\ IsChain(r, t, you)
         /\ \A c \in DOMAIN s : t[c].op.record = s[c].op.record
<1> /\ IsChain(r, s, me) /\ IsRewritten(s, t, done, replay.ops) /\ replay.fits
    /\ Replayed(replay, Len(s) - done, r, m, RestOf(s, done), done, OpAt(s, done), start)
    /\ you.next = me.next /\ you.previous = replay.previous
  BY DEF Rewrites
<1> IsSequence(t) /\ done \in 0..Len(s)
  BY DEF IsRewritten
<1>1. PICK n \in Nat : n = Len(s) /\ DOMAIN s = 1..n /\ Len(t) = n
  <2>1. Len(s) \in Nat /\ DOMAIN s = 1..Len(s) /\ Len(t) \in Nat /\ DOMAIN t = 1..Len(t)
        /\ DOMAIN t = DOMAIN s
    BY SequenceFacts DEF IsRewritten
  <2>2. \A k, l \in Nat : 1..k = 1..l => k = l
    OBVIOUS
  <2>3. Len(t) = Len(s)
    BY <2>1, <2>2
  <2> QED BY <2>1, <2>3
<1>2. PICK size \in Nat : size = n - done /\ size = Len(s) - done
  BY <1>1
<1>3. PICK ops : ops = replay.ops
  OBVIOUS
<1>4. \A j \in 1..size : /\ IsOperation(ops[j], r) /\ ops[j].counter = done + j
                         /\ ops[j].record = s[done + j].op.record
                         /\ ops[j].previous = IF j = 1 THEN OpAt(s, done) ELSE ops[j - 1]
  BY <1>1, <1>2, <1>3 DEF Replayed, RestOf
<1>5. replay.previous = IF size = 0 THEN OpAt(s, done) ELSE ops[size]
  BY <1>2, <1>3 DEF Replayed
<1>6. \A c \in 0..done : OpAt(t, c) = OpAt(s, c)
  BY <1>1 DEF OpAt, IsRewritten
<1>7. \A j \in 1..size : /\ done + j \in 1..n /\ t[done + j].op = ops[j]
                         /\ t[done + j].status = "pending" /\ OpAt(t, done + j) = ops[j]
  <2>1. ASSUME NEW j \in 1..size
        PROVE  /\ done + j \in 1..n /\ t[done + j].op = ops[j]
               /\ t[done + j].status = "pending" /\ OpAt(t, done + j) = ops[j]
    <3>1. done + j \in 1..n /\ ~(done + j <= done) /\ (done + j) - done = j /\ done + j # 0
      BY <1>2
    <3>2. t[done + j] = Entry(ops[j])
      BY <1>1, <1>3, <3>1 DEF IsRewritten
    <3> QED BY <3>1, <3>2 DEF OpAt, Entry
  <2> QED BY <2>1
<1>8. ASSUME NEW c \in 1..n
      PROVE  /\ IsOperation(t[c].op, r) /\ t[c].op.counter = c
             /\ t[c].op.previous = OpAt(t, c - 1) /\ t[c].op.record = s[c].op.record
             /\ t[c].status = "pending" <=> done < c
  <2>1. CASE c <= done
    <3>1. c - 1 \in 0..done
      BY <2>1
    <3>2. t[c] = s[c] /\ (s[c].status = "pending" <=> done < c)
      BY <1>1, <2>1 DEF IsRewritten
    <3> QED BY <1>1, <1>6, <2>1, <3>1, <3>2 DEF IsChain
  <2>2. CASE done < c
    <3>1. PICK j \in 1..size : c = done + j
      <4>1. c - done \in 1..size /\ c = done + (c - done)
        BY <1>2, <2>2
      <4> QED BY <4>1
    <3>2. t[c].op = ops[j] /\ t[c].status = "pending"
      BY <1>7, <3>1
    <3>3. t[c].op.previous = OpAt(t, c - 1)
      <4>1. CASE j = 1
        <5>1. c - 1 = done /\ done \in 0..done
          BY <3>1, <4>1
        <5> QED BY <1>4, <1>6, <3>2, <4>1, <5>1
      <4>2. CASE j # 1
        <5>1. j - 1 \in 1..size /\ c - 1 = done + (j - 1)
          BY <3>1, <4>2
        <5> QED BY <1>4, <1>7, <3>2, <4>2, <5>1
      <4> QED BY <4>1, <4>2
    <3> QED BY <1>4, <2>2, <3>1, <3>2, <3>3
  <2> QED BY <2>1, <2>2
<1>9. you.previous = OpAt(t, n)
  <2>1. CASE size = 0
    <3>1. n = done /\ n \in 0..done
      BY <1>2, <2>1
    <3> QED BY <1>5, <1>6, <2>1, <3>1
  <2>2. CASE size # 0
    <3>1. size \in 1..size /\ done + size = n
      BY <1>2, <2>2
    <3> QED BY <1>5, <1>7, <2>2, <3>1
  <2> QED BY <2>1, <2>2
<1>10. you.next = Len(t) + 1
  BY <1>1 DEF IsChain
<1>11. \A c, d \in DOMAIN t : c <= d /\ t[d].status # "pending" => t[c].status # "pending"
  BY <1>1, <1>8
<1>12. \A c \in DOMAIN t : /\ IsOperation(t[c].op, r) /\ t[c].op.counter = c
                           /\ t[c].op.previous = OpAt(t, c - 1)
  BY <1>1, <1>8
<1>13. \A c \in DOMAIN s : t[c].op.record = s[c].op.record
  BY <1>1, <1>8
<1>14. you.next = Len(t) + 1 /\ you.previous = OpAt(t, Len(t))
  BY <1>1, <1>9, <1>10
<1> QED BY <1>11, <1>12, <1>13, <1>14 DEF IsChain

\* What is decided in e is the same in f.
Stands(e, f) == e.status # "pending" =>
                  f.op = e.op /\ f.status = e.status /\ f.sequence = e.sequence

\* A queue only grows, what is decided stands, and what a counter is about stays.
Keeps(s, t) ==
  /\ Len(s) <= Len(t)
  /\ \A c \in DOMAIN s : /\ c \in DOMAIN t /\ t[c].op.record = s[c].op.record
                         /\ Stands(s[c], t[c])

QueuesKept == \A r \in Replicas : Keeps(outgoing[r], outgoing'[r])

LEMMA KeepsItself == \A s : IsSequence(s) => Keeps(s, s)
BY SequenceFacts DEF Keeps, Stands

\* The queue and the end of r change, those of the others do not.
LEMMA OneQueue ==
  ASSUME LocalShape, ChainInv, NEW r \in Replicas, NEW mine, NEW queue,
         local' = [local EXCEPT ![r] = mine], outgoing' = [outgoing EXCEPT ![r] = queue],
         IsChain(r, queue, mine), Keeps(outgoing[r], queue)
  PROVE  ChainInv' /\ QueuesKept
<1>1. /\ \A u \in Replicas : local'[u] = IF u = r THEN mine ELSE local[u]
      /\ \A u \in Replicas : outgoing'[u] = IF u = r THEN queue ELSE outgoing[u]
  BY DEF LocalShape
<1>2. ASSUME NEW u \in Replicas
      PROVE  IsChain(u, outgoing'[u], local'[u]) /\ Keeps(outgoing[u], outgoing'[u])
  <2>1. CASE u = r
    BY <1>1, <2>1
  <2>2. CASE u # r
    <3>1. outgoing'[u] = outgoing[u] /\ local'[u] = local[u] /\ IsSequence(outgoing[u])
      BY <1>1, <2>2 DEF LocalShape
    <3> QED BY <3>1, KeepsItself DEF ChainInv
  <2> QED BY <2>1, <2>2
<1> QED BY <1>2 DEF ChainInv, QueuesKept

LEMMA NoQueue ==
  ASSUME LocalShape, ChainInv, UNCHANGED outgoing,
         \A r \in Replicas : local'[r].next = local[r].next /\ local'[r].previous = local[r].previous
  PROVE  ChainInv' /\ QueuesKept
<1>1. ASSUME NEW r \in Replicas
      PROVE  IsChain(r, outgoing'[r], local'[r]) /\ Keeps(outgoing[r], outgoing'[r])
  <2>1. IsChain(r, outgoing[r], local[r]) /\ outgoing'[r] = outgoing[r] /\ IsSequence(outgoing[r])
    BY DEF ChainInv, LocalShape
  <2>2. IsChain(r, outgoing'[r], local'[r])
    BY <2>1 DEF IsChain
  <2> QED BY <2>1, <2>2, KeepsItself
<1> QED BY <1>1 DEF ChainInv, QueuesKept

LEMMA QueueGoes ==
  ASSUME LocalShape, ChainInv, ShowInv, NEW r \in Replicas, NEW x \in Records,
         NEW command \in Commands, Queue(r, x, command)
  PROVE  /\ ChainInv' /\ QueuesKept
         /\ \E s \in States : view' = [view EXCEPT ![r] = [view[r] EXCEPT ![x] = s]]
<1>1. PICK me : /\ me = local[r]
                /\ me \in [epoch : Nat, observed : {me.observed}, next : Nat,
                           previous : {me.previous}, retired : {me.retired}]
  BY DEF LocalShape
<1>2. PICK base \in States : base = view[r][x]
  BY DEF ShowInv, Shows
<1>3. PICK op : op = [origin |-> r, counter |-> me.next, previous |-> me.previous,
                      epoch |-> me.epoch, observed |-> me.observed, record |-> x,
                      command |-> command, base |-> base, outcome |-> Outcome(command, base)]
  OBVIOUS
<1>4. /\ Legal(command, base)
      /\ outgoing' = [outgoing EXCEPT ![r] = Append(outgoing[r], Entry(op))]
      /\ local' = [local EXCEPT ![r].next = @ + 1, ![r].previous = op]
      /\ view' = [view EXCEPT ![r][x] = Outcome(command, base)]
  BY <1>1, <1>2, <1>3 DEF Queue
<1>5. IsOperation(op, r) /\ op.counter = me.next /\ op.previous = me.previous
  <2>1. /\ op \in [origin : {r}, counter : Nat, previous : {op.previous}, epoch : {op.epoch},
                   observed : {op.observed}, record : Records, command : Commands,
                   base : States, outcome : {Outcome(op.command, op.base)}]
        /\ Legal(op.command, op.base) /\ op.counter = me.next /\ op.previous = me.previous
    BY <1>1, <1>3, <1>4
  <2> QED BY <2>1, OutcomesFit
<1>6. PICK next \in Nat : next = me.next + 1
  BY <1>1
<1>7. PICK first : first = [me EXCEPT !.next = next]
  OBVIOUS
<1>8. PICK mine : mine = [first EXCEPT !.previous = op]
  OBVIOUS
<1>9. mine.next = me.next + 1 /\ mine.previous = op
  <2>1. first \in [epoch : Nat, observed : {me.observed}, next : {next},
                   previous : {me.previous}, retired : {me.retired}]
    BY <1>1, <1>7
  <2> QED BY <1>6, <1>8, <2>1
<1>10. local' = [local EXCEPT ![r] = mine]
  BY <1>1, <1>4, <1>6, <1>7, <1>8 DEF LocalShape
<1>11. PICK queue : queue = Append(outgoing[r], Entry(op))
  OBVIOUS
<1>12. IsSequence(outgoing[r]) /\ IsChain(r, outgoing[r], me)
  BY <1>1 DEF LocalShape, ChainInv
<1>13. IsChain(r, queue, mine)
  BY <1>5, <1>9, <1>11, <1>12, ChainGrows
<1>14. Keeps(outgoing[r], queue)
  <2>1. /\ IsSequence(queue) /\ \A c \in DOMAIN outgoing[r] : c \in DOMAIN queue /\ queue[c] = outgoing[r][c]
        /\ Len(outgoing[r]) \in Nat /\ DOMAIN queue = 1..(Len(outgoing[r]) + 1)
    BY <1>11, <1>12, AppendedSequence, SequenceFacts
  <2>2. Len(queue) \in Nat /\ DOMAIN queue = 1..Len(queue)
    BY <2>1, SequenceFacts
  <2>3. \A k, l \in Nat : 1..k = 1..(l + 1) => l <= k
    OBVIOUS
  <2>4. Len(outgoing[r]) <= Len(queue)
    BY <2>1, <2>2, <2>3
  <2> QED BY <2>1, <2>4 DEF Keeps, Stands
<1>15. ChainInv' /\ QueuesKept
  BY <1>4, <1>10, <1>11, <1>13, <1>14, OneQueue
<1>16. Outcome(command, base) \in States
  BY <1>2, <1>4, OutcomeIsState
<1> QED BY <1>4, <1>15, <1>16

LEMMA AcknowledgeGoes ==
  ASSUME LocalShape, ChainInv, NetworkInv, RunInv, NEW m \in network, Acknowledge(m)
  PROVE  ChainInv' /\ QueuesKept
<1>1. PICK r \in Replicas : r = m.replica
  BY DEF NetworkInv
<1>2. PICK start \in Nat \ {0} : RunsFrom(m, start)
  BY DEF RunInv, Acknowledge
<1>3. IsSequence(m.results)
  BY DEF NetworkInv, Acknowledge, ResultsHold
<1>4. PICK n \in Nat : n = Len(m.results) /\ DOMAIN m.results = 1..n
  BY <1>3, SequenceFacts
<1>5. PICK s : s = outgoing[r] /\ IsSequence(s) /\ IsChain(r, s, local[r])
  BY DEF LocalShape, ChainInv
<1>6. PICK k \in Nat : k = Len(s) /\ DOMAIN s = 1..k
  BY <1>5, SequenceFacts
<1> DEFINE decided(e) == {m.results[i] : i \in {j \in DOMAIN m.results : m.results[j].op = e.op}}
           after(e) == IF decided(e) = {} THEN e
                       ELSE LET result == CHOOSE d \in decided(e) : TRUE
                            IN  [op |-> e.op, status |-> result.disposition,
                                 sequence |-> result.sequence]
<1>7. PICK t : t = [c \in DOMAIN s |-> after(s[c])]
  OBVIOUS
<1>8. outgoing' = [outgoing EXCEPT ![r] = t]
  <2>1. outgoing' = [outgoing EXCEPT ![m.replica] = [c \in DOMAIN @ |-> after(@[c])]]
    BY DEF Acknowledge
  <2> HIDE DEF after, decided
  <2> QED BY <1>1, <1>5, <1>7, <2>1
<1>9. IsSequence(t) /\ DOMAIN t = DOMAIN s
  BY <1>6, <1>7, ASequence
<1>10. \A e : /\ after(e).op = e.op
              /\ decided(e) = {} => after(e) = e
              /\ decided(e) # {} => \E i \in DOMAIN m.results : /\ m.results[i].op = e.op
                                                               /\ after(e).status = m.results[i].disposition
                                                               /\ after(e).sequence = m.results[i].sequence
  <2>1. ASSUME NEW e
        PROVE  /\ after(e).op = e.op
               /\ decided(e) = {} => after(e) = e
               /\ decided(e) # {} => \E i \in DOMAIN m.results : /\ m.results[i].op = e.op
                                                                /\ after(e).status = m.results[i].disposition
                                                                /\ after(e).sequence = m.results[i].sequence
    <3>1. CASE decided(e) = {}
      BY <3>1
    <3>2. CASE decided(e) # {}
      <4>1. PICK result : result = CHOOSE d \in decided(e) : TRUE
        OBVIOUS
      <4>2. result \in decided(e)
        BY <3>2, <4>1
      <4>3. PICK i \in DOMAIN m.results : m.results[i].op = e.op /\ result = m.results[i]
        BY <4>2
      <4>4. after(e) = [op |-> e.op, status |-> result.disposition, sequence |-> result.sequence]
        BY <3>2, <4>1
      <4> HIDE DEF after, decided
      <4>5. /\ after(e).op = e.op /\ after(e).status = m.results[i].disposition
            /\ after(e).sequence = m.results[i].sequence
        BY <4>3, <4>4
      <4> QED BY <3>2, <4>3, <4>5
    <3> QED BY <3>1, <3>2
  <2> QED BY <2>1
<1>11. ASSUME NEW c \in 1..k
       PROVE  /\ t[c].op = s[c].op
              /\ Stands(s[c], t[c])
              /\ c \in 1..(start - 1 + n) => t[c].status # "pending"
              /\ t[c].status # "pending" => s[c].status # "pending" \/ c \in 1..(start - 1 + n)
  <2>1. t[c] = after(s[c]) /\ s[c].op.counter = c
    BY <1>5, <1>6, <1>7 DEF IsChain
  <2>2. \A i \in 1..n : m.results[i].op.counter = start - 1 + i /\ m.results[i].disposition # "pending"
    BY <1>2, <1>4 DEF RunsFrom
  <2>3. CASE c \in start..(start - 1 + n)
    <3>1. PICK i \in 1..n : c = start - 1 + i
      <4>1. c - (start - 1) \in 1..n /\ c = start - 1 + (c - (start - 1))
        BY <2>3
      <4> QED BY <4>1
    <3>2. s[c].op = m.results[i].op
      BY <1>1, <1>4, <1>5, <2>2, <3>1 DEF Acknowledge, EntryOf
    <3>3. m.results[i] \in decided(s[c])
      BY <1>4, <3>1, <3>2
    <3>4. decided(s[c]) # {}
      BY <3>3
    <3> HIDE DEF after, decided
    <3>5. PICK j \in 1..n : /\ m.results[j].op = s[c].op /\ t[c].status = m.results[j].disposition
                            /\ t[c].sequence = m.results[j].sequence
      BY <1>4, <1>10, <2>1, <3>4
    <3>7. EntryOf(r, m.results[j]) = s[c]
      BY <1>5, <2>1, <3>5 DEF EntryOf
    <3>8. s[c].status # "pending" => s[c].status = t[c].status /\ s[c].sequence = t[c].sequence
      BY <1>1, <1>4, <3>5, <3>7 DEF Acknowledge
    <3>6. c \in 1..(start - 1 + n)
      BY <2>3
    <3> QED BY <1>10, <2>1, <2>2, <3>5, <3>6, <3>8 DEF Stands
  <2>4. CASE c \notin start..(start - 1 + n)
    <3>1. decided(s[c]) = {}
      <4>1. ASSUME NEW i \in DOMAIN m.results, m.results[i].op = s[c].op
            PROVE  FALSE
        <5>1. c = start - 1 + i
          BY <1>4, <2>1, <2>2, <4>1
        <5> QED BY <1>4, <2>4, <5>1
      <4> QED BY <4>1
    <3>2. t[c] = s[c]
      BY <1>10, <2>1, <3>1
    <3>3. c \in 1..(start - 1 + n) => s[c].status # "pending"
      <4>1. c \in 1..(start - 1 + n) => c \in 1..(start - 1)
        BY <2>4
      <4> QED BY <1>1, <1>2, <1>5, <4>1 DEF RunsFrom, Settled
    <3> HIDE DEF after, decided
    <3> QED BY <3>2, <3>3 DEF Stands
  <2> QED BY <2>3, <2>4
<1> HIDE DEF after, decided
<1>12. \A c, d \in DOMAIN t : c <= d /\ t[d].status # "pending" => t[c].status # "pending"
  <2>1. ASSUME NEW c \in DOMAIN t, NEW d \in DOMAIN t, c <= d, t[d].status # "pending"
        PROVE  t[c].status # "pending"
    <3>1. c \in 1..k /\ d \in 1..k
      BY <1>6, <1>9
    <3>2. CASE s[d].status # "pending"
      BY <1>5, <1>6, <1>11, <2>1, <3>1, <3>2 DEF IsChain, Stands
    <3>3. CASE d \in 1..(start - 1 + n)
      BY <1>11, <2>1, <3>1, <3>3
    <3> QED BY <1>11, <2>1, <3>1, <3>2, <3>3
  <2> QED BY <2>1
<1>13. IsChain(r, t, local[r])
  BY <1>5, <1>6, <1>9, <1>11, <1>12, ChainDecided
<1>14. Keeps(s, t)
  <2>1. Len(t) \in Nat /\ DOMAIN t = 1..Len(t)
    BY <1>9, SequenceFacts
  <2>2. \A i, j \in Nat : 1..i = 1..j => i <= j
    OBVIOUS
  <2>3. Len(s) <= Len(t)
    BY <1>6, <1>9, <2>1, <2>2
  <2> QED BY <1>6, <1>9, <1>11, <2>3 DEF Keeps
<1>15. local' = [local EXCEPT ![r] = local[r]]
  BY DEF LocalShape, Acknowledge
<1> QED BY <1>5, <1>8, <1>13, <1>14, <1>15, OneQueue

LEMMA InstallGoes ==
  ASSUME LocalShape, ChainInv, NetworkInv, RunInv, ShowInv, NEW m \in network, Install(m)
  PROVE  /\ ChainInv' /\ QueuesKept
         /\ \E v : Shows(v) /\ view' = [view EXCEPT ![m.replica] = v]
<1>1. PICK r \in Replicas : r = m.replica
  BY DEF NetworkInv
<1>2. m.accepted.counter \in Nat /\ Shows(m.records) /\ Shows(view[r])
  BY DEF Install, RunInv, ShowInv
<1>3. PICK s : s = outgoing[r] /\ IsSequence(s) /\ IsChain(r, s, local[r])
  BY DEF LocalShape, ChainInv
<1>4. PICK replay : replay = Replay(r, m)
  OBVIOUS
<1>5. PICK done \in 0..Len(s) :
         /\ \A c \in DOMAIN s : s[c].status = "pending" <=> done < c
         /\ Len(Pending(r)) = Len(s) - done
         /\ Replayed(replay, Len(s) - done, r, m, RestOf(s, done), done, OpAt(s, done), Cleared(r, m))
  BY <1>2, <1>3, <1>4, ReplayHolds
<1>6. Len(s) \in Nat /\ DOMAIN s = 1..Len(s) /\ Len(s) - Len(Pending(r)) = done
  BY <1>3, <1>5, SequenceFacts
<1>7. PICK t : t = [c \in DOMAIN s |-> IF c <= done THEN s[c] ELSE Entry(replay.ops[c - done])]
  OBVIOUS
<1>8. /\ outgoing' = [outgoing EXCEPT ![r] = t] /\ replay.fits
      /\ local' = [local EXCEPT ![r].observed = m.covered, ![r].retired = m.retired,
                                ![r].previous = replay.previous]
      /\ view' = [view EXCEPT ![r] = replay.view]
  <2>1. outgoing' = [outgoing EXCEPT ![r] = [c \in DOMAIN @ |->
           IF c <= Len(outgoing[r]) - Len(Pending(r)) THEN @[c]
           ELSE Entry(replay.ops[c - (Len(outgoing[r]) - Len(Pending(r)))])]]
    BY <1>1, <1>4 DEF Install
  <2>2. outgoing' = [outgoing EXCEPT ![r] = t]
    BY <1>3, <1>6, <1>7, <2>1
  <2> QED BY <1>1, <1>4, <2>2 DEF Install
<1>9. IsSequence(t) /\ DOMAIN t = DOMAIN s
  BY <1>6, <1>7, ASequence
<1>10. PICK me : /\ me = local[r]
                 /\ me \in [epoch : Nat, observed : {me.observed}, next : Nat,
                            previous : {me.previous}, retired : {me.retired}]
  BY DEF LocalShape
<1>11. PICK mine : /\ local' = [local EXCEPT ![r] = mine]
                   /\ mine.next = me.next /\ mine.previous = replay.previous
  <2>1. PICK first : first = [me EXCEPT !.observed = m.covered]
    OBVIOUS
  <2>2. PICK second : second = [first EXCEPT !.retired = m.retired]
    OBVIOUS
  <2>3. PICK mine : mine = [second EXCEPT !.previous = replay.previous]
    OBVIOUS
  <2>4. local' = [local EXCEPT ![r] = mine]
    BY <1>8, <1>10, <2>1, <2>2, <2>3 DEF LocalShape
  <2>5. first \in [epoch : {me.epoch}, observed : {m.covered}, next : {me.next},
                   previous : {me.previous}, retired : {me.retired}]
    BY <1>10, <2>1
  <2>6. second \in [epoch : {me.epoch}, observed : {m.covered}, next : {me.next},
                    previous : {me.previous}, retired : {m.retired}]
    BY <2>2, <2>5
  <2>7. mine.next = me.next /\ mine.previous = replay.previous
    BY <2>3, <2>6
  <2> QED BY <2>4, <2>7
<1>12. \A c \in DOMAIN s : t[c] = IF c <= done THEN s[c] ELSE Entry(replay.ops[c - done])
  BY <1>7
<1>13. IsChain(r, t, mine) /\ \A c \in DOMAIN s : t[c].op.record = s[c].op.record
  <2>1. IsSequence(s) /\ IsChain(r, s, me) /\ replay.fits
    BY <1>3, <1>8, <1>10
  <2>2. PICK start : start = Cleared(r, m)
    OBVIOUS
  <2>3. Replayed(replay, Len(s) - done, r, m, RestOf(s, done), done, OpAt(s, done), start)
    BY <1>5, <2>2
  <2>4. IsRewritten(s, t, done, replay.ops)
    BY <1>5, <1>9, <1>12 DEF IsRewritten
  <2>5. Rewrites(r, s, me, t, mine, done, replay, m, start)
    BY <1>11, <2>1, <2>3, <2>4 DEF Rewrites
  <2>6. \A y, q : IsSequence(s) /\ Rewrites(r, s, me, q, y, done, replay, m, start)
               => IsChain(r, q, y) /\ \A c \in DOMAIN s : q[c].op.record = s[c].op.record
    BY ChainRebased
  <2>7. IsSequence(s)
    BY <2>1
  <2>8. IsChain(r, t, mine)
    BY <2>5, <2>6, <2>7
  <2>9. \A c \in DOMAIN s : t[c].op.record = s[c].op.record
    BY <2>5, <2>6, <2>7
  <2> QED BY <2>8, <2>9
<1>14. Keeps(s, t)
  <2>1. Len(t) \in Nat /\ DOMAIN t = 1..Len(t)
    BY <1>9, SequenceFacts
  <2>2. \A i, j \in Nat : 1..i = 1..j => i <= j
    OBVIOUS
  <2>3. Len(s) <= Len(t)
    BY <1>6, <1>9, <2>1, <2>2
  <2>4. \A c \in DOMAIN s : s[c].status # "pending" => t[c] = s[c]
    BY <1>5, <1>6, <1>12
  <2> QED BY <1>9, <1>13, <2>3, <2>4 DEF Keeps, Stands
<1>15. Shows(replay.view)
  BY <1>5, <1>8 DEF Replayed
<1> QED BY <1>1, <1>3, <1>8, <1>11, <1>13, <1>14, <1>15, OneQueue

-----------------------------------------------------------------------------
(* Every step keeps the chains, and what every database shows. *)

\* A step writes at most one replica's database.
ViewStep ==
  \/ UNCHANGED view
  \/ \E r \in Replicas, v \in [Records -> States] : view' = [view EXCEPT ![r] = v]

LEMMA ChainSteps ==
  ASSUME LocalShape, ChainInv, NetworkInv, RunInv, ShowInv, ReplicationNext
  PROVE  ChainInv' /\ QueuesKept /\ ViewStep
<1>1. CASE UNCHANGED <<local, outgoing, view>>
  BY <1>1, NoQueue DEF ViewStep
<1>2. ASSUME NEW r \in Replicas, InitializeLocal(r)
      PROVE  ChainInv' /\ QueuesKept /\ ViewStep
  <2>1. PICK n : n = authority.epoch
    OBVIOUS
  <2>2. local' = [local EXCEPT ![r].epoch = n] /\ UNCHANGED outgoing /\ UNCHANGED view
    BY <1>2, <2>1 DEF InitializeLocal
  <2>3. PICK me : /\ me = local[r]
                  /\ me \in [epoch : Nat, observed : {me.observed}, next : Nat,
                             previous : {me.previous}, retired : {me.retired}]
    BY DEF LocalShape
  <2>4. PICK mine : mine = [me EXCEPT !.epoch = n]
    OBVIOUS
  <2>5. mine.next = me.next /\ mine.previous = me.previous
    BY <2>3, <2>4
  <2>6. \A u \in Replicas : local'[u] = IF u = r THEN mine ELSE local[u]
    BY <2>2, <2>3, <2>4 DEF LocalShape
  <2>7. \A u \in Replicas : local'[u].next = local[u].next /\ local'[u].previous = local[u].previous
    BY <2>3, <2>5, <2>6
  <2> QED BY <2>2, <2>7, NoQueue DEF ViewStep
<1>3. ASSUME NEW r \in Replicas, NEW x \in Records, NEW command \in Commands, Queue(r, x, command)
      PROVE  ChainInv' /\ QueuesKept /\ ViewStep
  <2>1. ChainInv' /\ QueuesKept
    BY <1>3, QueueGoes
  <2>2. PICK s \in States : view' = [view EXCEPT ![r] = [view[r] EXCEPT ![x] = s]]
    BY <1>3, QueueGoes
  <2>3. [view[r] EXCEPT ![x] = s] \in [Records -> States]
    BY DEF ShowInv, Shows
  <2> QED BY <2>1, <2>2, <2>3 DEF ViewStep
<1>4. ASSUME NEW m \in network, Acknowledge(m)
      PROVE  ChainInv' /\ QueuesKept /\ ViewStep
  <2>1. ChainInv' /\ QueuesKept
    BY <1>4, AcknowledgeGoes
  <2> QED BY <1>4, <2>1 DEF ViewStep, Acknowledge
<1>5. ASSUME NEW m \in network, Install(m)
      PROVE  ChainInv' /\ QueuesKept /\ ViewStep
  <2>1. ChainInv' /\ QueuesKept
    BY <1>5, InstallGoes
  <2>2. PICK v : Shows(v) /\ view' = [view EXCEPT ![m.replica] = v]
    BY <1>5, InstallGoes
  <2>3. m.replica \in Replicas
    BY DEF NetworkInv
  <2> QED BY <2>1, <2>2, <2>3 DEF ViewStep, Shows
<1>6. ASSUME NEW r \in Replicas, ReplicaNext(r)
      PROVE  \/ UNCHANGED <<local, outgoing, view>> \/ InitializeLocal(r)
             \/ \E x \in Records, command \in Commands : Queue(r, x, command)
  BY <1>6 DEF ReplicaNext, Register, Push, Pull, GoSilent, clientVars
<1>7. ASSUME NEW m, MessageNext(m)
      PROVE  UNCHANGED <<local, outgoing, view>> \/ Acknowledge(m) \/ Install(m)
  BY <1>7 DEF MessageNext, AcceptAgain, AcceptOne, Respond, clientVars
<1> QED
  BY <1>1, <1>2, <1>3, <1>4, <1>5, <1>6, <1>7
  DEF ReplicationNext, Retire, AuthorityWrites, Prune, Recover, clientVars

\* What a push does next is the first of its operations.
LEMMA NextOperation ==
  ASSUME NEW s, IsSequence(s), s # << >>
  PROVE  /\ 1 \in DOMAIN s /\ Head(s) = s[1] /\ Len(s) \in Nat /\ 1 <= Len(s)
         /\ IsSequence(Tail(s)) /\ Len(Tail(s)) = Len(s) - 1 /\ DOMAIN Tail(s) = 1..(Len(s) - 1)
         /\ \A i \in DOMAIN Tail(s) : i + 1 \in DOMAIN s /\ Tail(s)[i] = s[i + 1]
<1>1. s \in Seq(Elements(s)) /\ Len(s) \in Nat /\ DOMAIN s = 1..Len(s)
  BY SequenceFacts DEF IsSequence
<1>2. /\ Tail(s) \in Seq(Elements(s)) /\ Len(Tail(s)) = Len(s) - 1
      /\ \A i \in 1..Len(Tail(s)) : Tail(s)[i] = s[i + 1]
  BY <1>1, HeadTailProperties
<1>3. 1 <= Len(s)
  BY <1>1, <1>2, LenProperties
<1>4. IsSequence(Tail(s)) /\ DOMAIN Tail(s) = 1..(Len(s) - 1)
  BY <1>2, LenProperties, SequenceOver
<1>5. \A i \in DOMAIN Tail(s) : i + 1 \in DOMAIN s
  BY <1>1, <1>4
<1>6. Head(s) = s[1]
  BY <1>1, <1>3
<1> QED BY <1>1, <1>2, <1>3, <1>4, <1>5, <1>6

\* The first operation of a push is one that its replica queued.
LEMMA HeadIsQueued ==
  ASSUME RunInv, NEW m \in network, m.kind = "push", m.ops # << >>
  PROVE  IsOperation(Head(m.ops), m.replica)
<1>1. PICK start \in Nat \ {0} : RunsFrom(m, start)
  BY DEF RunInv
<1>2. IsSequence(m.ops) /\ \A i \in DOMAIN m.ops : IsOperation(m.ops[i], m.replica)
  BY <1>1 DEF RunsFrom
<1> QED BY <1>2, NextOperation

\* Every row the authority has, and its data, show states of commitments; a row says
\* what was decided.
GoodRow(row) == row.disposition # "pending" /\ Shows(row.data.records)

GoodDatabase(a) ==
  /\ Shows(a.data.records)
  /\ \A i \in DOMAIN a.log : GoodRow(a.log[i])

LEMMA DatabaseAccepts ==
  ASSUME AuthorityInv, GoodDatabase(authority), NEW r, NEW op, IsOperation(op, r),
         Welcome(op), Succeeds(op), authority' = Accepted(op)
  PROVE  GoodDatabase(authority')
<1>1. PICK row : row = [op |-> op, disposition |-> Disposition(op), data |-> DataAfter(op)]
  OBVIOUS
<1>2. authority'.log = Append(authority.log, row)
  BY <1>1, AcceptingAuthority
<1>3. PICK d : d = DataAfter(op)
  OBVIOUS
<1>4. authority'.data = d
  BY <1>3, AcceptingAuthority
<1>5. Shows(d.records)
  <2>1. op.record \in Records /\ op.outcome \in States
    BY DEF IsOperation, HasFields
  <2>2. PICK records : records = [authority.data.records EXCEPT ![op.record] = op.outcome]
    OBVIOUS
  <2>3. Shows(records)
    BY <2>1, <2>2 DEF GoodDatabase, Shows
  <2>4. d = authority.data \/ d.records = records
    BY <1>3, <2>2 DEF DataAfter, AuthorityInv, DataInv, Sound
  <2> QED BY <2>3, <2>4 DEF GoodDatabase
<1>6. Disposition(op) # "pending"
  BY DEF Disposition
<1>7. GoodRow(row)
  BY <1>1, <1>3, <1>5, <1>6 DEF GoodRow
<1>8. \A i \in DOMAIN authority'.log :
        \/ i \in DOMAIN authority.log /\ authority'.log[i] = authority.log[i]
        \/ authority'.log[i] = row
  <2>1. /\ DOMAIN authority'.log = 1..(Len(authority.log) + 1)
        /\ authority'.log[Len(authority.log) + 1] = row
        /\ \A i \in DOMAIN authority.log : authority'.log[i] = authority.log[i]
        /\ Len(authority.log) \in Nat /\ DOMAIN authority.log = 1..Len(authority.log)
    BY <1>2, AppendedSequence, LogRows DEF AuthorityInv, AuthorityShape
  <2> QED BY <2>1
<1> QED BY <1>4, <1>5, <1>7, <1>8 DEF GoodDatabase

LEMMA DatabaseWritten ==
  ASSUME AuthorityInv, GoodDatabase(authority),
         \/ \E r \in Replicas : Register(r) \/ Pull(r) \/ GoSilent(r)
         \/ \E x \in Records : AuthorityWrites(x) \/ Retire(x)
         \/ Prune
  PROVE  GoodDatabase(authority')
<1>1. /\ authority \in [epoch : Nat, log : {authority.log}, floor : Nat, data : {authority.data},
                        replica : {authority.replica}]
      /\ authority.data \in [records : {authority.data.records}, retired : SUBSET Records]
      /\ Shows(authority.data.records)
  BY DEF AuthorityInv, AuthorityShape, DataInv, Sound, GoodDatabase
<1>2. ASSUME NEW x \in Records, NEW s \in States, NEW d, NEW data,
             data \in [records : {data.records}, retired : SUBSET Records],
             data.records = authority.data.records,
             d = [data EXCEPT !.records = [data.records EXCEPT ![x] = s]],
             authority' = [authority EXCEPT !.data = d]
      PROVE  GoodDatabase(authority')
  <2>1. PICK records : records = [data.records EXCEPT ![x] = s]
    OBVIOUS
  <2>2. Shows(records)
    BY <1>1, <1>2, <2>1 DEF Shows
  <2>3. d.records = records
    BY <1>2, <2>1
  <2>4. authority'.data = d /\ authority'.log = authority.log
    BY <1>1, <1>2
  <2> QED BY <2>2, <2>3, <2>4 DEF GoodDatabase
<1>3. ASSUME NEW r \in Replicas, Register(r) \/ Pull(r) \/ GoSilent(r)
      PROVE  GoodDatabase(authority')
  <2>1. PICK replica : authority' = [authority EXCEPT !.replica = replica]
    <3>1. CASE Register(r)
      BY <3>1, <1>1 DEF Register
    <3>2. CASE Pull(r)
      BY <3>2, <1>1 DEF Pull
    <3>3. CASE GoSilent(r)
      BY <3>3, <1>1 DEF GoSilent
    <3> QED BY <1>3, <3>1, <3>2, <3>3
  <2>2. authority'.data = authority.data /\ authority'.log = authority.log
    BY <1>1, <2>1
  <2> QED BY <2>2 DEF GoodDatabase
<1>4. CASE Prune
  <2>1. PICK n : authority' = [authority EXCEPT !.floor = n]
    BY <1>4 DEF Prune
  <2>2. authority'.data = authority.data /\ authority'.log = authority.log
    BY <1>1, <2>1
  <2> QED BY <2>2 DEF GoodDatabase
<1>5. ASSUME NEW x \in Records, AuthorityWrites(x)
      PROVE  GoodDatabase(authority')
  <2>1. PICK was : was = authority.data.records[x]
    OBVIOUS
  <2>2. was \in [body : Bodies \cup {ByAuthority}, deleted : BOOLEAN]
    BY <1>1, <1>5, <2>1 DEF AuthorityWrites, Shows, States
  <2>3. PICK s : /\ s = [was EXCEPT !.body = ByAuthority] \/ s = [was EXCEPT !.deleted = TRUE]
                 /\ authority' = [authority EXCEPT !.data.records[x] = s]
    BY <1>5, <2>1 DEF AuthorityWrites
  <2>4. s \in States
    BY <2>2, <2>3 DEF States
  <2>5. PICK data : data = authority.data
    OBVIOUS
  <2>6. PICK d : d = [data EXCEPT !.records = [data.records EXCEPT ![x] = s]]
    OBVIOUS
  <2>7. authority' = [authority EXCEPT !.data = d]
    BY <2>3, <2>5, <2>6
  <2> QED BY <1>1, <1>2, <2>4, <2>5, <2>6, <2>7
<1>6. ASSUME NEW x \in Records, Retire(x)
      PROVE  GoodDatabase(authority')
  <2>1. PICK data : data = [authority.data EXCEPT !.retired = @ \cup {x}]
    OBVIOUS
  <2>2. data \in [records : {data.records}, retired : SUBSET Records]
        /\ data.records = authority.data.records
    BY <1>1, <2>1
  <2>3. PICK d : d = [data EXCEPT !.records = [data.records EXCEPT ![x] = Absent]]
    OBVIOUS
  <2>4. authority' = [authority EXCEPT !.data = d]
    BY <1>1, <1>6, <2>1, <2>3 DEF Retire
  <2>5. Absent \in States
    BY DEF States
  <2> QED BY <1>2, <2>2, <2>3, <2>4, <2>5
<1> QED BY <1>3, <1>4, <1>5, <1>6

LEMMA DatabaseRecovered ==
  ASSUME AuthorityInv, GoodDatabase(authority), Recover
  PROVE  GoodDatabase(authority')
<1>1. /\ \E n \in 0..CurrentSequence : Recovers(n)
      /\ \/ authority'.data \in {authority.data, Nothing}
         \/ \E i \in DOMAIN authority.log : authority'.data = authority.log[i].data
  BY RecoveredAuthority
<1>2. Shows(authority'.data.records)
  <2>1. Shows(Nothing.records)
    BY DEF Nothing, Shows, States
  <2> QED BY <1>1, <2>1 DEF GoodDatabase, GoodRow
<1>3. PICK n \in 0..CurrentSequence : authority'.log = SubSeq(authority.log, 1, n)
  BY <1>1 DEF Recovers
<1>4. n \in Nat /\ n <= Len(authority.log) /\ DOMAIN authority.log = 1..Len(authority.log)
      /\ Len(authority.log) \in Nat
  BY LogRows DEF CurrentSequence, AuthorityInv
<1>5. \A i \in DOMAIN authority'.log : i \in DOMAIN authority.log /\ authority'.log[i] = authority.log[i]
  <2>1. \A i \in 1..n : authority.log[i] \in Elements(authority.log)
    BY <1>4 DEF Elements
  <2>2. /\ SubSeq(authority.log, 1, n) \in Seq(Elements(authority.log))
        /\ Len(SubSeq(authority.log, 1, n)) = n
        /\ \A i \in 1..n : SubSeq(authority.log, 1, n)[i] = authority.log[i]
    BY <1>4, <2>1, SubSeqProperties
  <2>3. DOMAIN authority'.log = 1..n
    BY <1>3, <2>2, LenProperties
  <2> QED BY <1>3, <1>4, <2>2, <2>3
<1> QED BY <1>2, <1>5 DEF GoodDatabase

LEMMA DatabaseSteps ==
  ASSUME AuthorityInv, GoodDatabase(authority), RunInv, ReplicationNext
  PROVE  GoodDatabase(authority')
<1>1. ASSUME NEW r \in Replicas, ReplicaNext(r)
      PROVE  UNCHANGED authority \/ Register(r) \/ Pull(r) \/ GoSilent(r)
  BY <1>1 DEF ReplicaNext, InitializeLocal, Push, Queue
<1>2. ASSUME NEW m \in network, AcceptOne(m)
      PROVE  GoodDatabase(authority')
  BY <1>2, HeadIsQueued, DatabaseAccepts DEF AcceptOne
<1>3. ASSUME NEW m, MessageNext(m)
      PROVE  UNCHANGED authority \/ AcceptOne(m)
  BY <1>3 DEF MessageNext, AcceptAgain, Respond, Acknowledge, Install
<1> QED
  BY <1>1, <1>2, <1>3, DatabaseWritten, DatabaseRecovered DEF ReplicationNext

-----------------------------------------------------------------------------
(* What is on the way is a run of the queue. *)

GoodRun(m) ==
  /\ m.kind \in {"push", "reply"} => \E start \in Nat \ {0} : RunsFrom(m, start)
  /\ m.kind = "snapshot" => m.accepted.counter \in Nat /\ Shows(m.records)

LEMMA RunsStay ==
  ASSUME LocalShape, LocalShape', QueuesKept, NetworkInv, RunInv, ShowInv, NEW m \in network
  PROVE  GoodRun(m)'
<1>1. PICK r \in Replicas : r = m.replica
  BY DEF NetworkInv
<1>2. Keeps(outgoing[r], outgoing'[r]) /\ Len(outgoing[r]) \in Nat /\ Len(outgoing'[r]) \in Nat
  BY SequenceFacts DEF QueuesKept, LocalShape
<1>3. ASSUME m.kind \in {"push", "reply"}, NEW start \in Nat \ {0}, RunsFrom(m, start)
      PROVE  RunsFrom(m, start)'
  <2>1. IsSequence(m.results) /\ Len(m.results) \in Nat
    BY <1>3, SequenceFacts DEF NetworkInv, ResultsHold
  <2>2. \A c : Settled(r, c) => Settled(r, c)'
    BY <1>2 DEF Settled, Keeps, Stands
  <2>3. Len(outgoing[r]) <= Len(outgoing'[r])
    BY <1>2 DEF Keeps
  <2>4. m.kind = "push" => IsSequence(m.ops) /\ Len(m.ops) \in Nat
    BY <1>3, SequenceFacts DEF RunsFrom
  <2>5. start - 1 \in Nat
    OBVIOUS
  <2>6. start - 1 + Len(m.results) <= Len(outgoing'[r])
    <3>1. start - 1 + Len(m.results) <= Len(outgoing[r])
      BY <1>1, <1>3 DEF RunsFrom
    <3> QED BY <1>2, <2>1, <2>3, <2>5, <3>1
  <2>7. m.kind = "push" => start - 1 + Len(m.results) + Len(m.ops) <= Len(outgoing'[r])
    <3>1. ASSUME m.kind = "push"
          PROVE  start - 1 + Len(m.results) + Len(m.ops) <= Len(outgoing'[r])
      <4>1. start - 1 + Len(m.results) + Len(m.ops) <= Len(outgoing[r])
        BY <1>1, <1>3, <3>1 DEF RunsFrom
      <4>2. PICK n \in Nat : n = Len(m.ops)
        BY <2>4, <3>1
      <4>3. PICK k \in Nat : k = Len(m.results)
        BY <2>1
      <4>4. PICK size, later \in Nat : size = Len(outgoing[r]) /\ later = Len(outgoing'[r])
        BY <1>2
      <4>5. start - 1 + k + n <= size /\ size <= later
        BY <2>3, <4>1, <4>2, <4>3, <4>4
      <4>6. start - 1 + k + n <= later
        BY <4>5
      <4> QED BY <4>2, <4>3, <4>4, <4>6
    <3> QED BY <3>1
  <2> QED BY <1>1, <1>3, <2>2, <2>6, <2>7 DEF RunsFrom
<1>4. m.kind = "snapshot" => m.accepted.counter \in Nat /\ Shows(m.records)
  BY DEF RunInv, ShowInv
<1> QED BY <1>3, <1>4 DEF GoodRun, RunInv

LEMMA PushRuns ==
  ASSUME LocalShape, ChainInv, NEW r \in Replicas,
         NEW m, m = [kind |-> "push", replica |-> r, results |-> << >>,
                     ops |-> [i \in DOMAIN Pending(r) |-> Pending(r)[i].op]]
  PROVE  GoodRun(m)
<1>1. PICK s : s = outgoing[r] /\ IsSequence(s) /\ IsChain(r, s, local[r])
  BY DEF LocalShape, ChainInv
<1>2. PICK rest : rest = Pending(r)
  OBVIOUS
<1>3. PICK done \in 0..Len(s) :
        /\ \A c \in DOMAIN s : s[c].status = "pending" <=> done < c
        /\ IsSequence(rest) /\ Len(rest) = Len(s) - done
        /\ \A i \in 1..Len(rest) : rest[i] = s[done + i]
  BY <1>1, <1>2, PendingIsTheRest
<1>4. Len(s) \in Nat /\ DOMAIN s = 1..Len(s) /\ Len(rest) \in Nat /\ DOMAIN rest = 1..Len(rest)
  BY <1>1, <1>3, SequenceFacts
<1>5. PICK ops : ops = [i \in 1..Len(rest) |-> rest[i].op]
  OBVIOUS
<1>6. m.ops = ops /\ m.kind = "push" /\ m.replica = r /\ m.results = << >>
  BY <1>2, <1>4, <1>5
<1>7. IsSequence(ops) /\ DOMAIN ops = 1..Len(rest) /\ Len(ops) = Len(rest)
  <2>1. IsSequence(ops) /\ DOMAIN ops = 1..Len(rest)
    BY <1>4, <1>5, ASequence
  <2>2. Len(ops) \in Nat /\ DOMAIN ops = 1..Len(ops)
    BY <2>1, SequenceFacts
  <2>3. \A k, l \in Nat : 1..k = 1..l => k = l
    OBVIOUS
  <2> QED BY <1>4, <2>1, <2>2, <2>3
<1>8. PICK start \in Nat \ {0} : start = done + 1 /\ start - 1 = done
  BY <1>3
<1>9. ASSUME NEW c \in 1..(start - 1)
      PROVE  Settled(r, c)
  <2>1. c \in DOMAIN s /\ ~(done < c)
    BY <1>4, <1>8
  <2> QED BY <1>1, <1>3, <2>1 DEF Settled
<1>10. Len(<< >>) = 0 /\ DOMAIN << >> = {}
  <2>1. PICK empty : empty = << >> /\ empty \in Seq({}) /\ Len(empty) = 0
    BY EmptySeq
  <2> QED BY <2>1, EmptySequence
<1>11. \A i \in DOMAIN ops : ops[i].counter = done + i /\ IsOperation(ops[i], r)
  <2>1. ASSUME NEW i \in 1..Len(rest)
        PROVE  ops[i].counter = done + i /\ IsOperation(ops[i], r)
    <3>1. done + i \in DOMAIN s /\ ops[i] = s[done + i].op
      BY <1>3, <1>4, <1>5
    <3> QED BY <1>1, <3>1 DEF IsChain
  <2> QED BY <1>7, <2>1
<1>12. start - 1 + Len(m.results) <= Len(outgoing[r])
  BY <1>1, <1>3, <1>4, <1>6, <1>8, <1>10
<1>13. start - 1 + Len(m.results) + Len(m.ops) <= Len(outgoing[r])
  BY <1>1, <1>3, <1>4, <1>6, <1>7, <1>8, <1>10
<1>14. \A i \in DOMAIN m.ops : m.ops[i].counter = start - 1 + Len(m.results) + i
  <2>1. \A i \in DOMAIN ops : i \in Nat /\ done + i = done + 0 + i
    BY <1>7
  <2> QED BY <1>6, <1>8, <1>10, <1>11, <2>1
<1>15. RunsFrom(m, start)
  BY <1>6, <1>7, <1>9, <1>10, <1>11, <1>12, <1>13, <1>14 DEF RunsFrom
<1> QED BY <1>6, <1>15 DEF GoodRun

LEMMA ProgressRuns ==
  ASSUME LocalShape, NetworkInv, RunInv, NEW m \in network, m.kind = "push", m.ops # << >>,
         NEW result, result.op = Head(m.ops), result.disposition # "pending",
         NEW k, k \in Progress(m, result)
  PROVE  k \in network \/ GoodRun(k)
<1>1. /\ m \in [kind : {"push"}, replica : {m.replica}, results : {m.results}, ops : {m.ops}]
      /\ IsSequence(m.results)
  BY DEF NetworkInv, ResultsHold
<1>2. PICK start \in Nat \ {0} : RunsFrom(m, start)
  BY DEF RunInv
<1>3. PICK results : results = Append(m.results, result)
  OBVIOUS
<1>4. PICK ops : ops = Tail(m.ops)
  OBVIOUS
<1>5. PICK next : next = [m EXCEPT !.ops = ops, !.results = results]
  OBVIOUS
<1>6. next \in [kind : {"push"}, replica : {m.replica}, results : {results}, ops : {ops}]
  BY <1>1, <1>5
<1>7. k \in network \/ k = next
  BY <1>3, <1>4, <1>5 DEF Progress
<1>8. PICK n \in Nat : n = Len(m.results) /\ DOMAIN m.results = 1..n
  BY <1>1, SequenceFacts
<1>9. /\ IsSequence(results) /\ DOMAIN results = 1..(n + 1) /\ Len(results) = n + 1
      /\ \A i \in 1..n : results[i] = m.results[i]
      /\ results[n + 1] = result
  <2>1. /\ IsSequence(results) /\ DOMAIN results = 1..(n + 1)
        /\ \A i \in 1..n : results[i] = m.results[i]
        /\ results[n + 1] = result
    BY <1>1, <1>3, <1>8, AppendedSequence
  <2>2. Len(results) \in Nat /\ DOMAIN results = 1..Len(results)
    BY <2>1, SequenceFacts
  <2>3. \A i, j \in Nat : 1..i = 1..(j + 1) => i = j + 1
    OBVIOUS
  <2> QED BY <2>1, <2>2, <2>3
<1>10. /\ IsSequence(m.ops) /\ \A i \in DOMAIN m.ops : m.ops[i].counter = start - 1 + n + i
                                                      /\ IsOperation(m.ops[i], m.replica)
       /\ start - 1 + n + Len(m.ops) <= Len(outgoing[m.replica])
       /\ \A c \in 1..(start - 1) : Settled(m.replica, c)
       /\ \A i \in 1..n : m.results[i].op.counter = start - 1 + i /\ m.results[i].disposition # "pending"
  BY <1>2, <1>8 DEF RunsFrom
<1>11. PICK l \in Nat : /\ Len(m.ops) = l + 1 /\ Len(ops) = l /\ IsSequence(ops) /\ DOMAIN ops = 1..l
                        /\ 1 \in DOMAIN m.ops /\ Head(m.ops) = m.ops[1]
                        /\ \A i \in 1..l : i + 1 \in DOMAIN m.ops /\ ops[i] = m.ops[i + 1]
  <2>1. Len(m.ops) - 1 \in Nat /\ Len(m.ops) = (Len(m.ops) - 1) + 1
    BY <1>10, NextOperation
  <2> QED BY <1>4, <1>10, <2>1, NextOperation
<1>12. result.op.counter = start - 1 + (n + 1)
  <2>1. start - 1 + n + 1 = start - 1 + (n + 1)
    OBVIOUS
  <2> QED BY <1>10, <1>11, <2>1
<1>13. \A i \in DOMAIN results : results[i].op.counter = start - 1 + i /\ results[i].disposition # "pending"
  <2>1. \A i \in 1..(n + 1) : i \in 1..n \/ i = n + 1
    OBVIOUS
  <2> QED BY <1>9, <1>10, <1>12, <2>1
<1>14. \A i \in DOMAIN ops : ops[i].counter = start - 1 + (n + 1) + i /\ IsOperation(ops[i], m.replica)
  <2>1. ASSUME NEW i \in 1..l
        PROVE  ops[i].counter = start - 1 + (n + 1) + i /\ IsOperation(ops[i], m.replica)
    <3>1. start - 1 + n + (i + 1) = start - 1 + (n + 1) + i
      OBVIOUS
    <3>2. ops[i].counter = start - 1 + n + (i + 1) /\ IsOperation(ops[i], m.replica)
      BY <1>10, <1>11
    <3> QED BY <3>1, <3>2
  <2> QED BY <1>11, <2>1
<1>15. PICK size \in Nat : size = Len(outgoing[m.replica])
  BY SequenceFacts DEF NetworkInv, LocalShape
<1>16. start - 1 + (n + 1) + l <= size
  <2>1. start - 1 + n + (l + 1) = start - 1 + (n + 1) + l
    OBVIOUS
  <2>2. start - 1 + n + (l + 1) <= size
    BY <1>10, <1>11, <1>15
  <2> QED BY <2>1, <2>2
<1>17. next.ops = ops /\ next.results = results /\ next.replica = m.replica /\ next.kind = "push"
  BY <1>6
<1>18. start - 1 + (n + 1) <= size
  BY <1>16
<1>19. RunsFrom(next, start)
  <2>1. start - 1 + Len(results) <= Len(outgoing[m.replica])
    BY <1>9, <1>15, <1>18
  <2>2. start - 1 + Len(results) + Len(ops) <= Len(outgoing[m.replica])
    BY <1>9, <1>11, <1>15, <1>16
  <2>3. \A i \in DOMAIN ops : ops[i].counter = start - 1 + Len(results) + i
    BY <1>9, <1>14
  <2> QED BY <1>10, <1>11, <1>13, <1>14, <1>17, <2>1, <2>2, <2>3 DEF RunsFrom
<1> QED BY <1>7, <1>17, <1>19 DEF GoodRun

LEMMA MessagesRun ==
  ASSUME ReplicationInv, ChainInv, RunInv, ShowInv, ReplicationNext, QueuesKept, GoodDatabase(authority)
  PROVE  \A k \in network' : GoodRun(k)'
<1>1. /\ AuthorityInv /\ LocalShape /\ LocalShape' /\ NetworkInv /\ FrontierInv
  BY ReplicationStep DEF ReplicationInv, AuthorityInv
<1>2. \A m \in network : GoodRun(m)'
  BY <1>1, RunsStay
<1>3. ASSUME UNCHANGED outgoing, NEW k, GoodRun(k)
      PROVE  GoodRun(k)'
  BY <1>3 DEF GoodRun, RunsFrom, Settled
<1>4. ASSUME NEW r \in Replicas, Push(r)
      PROVE  \A k \in network' : k \in network \/ GoodRun(k)'
  <2>1. PICK m : m = [kind |-> "push", replica |-> r, results |-> << >>,
                      ops |-> [i \in DOMAIN Pending(r) |-> Pending(r)[i].op]]
    OBVIOUS
  <2>2. network' \in Sent(m, MaxPushes) /\ UNCHANGED outgoing
    BY <1>4, <2>1 DEF Push, clientVars
  <2>3. \A k \in network' : k \in network \/ k = m
    BY <2>2 DEF Sent
  <2>4. GoodRun(m)
    BY <1>1, <2>1, PushRuns
  <2> QED BY <1>3, <2>2, <2>3, <2>4
<1>5. ASSUME NEW r \in Replicas, Pull(r)
      PROVE  \A k \in network' : k \in network \/ GoodRun(k)'
  <2>1. PICK m : m = Snapshot(r)
    OBVIOUS
  <2>2. m.accepted.counter \in Nat
    <3>1. Cardinality(RowsOf(r)) = authority.replica[r].accepted.counter
      BY <1>1, RowsCounted DEF AuthorityInv
    <3>2. Cardinality(RowsOf(r)) \in Nat
      BY <1>1, LogRows DEF AuthorityInv
    <3> QED BY <2>1, <3>1, <3>2 DEF Snapshot
  <2>3. m.kind = "snapshot" /\ Shows(m.records)
    BY <2>1 DEF Snapshot, GoodDatabase
  <2>4. GoodRun(m)
    BY <2>2, <2>3 DEF GoodRun
  <2>5. \A k \in network' : k \in network \/ k = m
    BY <1>5, <2>1 DEF Pull
  <2>6. UNCHANGED outgoing
    BY <1>5 DEF Pull, clientVars
  <2> QED BY <1>3, <2>4, <2>5, <2>6
<1>6. ASSUME NEW m \in network, AcceptAgain(m)
      PROVE  \A k \in network' : k \in network \/ GoodRun(k)'
  <2>1. PICK i \in RowsAt(Head(m.ops)) :
          network' = Progress(m, Result(Head(m.ops), authority.log[i].disposition, i))
    BY <1>6 DEF AcceptAgain
  <2>2. PICK result : result = Result(Head(m.ops), authority.log[i].disposition, i)
    OBVIOUS
  <2>3. i \in DOMAIN authority.log
    <3>1. authority.floor \in Nat /\ DOMAIN authority.log = 1..Len(authority.log)
          /\ Len(authority.log) \in Nat
      BY <1>1, LogRows DEF AuthorityInv, AuthorityShape
    <3>2. i \in authority.floor + 1 .. Len(authority.log)
      BY DEF RowsAt, CurrentSequence
    <3> QED BY <3>1, <3>2
  <2>4. result.op = Head(m.ops) /\ result.disposition # "pending"
    BY <2>2, <2>3 DEF Result, RunInv
  <2>5. m.kind = "push" /\ m.ops # << >> /\ UNCHANGED outgoing
    BY <1>6 DEF AcceptAgain, clientVars
  <2>6. \A k \in network' : k \in network \/ GoodRun(k)
    BY <1>1, <2>1, <2>2, <2>4, <2>5, ProgressRuns
  <2> QED BY <1>3, <2>5, <2>6
<1>7. ASSUME NEW m \in network, AcceptOne(m)
      PROVE  \A k \in network' : k \in network \/ GoodRun(k)'
  <2>1. PICK result : result = Result(Head(m.ops), Disposition(Head(m.ops)), CurrentSequence + 1)
    OBVIOUS
  <2>2. network' = Progress(m, result)
    BY <1>7, <2>1 DEF AcceptOne
  <2>3. result.op = Head(m.ops) /\ result.disposition # "pending"
    BY <2>1 DEF Result, Disposition
  <2>4. m.kind = "push" /\ m.ops # << >> /\ UNCHANGED outgoing
    BY <1>7 DEF AcceptOne, clientVars
  <2>5. \A k \in network' : k \in network \/ GoodRun(k)
    BY <1>1, <2>2, <2>3, <2>4, ProgressRuns
  <2> QED BY <1>3, <2>4, <2>5
<1>8. ASSUME NEW m \in network, Respond(m)
      PROVE  \A k \in network' : k \in network \/ GoodRun(k)'
  <2>1. PICK start \in Nat \ {0} : RunsFrom(m, start)
    BY <1>8 DEF Respond, RunInv
  <2>2. PICK reply : reply = [kind |-> "reply", replica |-> m.replica, results |-> m.results,
                              epoch |-> authority.epoch]
    OBVIOUS
  <2>3. RunsFrom(reply, start)
    BY <2>1, <2>2 DEF RunsFrom
  <2>4. GoodRun(reply)
    BY <2>2, <2>3 DEF GoodRun
  <2>5. \A k \in network' : k \in network \/ k = reply
    BY <1>8, <2>2 DEF Respond
  <2>6. UNCHANGED outgoing
    BY <1>8 DEF Respond, clientVars
  <2> QED BY <1>3, <2>4, <2>5, <2>6
<1>9. ASSUME NEW r \in Replicas, ReplicaNext(r)
      PROVE  UNCHANGED network \/ Push(r) \/ Pull(r)
  BY <1>9 DEF ReplicaNext, Register, InitializeLocal, GoSilent, Queue
<1>10. ASSUME NEW m, MessageNext(m)
       PROVE  UNCHANGED network \/ AcceptAgain(m) \/ AcceptOne(m) \/ Respond(m)
  BY <1>10 DEF MessageNext, Acknowledge, Install
<1>11. \A k \in network' : k \in network \/ GoodRun(k)'
  BY <1>4, <1>5, <1>6, <1>7, <1>8, <1>9, <1>10
  DEF ReplicationNext, Retire, AuthorityWrites, Prune, Recover
<1> QED BY <1>2, <1>11

-----------------------------------------------------------------------------
(* The second invariant. *)

QueueInv == ReplicationInv /\ ChainInv /\ RunInv /\ ShowInv

LEMMA DatabaseShows ==
  RunInv /\ ShowInv <=> /\ view = [r \in Replicas |-> view[r]] /\ \A r \in Replicas : Shows(view[r])
                        /\ GoodDatabase(authority) /\ \A m \in network : GoodRun(m)
BY DEF RunInv, ShowInv, GoodDatabase, GoodRow, GoodRun

LEMMA QueueStarts == ReplicationInit => QueueInv
<1> SUFFICES ASSUME ReplicationInit
             PROVE  QueueInv
  OBVIOUS
<1>1. ReplicationInv
  BY ReplicationStarts
<1>2. PICK empty : empty = << >> /\ empty \in Seq({}) /\ Len(empty) = 0 /\ DOMAIN empty = {}
  BY EmptySeq, EmptySequence
<1>3. ChainInv
  <2>1. ASSUME NEW r \in Replicas
        PROVE  IsChain(r, outgoing[r], local[r])
    <3>1. /\ outgoing[r] = empty /\ local[r].next = 1 /\ local[r].previous = Genesis
      BY <1>2 DEF ReplicationInit
    <3>2. OpAt(outgoing[r], Len(outgoing[r])) = Genesis
      BY <1>2, <3>1 DEF OpAt
    <3> QED BY <1>2, <3>1, <3>2 DEF IsChain
  <2> QED BY <2>1 DEF ChainInv
<1>4. view = [r \in Replicas |-> view[r]] /\ \A r \in Replicas : Shows(view[r])
  BY DEF ReplicationInit, Shows, States
<1>5. GoodDatabase(authority)
  BY <1>2 DEF ReplicationInit, Fresh, Nothing, GoodDatabase, Shows, States
<1>6. network = {}
  BY DEF ReplicationInit
<1> QED BY <1>1, <1>3, <1>4, <1>5, <1>6, DatabaseShows DEF QueueInv

LEMMA QueueInvGoes ==
  ASSUME QueueInv, [ReplicationNext]_replicationVars
  PROVE  QueueInv'
<1>1. ReplicationInv /\ ChainInv /\ RunInv /\ ShowInv /\ GoodDatabase(authority)
  BY DatabaseShows DEF QueueInv
<1>2. CASE ReplicationNext
  <2>1. ReplicationInv' /\ AuthorityInv /\ LocalShape /\ NetworkInv
    BY <1>1, <1>2, ReplicationStep DEF ReplicationInv, AuthorityInv
  <2>2. ChainInv' /\ QueuesKept /\ ViewStep
    BY <1>1, <1>2, <2>1, ChainSteps
  <2>3. GoodDatabase(authority)'
    BY <1>1, <1>2, <2>1, DatabaseSteps DEF GoodDatabase
  <2>4. \A m \in network' : GoodRun(m)'
    BY <1>1, <1>2, <2>2, MessagesRun
  <2>5. view' = [r \in Replicas |-> view'[r]] /\ \A r \in Replicas : Shows(view'[r])
    BY <1>1, <2>2 DEF ViewStep, ShowInv, Shows
  <2>6. (RunInv /\ ShowInv)'
    BY <2>3, <2>4, <2>5 DEF RunInv, ShowInv, GoodDatabase, GoodRow, GoodRun
  <2> QED BY <2>1, <2>2, <2>6 DEF QueueInv
<1>3. CASE UNCHANGED replicationVars
  <2>1. ReplicationInv'
    BY <1>1, <1>3, ReplicationStutters
  <2>2. ChainInv' /\ RunInv' /\ ShowInv'
    BY <1>1, <1>3 DEF replicationVars, ChainInv, RunInv, RunsFrom, Settled, ShowInv
  <2> QED BY <2>1, <2>2 DEF QueueInv
<1> QED BY <1>2, <1>3

LEMMA QueueIsInv == ReplicationSpec => []QueueInv
<1>1. QueueInv /\ [ReplicationNext]_replicationVars => QueueInv'
  BY QueueInvGoes
<1> QED BY <1>1, QueueStarts, PTL DEF ReplicationSpec

\* What a generation has queued is one chain of digests (queueCommand), and stays one
\* when an installation writes the pending operations again.
THEOREM QueuesAreChains == ReplicationSpec => []QueueIsOneChain
<1>1. QueueInv => QueueIsOneChain
  <2> SUFFICES ASSUME QueueInv, NEW r \in Replicas
               PROVE  /\ \A c \in DOMAIN outgoing[r] :
                           /\ outgoing[r][c].op.counter = c
                           /\ outgoing[r][c].op.previous = IF c = 1 THEN Genesis ELSE outgoing[r][c - 1].op
                      /\ local[r].previous = IF outgoing[r] = << >> THEN Genesis
                                             ELSE outgoing[r][Len(outgoing[r])].op
    BY DEF QueueIsOneChain
  <2>1. PICK s : s = outgoing[r] /\ IsSequence(s) /\ IsChain(r, s, local[r])
    BY DEF QueueInv, ChainInv, ReplicationInv, LocalShape
  <2>2. Len(s) \in Nat /\ DOMAIN s = 1..Len(s)
    BY <2>1, SequenceFacts
  <2>3. \A c \in DOMAIN s : s[c].op.counter = c
                            /\ s[c].op.previous = IF c = 1 THEN Genesis ELSE s[c - 1].op
    <3>1. \A c \in 1..Len(s) : c - 1 = 0 <=> c = 1
      BY <2>2
    <3> QED BY <2>1, <2>2, <3>1 DEF IsChain, OpAt
  <2>4. s = << >> <=> Len(s) = 0
    <3>1. s \in Seq(Elements(s))
      BY <2>1 DEF IsSequence
    <3>2. Len(<< >>) = 0
      <4>1. PICK empty : empty = << >> /\ empty \in Seq({}) /\ Len(empty) = 0
        BY EmptySeq
      <4> QED BY <4>1
    <3>3. s # << >> => Len(s) # 0
      BY <3>1, EmptySeq
    <3> QED BY <3>2, <3>3
  <2>5. local[r].previous = IF s = << >> THEN Genesis ELSE s[Len(s)].op
    BY <2>1, <2>4 DEF IsChain, OpAt
  <2> QED BY <2>1, <2>3, <2>5
<1> QED BY <1>1, QueueIsInv, PTL

\* A verdict is given once: no reply, snapshot or recovery revises what
\* acknowledgeReplicationPush wrote, no row is written again within its epoch, and
\* acceptOneOperation adds none made for another epoch.
THEOREM VerdictsAreFinal == ReplicationSpec => DecisionsAreFinal
<1> DEFINE Verdicts == \A r \in Replicas : \A c \in DOMAIN outgoing[r] :
                         Stands(outgoing[r][c], outgoing'[r][c])
           Final == Verdicts /\ RowsKept /\ RowsFenced
<1>1. ASSUME QueueInv, ReplicationNext
      PROVE  Final
  <2>1. ReplicationInv /\ ChainInv /\ RunInv /\ ShowInv /\ LocalShape /\ NetworkInv
    BY <1>1 DEF QueueInv, ReplicationInv
  <2>2. QueuesKept
    BY <1>1, <2>1, ChainSteps
  <2>3. Verdicts
    BY <2>2 DEF QueuesKept, Keeps
  <2> QED BY <1>1, <2>1, <2>3, RowsAreFinal
<1>2. DecisionsAreFinal <=> [][Final]_replicationVars
  <2>1. (\A r \in Replicas : \A c \in DOMAIN outgoing[r] :
           outgoing[r][c].status # "pending" =>
             /\ outgoing'[r][c].op = outgoing[r][c].op
             /\ outgoing'[r][c].status = outgoing[r][c].status
             /\ outgoing'[r][c].sequence = outgoing[r][c].sequence) <=> Verdicts
    BY DEF Stands
  <2> QED BY <2>1, PTL DEF DecisionsAreFinal, RowsKept, RowsFenced
<1> HIDE DEF Final
<1>3. QueueInv /\ [ReplicationNext]_replicationVars => [Final]_replicationVars
  BY <1>1
<1> QED BY <1>2, <1>3, QueueIsInv, PTL DEF ReplicationSpec

\* "Service outcome differs from the declared canonical outcome" (replication.ts:1085) is
\* never raised: what the authority is about to apply does there what its replica
\* declared, whatever was rebased in between.
THEOREM OutcomesHold == ReplicationSpec => []DeclaredOutcomesHold
<1>1. QueueInv => DeclaredOutcomesHold
  <2> SUFFICES ASSUME QueueInv, NEW m \in network, m.kind = "push", m.ops # << >>,
                      Disposition(Head(m.ops)) = "applied"
               PROVE  AppliesAsDeclared(Head(m.ops))
    BY DEF DeclaredOutcomesHold
  <2>1. PICK op : op = Head(m.ops)
    OBVIOUS
  <2>2. IsOperation(op, m.replica)
    BY <2>1, HeadIsQueued DEF QueueInv
  <2>3. authority.data.records[op.record] = op.base
    BY <2>1 DEF Disposition
  <2>4. AppliesAsDeclared(op)
    BY <2>2, <2>3 DEF AppliesAsDeclared, IsOperation, Fits
  <2> QED BY <2>1, <2>4
<1> QED BY <1>1, QueueIsInv, PTL

-----------------------------------------------------------------------------
(* Replicas converge. *)

\* Replication touched a commitment: the authority a has it, or has retired it.
Touched(a, x) == a.data.records[x] # Absent \/ x \in a.data.retired

\* One of the first n operations of the queue s is about x.
Names(s, x, n) == \E d \in 1..n : s[d].op.record = x

\* An operation of the queue s found its commitment because of the authority, or of an
\* operation before it.
Based(a, s, op) == op.base # Absent => Touched(a, op.record) \/ Names(s, op.record, op.counter - 1)

\* A replica with the queue s and the database v, n of whose operations the authority a
\* has accepted: all it shows comes from the authority or from its own operations, and
\* once it has nothing more to tell or to learn, it shows what the authority does, if the
\* authority wrote nothing on its own (there were no incidents: i is 0).
CalmReplica(a, s, me, v, n, i) ==
  /\ n \in Nat /\ n <= Len(s)
  /\ \A c \in 1..n : Touched(a, s[c].op.record)
  /\ \A c \in DOMAIN s : Based(a, s, s[c].op)
  /\ \A x \in Records : v[x] # Absent => Touched(a, x) \/ Names(s, x, Len(s))
  /\ me.observed \in Nat /\ me.observed <= Len(a.log) /\ me.retired \subseteq a.data.retired
  /\ (i = 0 /\ me.observed = Len(a.log) /\ me.retired = a.data.retired /\ Len(s) <= n)
       => v = a.data.records

\* What is on the way between the authority a and a replica with the queue s.
CalmMessage(a, s, m, i) ==
  /\ m.kind = "push" => \A k \in DOMAIN m.ops :
       /\ m.ops[k].counter \in DOMAIN s /\ m.ops[k].record \in Records
       /\ m.ops[k].record = s[m.ops[k].counter].op.record /\ Based(a, s, m.ops[k])
  /\ m.kind = "snapshot" =>
       /\ m.covered \in Nat /\ m.covered <= Len(a.log) /\ m.retired \subseteq a.data.retired
       /\ \A x \in Records : m.records[x] # Absent => Touched(a, x)
       /\ m.covered = Len(a.log) =>
            /\ m.accepted = a.replica[m.replica].accepted
            /\ i = 0 /\ m.retired = a.data.retired => m.records = a.data.records

\* How many operations of a generation the authority a has accepted.
Reached(a, r) == a.replica[r].accepted.counter

\* A replica that is of the authority's epoch, or may still become so ...
Current(r) == local[r].epoch \in {0, authority.epoch}

\* ... and a message that it, or the authority, may still heed.
Timely(m) == IF m.kind = "snapshot" THEN m.epoch = authority.epoch ELSE Current(m.replica)

\* Replicas and messages of the epoch; those of earlier ones are past help.
CalmInv ==
  /\ incidents \in Nat
  /\ \A r \in Replicas : Current(r) =>
       CalmReplica(authority, outgoing[r], local[r], view[r], Reached(authority, r), incidents)
  /\ \A m \in network : Timely(m) => CalmMessage(authority, outgoing[m.replica], m, incidents)

\* A replica that has joined no authority shows nothing, and a snapshot is of an epoch
\* that there was.
BlankInv ==
  /\ \A r \in Replicas : local[r].epoch = 0 =>
       /\ \A x \in Records : view[r][x] = Absent
       /\ local[r].observed = 0 /\ local[r].retired = {}
  /\ \A m \in network : m.kind = "snapshot" => m.epoch \in 1..authority.epoch

\* What the authority a becomes within an epoch: it forgets nothing, and where neither
\* its log nor what it retired grew, and there were no incidents, it is as it was.
Goes(a, b, i) ==
  /\ Len(a.log) \in Nat /\ Len(b.log) \in Nat /\ Len(a.log) <= Len(b.log)
  /\ a.data.retired \subseteq b.data.retired
  /\ \A x \in Records : Touched(a, x) => Touched(b, x)
  /\ Len(b.log) = Len(a.log) =>
       /\ \A r \in Replicas : b.replica[r].accepted = a.replica[r].accepted
       /\ i = 0 /\ b.data.retired = a.data.retired => b.data.records = a.data.records

\* How many operations of the queue s it has accepted, before and after: one more at most.
Reaches(b, s, n, k) ==
  k = n \/ (k = n + 1 /\ k <= Len(s) /\ Touched(b, s[k].op.record))

LEMMA NamesKept ==
  ASSUME NEW s, NEW t, IsSequence(s), Keeps(s, t), NEW x, NEW n \in Nat, n <= Len(s), Names(s, x, n)
  PROVE  Names(t, x, n)
<1>1. PICK d \in 1..n : s[d].op.record = x
  BY DEF Names
<1>2. d \in DOMAIN s
  BY SequenceFacts
<1> QED BY <1>1, <1>2 DEF Names, Keeps

LEMMA NamesMore ==
  ASSUME NEW s, NEW x, NEW n \in Nat, NEW k \in Nat, n <= k, Names(s, x, n)
  PROVE  Names(s, x, k)
BY DEF Names

LEMMA BasedStays ==
  ASSUME NEW a, NEW b, NEW j, Goes(a, b, j), NEW s, NEW t, IsSequence(s), Keeps(s, t),
         NEW op, op.record \in Records, op.counter \in DOMAIN s, Based(a, s, op)
  PROVE  Based(b, t, op)
<1>1. PICK n \in Nat : n = op.counter - 1 /\ n <= Len(s)
  BY SequenceFacts
<1>2. Names(s, op.record, n) => Names(t, op.record, n)
  BY <1>1, NamesKept
<1> QED BY <1>1, <1>2 DEF Based, Goes

\* A replica to which nothing happens, or only decisions.
LEMMA CalmStays ==
  ASSUME NEW i, NEW j, j = 0 => i = 0, NEW a, NEW b, Goes(a, b, j),
         NEW r, NEW s, NEW t, IsSequence(s), IsSequence(t), Keeps(s, t),
         NEW me, IsChain(r, s, me), NEW you, NEW v \in [Records -> States], NEW n, NEW k,
         CalmReplica(a, s, me, v, n, i), Reaches(b, s, n, k),
         DOMAIN t = DOMAIN s, \A c \in DOMAIN s : t[c].op = s[c].op,
         you.observed = me.observed, you.retired = me.retired,
         Len(b.log) = Len(a.log) => k = n
  PROVE  CalmReplica(b, t, you, v, k, j)
<1>1. PICK size \in Nat : size = Len(s) /\ DOMAIN s = 1..size /\ Len(t) = size /\ DOMAIN t = 1..size
  <2>1. Len(s) \in Nat /\ DOMAIN s = 1..Len(s) /\ Len(t) \in Nat /\ DOMAIN t = 1..Len(t)
    BY SequenceFacts
  <2>2. \A p, q \in Nat : 1..p = 1..q => p = q
    OBVIOUS
  <2>3. Len(t) = Len(s)
    BY <2>1, <2>2
  <2> QED BY <2>1, <2>3
<1>2. /\ n \in Nat /\ n <= size
      /\ \A c \in 1..n : Touched(a, s[c].op.record)
      /\ \A c \in 1..size : Based(a, s, s[c].op)
      /\ \A x \in Records : v[x] # Absent => Touched(a, x) \/ Names(s, x, size)
      /\ me.observed \in Nat /\ me.observed <= Len(a.log) /\ me.retired \subseteq a.data.retired
      /\ (i = 0 /\ me.observed = Len(a.log) /\ me.retired = a.data.retired /\ size <= n)
           => v = a.data.records
  BY <1>1 DEF CalmReplica
<1>3. \A c \in 1..size : s[c].op.record \in Records /\ s[c].op.counter = c
  BY <1>1 DEF IsChain, IsOperation, HasFields
<1>4. k \in Nat /\ k <= size
  BY <1>1, <1>2 DEF Reaches
<1>5. ASSUME NEW c \in 1..k
      PROVE  Touched(b, t[c].op.record)
  <2>1. c \in 1..size /\ t[c].op = s[c].op
    BY <1>1, <1>4
  <2>2. CASE c \in 1..n
    BY <1>2, <1>3, <2>1, <2>2 DEF Goes
  <2>3. CASE c \notin 1..n
    <3>1. c = k /\ k = n + 1
      BY <1>2, <2>3 DEF Reaches
    <3>2. Touched(b, s[k].op.record)
      BY <1>2, <3>1 DEF Reaches
    <3> QED BY <2>1, <3>1, <3>2
  <2> QED BY <2>2, <2>3
<1>6. \A c \in DOMAIN t : Based(b, t, t[c].op)
  <2>1. ASSUME NEW c \in 1..size
        PROVE  Based(b, t, s[c].op)
    BY <1>1, <1>2, <1>3, BasedStays
  <2> QED BY <1>1, <2>1
<1>7. \A x \in Records : v[x] # Absent => Touched(b, x) \/ Names(t, x, size)
  <2>1. \A x : Names(s, x, size) => Names(t, x, size)
    BY <1>1, NamesKept
  <2> QED BY <1>2, <2>1 DEF Goes
<1>8. you.observed <= Len(b.log) /\ you.retired \subseteq b.data.retired
  BY <1>2 DEF Goes
<1>9. ASSUME j = 0, you.observed = Len(b.log), you.retired = b.data.retired, size <= k
      PROVE  v = b.data.records
  <2>1. Len(b.log) = Len(a.log)
    BY <1>2, <1>9 DEF Goes
  <2>2. b.data.retired = a.data.retired
    BY <1>2, <1>9 DEF Goes
  <2>3. k = n /\ b.data.records = a.data.records
    BY <1>9, <2>1, <2>2 DEF Goes
  <2> QED BY <1>2, <1>9, <2>1, <2>2, <2>3
<1> QED BY <1>1, <1>2, <1>4, <1>5, <1>6, <1>7, <1>8, <1>9 DEF CalmReplica

\* What the authority does within an epoch.
AuthorityGoes ==
  /\ authority'.epoch = authority.epoch
  /\ Goes(authority, authority', incidents')
  /\ \A r \in Replicas : Current(r) =>
       Reaches(authority', outgoing[r], Reached(authority, r), Reached(authority', r))

\* What that is.
LEMMA CalmSteps ==
  ASSUME incidents \in Nat, [ReplicationNext]_replicationVars
  PROVE  /\ incidents' \in Nat /\ (incidents' = 0 => incidents = 0)
         /\ \/ UNCHANGED authority
            \/ \E r \in Replicas : Register(r) \/ Pull(r) \/ GoSilent(r)
            \/ \E x \in Records : Retire(x) \/ (AuthorityWrites(x) /\ incidents' # 0)
            \/ \E m \in network : AcceptOne(m)
            \/ Prune \/ Recover
<1>1. ASSUME Incident
      PROVE  incidents' \in Nat /\ incidents' # 0
  BY <1>1 DEF Incident
<1>2. CASE UNCHANGED replicationVars
  BY <1>2 DEF replicationVars
<1>3. ASSUME NEW r \in Replicas, ReplicaNext(r)
      PROVE  /\ Incident \/ UNCHANGED incidents
             /\ UNCHANGED authority \/ Register(r) \/ Pull(r) \/ GoSilent(r)
  BY <1>3 DEF ReplicaNext, InitializeLocal, Push, Queue, Register, Pull, GoSilent
<1>4. ASSUME NEW m \in network, MessageNext(m)
      PROVE  UNCHANGED incidents /\ (UNCHANGED authority \/ AcceptOne(m))
  BY <1>4 DEF MessageNext, AcceptAgain, AcceptOne, Respond, Acknowledge, Install
<1>5. ASSUME NEW x \in Records, Retire(x) \/ AuthorityWrites(x)
      PROVE  (Incident /\ AuthorityWrites(x)) \/ (UNCHANGED incidents /\ Retire(x))
  BY <1>5 DEF Retire, AuthorityWrites
<1>6. ASSUME Prune \/ Recover
      PROVE  Incident
  BY <1>6 DEF Prune, Recover
<1> QED BY <1>1, <1>2, <1>3, <1>4, <1>5, <1>6 DEF ReplicationNext

LEMMA AuthorityRests ==
  ASSUME AuthorityShape, LogStays, authority'.data = authority.data
  PROVE  AuthorityGoes
<1>1. Len(authority.log) \in Nat
  BY LogRows
<1>2. \A x \in Records : Touched(authority, x) => Touched(authority', x)
  BY DEF Touched
<1>3. Goes(authority, authority', incidents')
  BY <1>1, <1>2 DEF Goes, LogStays
<1>4. \A r \in Replicas : Reaches(authority', outgoing[r], Reached(authority, r), Reached(authority', r))
  BY DEF LogStays, Reaches, Reached
<1> QED BY <1>3, <1>4 DEF AuthorityGoes, LogStays

\* What the authority writes on its own is an incident, and leaves the commitment there.
LEMMA WritingGoes ==
  ASSUME AuthorityInv, ShowInv, NEW x \in Records, AuthorityWrites(x), incidents' # 0
  PROVE  AuthorityGoes
<1>1. LogStays /\ Len(authority.log) \in Nat
  BY QuietAuthority, LogRows DEF AuthorityInv
<1>2. PICK d : /\ d = authority.data /\ Sound(d)
               /\ authority \in [epoch : Nat, log : {authority.log}, floor : Nat, data : {d},
                                 replica : {authority.replica}]
  BY DEF AuthorityInv, AuthorityShape, DataInv
<1>3. PICK was : was = d.records[x]
  OBVIOUS
<1>4. was \in [body : Bodies \cup {ByAuthority}, deleted : BOOLEAN] /\ was # Absent
  <2>1. was \in States /\ was # Absent
    BY <1>2, <1>3 DEF AuthorityWrites, ShowInv, Shows
  <2> QED BY <2>1 DEF States
<1>5. PICK is : /\ is = [was EXCEPT !.body = ByAuthority] \/ is = [was EXCEPT !.deleted = TRUE]
                /\ authority' = [authority EXCEPT !.data.records[x] = is]
  BY <1>2, <1>3 DEF AuthorityWrites
<1>6. is # Absent
  <2>1. is \in [body : Bodies \cup {ByAuthority}, deleted : BOOLEAN]
    BY <1>4, <1>5
  <2>2. is.body # "none"
    BY <2>1, ReplicationAssumption DEF ByAuthority
  <2> QED BY <2>2 DEF Absent
<1>7. PICK records : records = [d.records EXCEPT ![x] = is]
  OBVIOUS
<1>8. PICK e : e = [d EXCEPT !.records = records]
  OBVIOUS
<1>9. authority' = [authority EXCEPT !.data = e]
  BY <1>2, <1>5, <1>7, <1>8
<1>10. authority'.data = e /\ e.records = records /\ e.retired = d.retired
  BY <1>2, <1>8, <1>9 DEF Sound
<1>11. \A y \in Records : Touched(authority, y) => Touched(authority', y)
  <2>1. \A y \in Records : records[y] = IF y = x THEN is ELSE d.records[y]
    BY <1>2, <1>7 DEF Sound
  <2> QED BY <1>2, <1>6, <1>10, <2>1 DEF Touched
<1>12. Goes(authority, authority', incidents')
  BY <1>1, <1>2, <1>10, <1>11 DEF Goes, LogStays
<1> QED BY <1>1, <1>12 DEF AuthorityGoes, Reaches, Reached, LogStays

LEMMA RetiringGoes ==
  ASSUME AuthorityInv, NEW x \in Records, Retire(x)
  PROVE  AuthorityGoes
<1>1. LogStays /\ Len(authority.log) \in Nat
  BY QuietAuthority, LogRows DEF AuthorityInv
<1>2. PICK d : /\ d = authority.data /\ Sound(d)
               /\ authority \in [epoch : Nat, log : {authority.log}, floor : Nat, data : {d},
                                 replica : {authority.replica}]
  BY DEF AuthorityInv, AuthorityShape, DataInv
<1>3. PICK records : records = [d.records EXCEPT ![x] = Absent]
  OBVIOUS
<1>4. PICK retired : retired = d.retired \cup {x}
  OBVIOUS
<1>5. PICK first : first = [d EXCEPT !.records = records]
  OBVIOUS
<1>6. PICK e : e = [first EXCEPT !.retired = retired]
  OBVIOUS
<1>7. authority' = [authority EXCEPT !.data = e]
  BY <1>2, <1>3, <1>4, <1>5, <1>6 DEF Retire, Sound
<1>8. e.records = records /\ e.retired = retired
  <2>1. first \in [records : {records}, retired : {d.retired}]
    BY <1>2, <1>5 DEF Sound
  <2> QED BY <1>6, <2>1
<1>9. authority'.data = e
  BY <1>2, <1>7
<1>10. x \notin d.retired
  BY <1>2 DEF Retire, Sound, Absent
<1>11. \A y \in Records : Touched(authority, y) => Touched(authority', y)
  <2>1. \A y \in Records : y # x => records[y] = d.records[y]
    BY <1>2, <1>3 DEF Sound
  <2> QED BY <1>2, <1>4, <1>8, <1>9, <2>1 DEF Touched
<1>12. Goes(authority, authority', incidents')
  <2>1. authority'.data.retired = authority.data.retired \cup {x}
    BY <1>2, <1>4, <1>8, <1>9
  <2>2. authority'.data.retired # authority.data.retired
    BY <1>2, <1>10, <2>1
  <2> QED BY <1>1, <1>11, <2>1, <2>2 DEF Goes, LogStays
<1> QED BY <1>1, <1>12 DEF AuthorityGoes, Reaches, Reached, LogStays

\* What a push holds is in the queue of its replica.
LEMMA OpsAreQueued ==
  ASSUME LocalShape, NetworkInv, RunInv, NEW m \in network, m.kind = "push"
  PROVE  /\ IsSequence(m.ops)
         /\ \A i \in DOMAIN m.ops : /\ IsOperation(m.ops[i], m.replica)
                                    /\ m.ops[i].counter \in DOMAIN outgoing[m.replica]
<1>1. PICK start \in Nat \ {0} : RunsFrom(m, start)
  BY DEF RunInv
<1>2. IsSequence(m.ops) /\ IsSequence(m.results) /\ IsSequence(outgoing[m.replica])
  BY <1>1 DEF RunsFrom, NetworkInv, ResultsHold, LocalShape
<1>3. PICK n \in Nat : n = Len(m.ops) /\ DOMAIN m.ops = 1..n
  BY <1>2, SequenceFacts
<1>4. PICK k \in Nat : k = Len(m.results)
  BY <1>2, SequenceFacts
<1>5. PICK size \in Nat : size = Len(outgoing[m.replica]) /\ DOMAIN outgoing[m.replica] = 1..size
  BY <1>2, SequenceFacts
<1>6. /\ start - 1 + k + n <= size
      /\ \A i \in 1..n : m.ops[i].counter = start - 1 + k + i /\ IsOperation(m.ops[i], m.replica)
  BY <1>1, <1>3, <1>4, <1>5 DEF RunsFrom
<1>7. \A i \in 1..n : start - 1 + k + i \in 1..size
  BY <1>6
<1> QED BY <1>2, <1>3, <1>5, <1>6, <1>7

\* A change that is applied leaves a commitment there.
LEMMA AppliedIsThere ==
  ASSUME NEW r, NEW op, IsOperation(op, r)
  PROVE  op.outcome # Absent
<1>1. /\ op.command \in Commands /\ op.base \in States
      /\ Legal(op.command, op.base) /\ Outcome(op.command, op.base) = op.outcome
  BY DEF IsOperation, HasFields, Fits
<1>2. PICK command, base : command = op.command /\ base = op.base
  OBVIOUS
<1>3. /\ command.kind \in {"create", "update", "delete", "restore"}
      /\ command.kind \in {"create", "update"} => command.body \in Bodies
  BY <1>1, <1>2 DEF Commands
<1>4. CASE command.kind \in {"create", "update"}
  <2>1. Outcome(command, base) = [body |-> command.body, deleted |-> FALSE]
    BY <1>4 DEF Outcome
  <2> QED BY <1>1, <1>2, <1>3, <1>4, <2>1, ReplicationAssumption DEF Absent
<1>5. CASE command.kind \in {"delete", "restore"}
  <2>1. base \in [body : Bodies \cup {ByAuthority}, deleted : BOOLEAN]
    BY <1>1, <1>2, <1>5 DEF Legal, States
  <2>2. PICK t \in BOOLEAN : Outcome(command, base) = [base EXCEPT !.deleted = t]
    BY <1>5 DEF Outcome
  <2>3. [base EXCEPT !.deleted = t].body \in Bodies \cup {ByAuthority}
    BY <2>1
  <2>4. ByAuthority # "none"
    BY DEF ByAuthority
  <2>5. [base EXCEPT !.deleted = t].body # "none"
    BY <2>3, <2>4, ReplicationAssumption
  <2> QED BY <1>1, <1>2, <2>2, <2>5 DEF Absent
<1> QED BY <1>3, <1>4, <1>5

\* An operation the authority takes up: whatever comes of it, its commitment is touched.
LEMMA AcceptingGoes ==
  ASSUME QueueInv, NEW m \in network, AcceptOne(m),
         Current(m.replica) =>
           /\ CalmMessage(authority, outgoing[m.replica], m, incidents)
           /\ CalmReplica(authority, outgoing[m.replica], local[m.replica], view[m.replica],
                          Reached(authority, m.replica), incidents)
  PROVE  AuthorityGoes
<1>1. /\ AuthorityInv /\ LocalShape /\ NetworkInv /\ RunInv /\ Sound(authority.data)
      /\ Len(authority.log) \in Nat /\ m.replica \in Replicas
  BY LogRows DEF QueueInv, ReplicationInv, AuthorityInv, DataInv, NetworkInv
<1>2. PICK op : op = Head(m.ops)
  OBVIOUS
<1>3. /\ m.kind = "push" /\ m.ops # << >> /\ Welcome(op) /\ Succeeds(op)
      /\ Disposition(op) = "applied" => AppliesAsDeclared(op)
      /\ authority' = Accepted(op)
  BY <1>2 DEF AcceptOne
<1>4. PICK s, n : s = outgoing[m.replica] /\ n = Reached(authority, m.replica)
  OBVIOUS
<1>5. /\ IsOperation(op, m.replica) /\ op.counter \in DOMAIN s
      /\ Current(m.replica) => op.record = s[op.counter].op.record /\ Based(authority, s, op)
      /\ DOMAIN s = 1..Len(s) /\ Len(s) \in Nat
  <2>1. /\ IsSequence(m.ops)
        /\ \A i \in DOMAIN m.ops : IsOperation(m.ops[i], m.replica) /\ m.ops[i].counter \in DOMAIN s
    BY <1>1, <1>3, <1>4, OpsAreQueued
  <2>2. 1 \in DOMAIN m.ops /\ op = m.ops[1]
    BY <1>2, <1>3, <2>1, NextOperation
  <2>3. Current(m.replica) => op.record = s[op.counter].op.record /\ Based(authority, s, op)
    BY <1>3, <1>4, <2>2 DEF CalmMessage
  <2>4. IsSequence(s)
    BY <1>1, <1>4 DEF LocalShape
  <2> QED BY <2>1, <2>2, <2>3, <2>4, SequenceFacts
<1>6. op.origin = m.replica /\ op.record \in Records
  BY <1>5 DEF IsOperation, HasFields
<1>7. /\ op.counter = n + 1
      /\ Current(m.replica) => n \in Nat /\ \A c \in 1..n : Touched(authority, s[c].op.record)
  BY <1>3, <1>4, <1>6 DEF Succeeds, Reached, CalmReplica
<1>8. /\ Accepts(op) /\ authority'.data = DataAfter(op)
      /\ authority'.log = Append(authority.log, [op |-> op, disposition |-> Disposition(op),
                                                 data |-> DataAfter(op)])
  BY <1>1, <1>3, AcceptingAuthority
<1>9. Len(authority'.log) = Len(authority.log) + 1 /\ Len(authority'.log) \in Nat
  <2>1. PICK row : authority'.log = Append(authority.log, row)
    BY <1>8
  <2>2. IsSequence(authority'.log) /\ DOMAIN authority'.log = 1..(Len(authority.log) + 1)
    BY <1>1, <2>1, AppendedSequence DEF AuthorityInv, AuthorityShape
  <2>3. Len(authority'.log) \in Nat /\ DOMAIN authority'.log = 1..Len(authority'.log)
    BY <2>2, SequenceFacts
  <2>4. \A k, l \in Nat : 1..k = 1..(l + 1) => k = l + 1
    OBVIOUS
  <2> QED BY <1>1, <2>2, <2>3, <2>4
<1>10. PICK d : /\ d = authority.data /\ Sound(d)
  BY <1>1
<1>11. /\ authority'.data.retired = d.retired
       /\ \A x \in Records : Touched(authority, x) => Touched(authority', x)
       /\ Current(m.replica) => Touched(authority', op.record)
  <2>1. CASE Disposition(op) = "applied"
    <3>1. PICK records : records = [d.records EXCEPT ![op.record] = op.outcome]
      OBVIOUS
    <3>2. authority'.data = [d EXCEPT !.records = records]
      BY <1>8, <1>10, <2>1, <3>1 DEF DataAfter
    <3>3. authority'.data.records = records /\ authority'.data.retired = d.retired
      BY <1>10, <3>2 DEF Sound
    <3>4. op.outcome # Absent
      BY <1>5, AppliedIsThere
    <3>5. \A x \in Records : records[x] = IF x = op.record THEN op.outcome ELSE d.records[x]
      BY <1>6, <1>10, <3>1 DEF Sound
    <3> QED BY <1>6, <1>10, <3>3, <3>4, <3>5 DEF Touched
  <2>2. CASE Disposition(op) # "applied"
    <3>1. authority'.data = d
      BY <1>8, <1>10, <2>2 DEF DataAfter
    <3>2. ASSUME Current(m.replica)
          PROVE  Touched(authority, op.record)
      <4>1. CASE d.records[op.record] # Absent
        BY <1>10, <4>1 DEF Touched
      <4>2. CASE op.record \in d.retired
        BY <1>10, <4>2 DEF Touched
      <4>3. CASE d.records[op.record] = Absent /\ op.record \notin d.retired
        <5>1. op.base # Absent
          BY <1>10, <2>2, <4>3 DEF Disposition
        <5>2. Touched(authority, op.record) \/ Names(s, op.record, n)
          <6>1. op.counter - 1 = n
            BY <1>7, <3>2
          <6> QED BY <1>5, <3>2, <5>1, <6>1 DEF Based
        <5> QED BY <1>7, <3>2, <5>2 DEF Names
      <4> QED BY <4>1, <4>2, <4>3
    <3> QED BY <1>10, <3>1, <3>2 DEF Touched
  <2> QED BY <2>1, <2>2
<1>12. Goes(authority, authority', incidents')
  <2>1. Len(authority'.log) # Len(authority.log) /\ Len(authority.log) <= Len(authority'.log)
    BY <1>1, <1>9
  <2> QED BY <1>1, <1>9, <1>10, <1>11, <2>1 DEF Goes
<1>13. ASSUME NEW r \in Replicas, Current(r)
       PROVE  Reaches(authority', outgoing[r], Reached(authority, r), Reached(authority', r))
  <2>1. Reached(authority', r) = IF r = m.replica THEN op.counter ELSE Reached(authority, r)
    BY <1>6, <1>8 DEF Accepts, Reached
  <2>2. CASE r = m.replica
    <3>1. n + 1 <= Len(s)
      BY <1>5, <1>7, <1>13, <2>2
    <3> QED BY <1>4, <1>5, <1>7, <1>11, <1>13, <2>1, <2>2, <3>1 DEF Reaches
  <2>3. CASE r # m.replica
    BY <2>1, <2>3 DEF Reaches
  <2> QED BY <2>2, <2>3
<1> QED BY <1>8, <1>12, <1>13 DEF AuthorityGoes, Accepts

LEMMA CalmAuthority ==
  ASSUME QueueInv, CalmInv, [ReplicationNext]_replicationVars, ~Recover
  PROVE  AuthorityGoes
<1>1. AuthorityInv /\ AuthorityShape /\ ShowInv
  BY DEF QueueInv, ReplicationInv, AuthorityInv
<1>2. \/ UNCHANGED authority
      \/ \E r \in Replicas : Register(r) \/ Pull(r) \/ GoSilent(r)
      \/ \E x \in Records : Retire(x) \/ (AuthorityWrites(x) /\ incidents' # 0)
      \/ \E m \in network : AcceptOne(m)
      \/ Prune
  BY CalmSteps DEF CalmInv
<1>3. CASE UNCHANGED authority
  BY <1>1, <1>3, AuthorityRests DEF LogStays
<1>4. ASSUME (\E r \in Replicas : Register(r) \/ Pull(r) \/ GoSilent(r)) \/ Prune
      PROVE  AuthorityGoes
  <2>1. LogStays
    BY <1>1, <1>4, QuietAuthority
  <2>2. PICK a : a = authority /\ a \in [epoch : Nat, log : {a.log}, floor : Nat, data : {a.data},
                                         replica : {a.replica}]
    BY <1>1 DEF AuthorityShape
  <2>3. \/ \E replica : authority' = [a EXCEPT !.replica = replica]
        \/ \E floor : authority' = [a EXCEPT !.floor = floor]
    BY <1>4, <2>2 DEF Register, Pull, GoSilent, Prune
  <2>4. authority'.data = a.data
    BY <2>2, <2>3
  <2> QED BY <1>1, <2>1, <2>2, <2>4, AuthorityRests
<1>5. ASSUME NEW m \in network, AcceptOne(m)
      PROVE  AuthorityGoes
  <2>1. m.replica \in Replicas
    BY DEF QueueInv, ReplicationInv, NetworkInv
  <2>2. Current(m.replica) =>
          /\ CalmMessage(authority, outgoing[m.replica], m, incidents)
          /\ CalmReplica(authority, outgoing[m.replica], local[m.replica], view[m.replica],
                         Reached(authority, m.replica), incidents)
    BY <1>5, <2>1 DEF CalmInv, Timely, AcceptOne
  <2> QED BY <1>5, <2>2, AcceptingGoes
<1> QED BY <1>1, <1>2, <1>3, <1>4, <1>5, RetiringGoes, WritingGoes

\* What is on the way stays as it was.
LEMMA MessageStays ==
  ASSUME NEW i, NEW j, j = 0 => i = 0, NEW a, NEW b, Goes(a, b, j),
         NEW s, NEW t, IsSequence(s), Keeps(s, t),
         NEW m, m.replica \in Replicas, CalmMessage(a, s, m, i)
  PROVE  CalmMessage(b, t, m, j)
<1>1. ASSUME m.kind = "push", NEW k \in DOMAIN m.ops
      PROVE  /\ m.ops[k].counter \in DOMAIN t /\ m.ops[k].record \in Records
             /\ m.ops[k].record = t[m.ops[k].counter].op.record /\ Based(b, t, m.ops[k])
  <2>1. PICK op : op = m.ops[k]
    OBVIOUS
  <2>2. op.counter \in DOMAIN s /\ op.record \in Records /\ op.record = s[op.counter].op.record
        /\ Based(a, s, op)
    BY <1>1, <2>1 DEF CalmMessage
  <2>3. Based(b, t, op)
    BY <2>2, BasedStays
  <2>4. op.counter \in DOMAIN t /\ op.record = t[op.counter].op.record
    BY <2>2 DEF Keeps
  <2> QED BY <2>1, <2>2, <2>3, <2>4
<1>2. ASSUME m.kind = "snapshot"
      PROVE  /\ m.covered \in Nat /\ m.covered <= Len(b.log) /\ m.retired \subseteq b.data.retired
             /\ \A x \in Records : m.records[x] # Absent => Touched(b, x)
             /\ m.covered = Len(b.log) =>
                  /\ m.accepted = b.replica[m.replica].accepted
                  /\ j = 0 /\ m.retired = b.data.retired => m.records = b.data.records
  <2>1. /\ m.covered \in Nat /\ m.covered <= Len(a.log) /\ m.retired \subseteq a.data.retired
        /\ \A x \in Records : m.records[x] # Absent => Touched(a, x)
        /\ m.covered = Len(a.log) =>
             /\ m.accepted = a.replica[m.replica].accepted
             /\ i = 0 /\ m.retired = a.data.retired => m.records = a.data.records
    BY <1>2 DEF CalmMessage
  <2>2. m.covered <= Len(b.log) /\ m.retired \subseteq b.data.retired
    BY <2>1 DEF Goes
  <2>3. \A x \in Records : m.records[x] # Absent => Touched(b, x)
    BY <2>1 DEF Goes
  <2>4. ASSUME m.covered = Len(b.log)
        PROVE  /\ m.accepted = b.replica[m.replica].accepted
               /\ j = 0 /\ m.retired = b.data.retired => m.records = b.data.records
    <3>1. Len(b.log) = Len(a.log) /\ m.covered = Len(a.log)
      BY <2>1, <2>4 DEF Goes
    <3>2. m.retired = b.data.retired => b.data.retired = a.data.retired
      BY <2>1 DEF Goes
    <3> QED BY <2>1, <3>1, <3>2 DEF Goes
  <2> QED BY <2>1, <2>2, <2>3, <2>4
<1> QED BY <1>1, <1>2 DEF CalmMessage

\* A push, and what is left of one.
LEMMA PushIsCalm ==
  ASSUME LocalShape, ChainInv, NEW r \in Replicas,
         CalmReplica(authority, outgoing[r], local[r], view[r], Reached(authority, r), incidents),
         NEW m, m = [kind |-> "push", replica |-> r, results |-> << >>,
                     ops |-> [i \in DOMAIN Pending(r) |-> Pending(r)[i].op]]
  PROVE  CalmMessage(authority, outgoing[r], m, incidents)
<1>1. PICK s : s = outgoing[r] /\ IsSequence(s) /\ IsChain(r, s, local[r])
  BY DEF LocalShape, ChainInv
<1>2. PICK rest : rest = Pending(r)
  OBVIOUS
<1>3. PICK done \in 0..Len(s) :
        /\ IsSequence(rest) /\ Len(rest) = Len(s) - done
        /\ \A i \in 1..Len(rest) : rest[i] = s[done + i]
  BY <1>1, <1>2, PendingIsTheRest
<1>4. Len(s) \in Nat /\ DOMAIN s = 1..Len(s) /\ Len(rest) \in Nat /\ DOMAIN rest = 1..Len(rest)
  BY <1>1, <1>3, SequenceFacts
<1>5. ASSUME NEW i \in DOMAIN rest
      PROVE  /\ rest[i].op.counter \in DOMAIN s /\ rest[i].op.record \in Records
             /\ rest[i].op.record = s[rest[i].op.counter].op.record /\ Based(authority, s, rest[i].op)
  <2>1. done + i \in DOMAIN s /\ rest[i] = s[done + i]
    BY <1>3, <1>4, <1>5
  <2>2. rest[i].op.counter = done + i /\ rest[i].op.record \in Records
    BY <1>1, <2>1 DEF IsChain, IsOperation, HasFields
  <2>3. Based(authority, s, rest[i].op)
    BY <1>1, <2>1 DEF CalmReplica
  <2> QED BY <2>1, <2>2, <2>3
<1>6. PICK ops : ops = [i \in DOMAIN rest |-> rest[i].op]
  OBVIOUS
<1>7. m.ops = ops /\ m.kind = "push"
  BY <1>2, <1>6
<1>8. \A i \in DOMAIN ops : /\ ops[i].counter \in DOMAIN s /\ ops[i].record \in Records
                            /\ ops[i].record = s[ops[i].counter].op.record /\ Based(authority, s, ops[i])
  BY <1>5, <1>6
<1> QED BY <1>1, <1>7, <1>8 DEF CalmMessage

LEMMA ProgressIsCalm ==
  ASSUME LocalShape, NetworkInv, RunInv, NEW m \in network, m.kind = "push", m.ops # << >>,
         Timely(m) => CalmMessage(authority, outgoing[m.replica], m, incidents), NEW result,
         NEW k, k \in Progress(m, result), Timely(k)
  PROVE  k \in network \/ CalmMessage(authority, outgoing[k.replica], k, incidents)
<1>1. m \in [kind : {"push"}, replica : {m.replica}, results : {m.results}, ops : {m.ops}]
  BY DEF NetworkInv
<1>2. PICK results, ops : results = Append(m.results, result) /\ ops = Tail(m.ops)
  OBVIOUS
<1>3. PICK first : first = [m EXCEPT !.ops = ops]
  OBVIOUS
<1>4. PICK next : next = [first EXCEPT !.results = results]
  OBVIOUS
<1>5. k \in network \/ k = next
  BY <1>1, <1>2, <1>3, <1>4 DEF Progress
<1>6. next.ops = ops /\ next.replica = m.replica /\ next.kind = "push"
  <2>1. first \in [kind : {"push"}, replica : {m.replica}, results : {m.results}, ops : {ops}]
    BY <1>1, <1>3
  <2> QED BY <1>4, <2>1
<1>7. \A i \in DOMAIN ops : i + 1 \in DOMAIN m.ops /\ ops[i] = m.ops[i + 1]
  <2>1. IsSequence(m.ops)
    BY OpsAreQueued
  <2> QED BY <1>2, <2>1, NextOperation
<1>8. k = next =>
      \A i \in DOMAIN ops : /\ ops[i].counter \in DOMAIN outgoing[m.replica] /\ ops[i].record \in Records
                            /\ ops[i].record = outgoing[m.replica][ops[i].counter].op.record
                            /\ Based(authority, outgoing[m.replica], ops[i])
  <2>1. k = next => Timely(m)
    BY <1>6 DEF Timely
  <2> QED BY <1>7, <2>1 DEF CalmMessage
<1> QED BY <1>5, <1>6, <1>8 DEF CalmMessage

LEMMA SnapshotIsCalm ==
  ASSUME AuthorityInv, NEW r \in Replicas
  PROVE  CalmMessage(authority, outgoing[r], Snapshot(r), incidents)
<1>1. Len(authority.log) \in Nat
  BY LogRows DEF AuthorityInv
<1>2. PICK m : m = Snapshot(r)
  OBVIOUS
<1>3. /\ m.kind = "snapshot" /\ m.replica = r /\ m.covered = Len(authority.log)
      /\ m.records = authority.data.records /\ m.retired = authority.data.retired
      /\ m.accepted = authority.replica[r].accepted
  BY <1>2 DEF Snapshot, CurrentSequence
<1>4. \A x \in Records : m.records[x] # Absent => Touched(authority, x)
  BY <1>3 DEF Touched
<1>5. CalmMessage(authority, outgoing[r], m, incidents)
  BY <1>1, <1>3, <1>4 DEF CalmMessage
<1> QED BY <1>2, <1>5

\* Only a recovery makes a replica one of an earlier epoch, and nothing makes up for it.
LEMMA CurrentWas ==
  ASSUME AuthorityGoes, EpochStep, NEW r \in Replicas, Current(r)'
  PROVE  Current(r)
BY DEF AuthorityGoes, EpochStep, Current

LEMMA CalmMessages ==
  ASSUME QueueInv, QueueInv', QueuesKept, AuthorityGoes, EpochStep, ReplicationNext, CalmInv
  PROVE  \A k \in network' : Timely(k)' => CalmMessage(authority', outgoing'[k.replica], k, incidents')
<1>1. /\ AuthorityInv /\ LocalShape /\ NetworkInv /\ RunInv /\ ChainInv
      /\ \A k \in network' : k.replica \in Replicas
      /\ Goes(authority, authority', incidents') /\ (incidents' = 0 => incidents = 0)
      /\ \A m \in network : Timely(m) => CalmMessage(authority, outgoing[m.replica], m, incidents)
  BY CalmSteps DEF QueueInv, ReplicationInv, AuthorityInv, NetworkInv, AuthorityGoes, CalmInv
<1>2. ASSUME NEW r \in Replicas, Push(r)
      PROVE  \A k \in network' : Timely(k) => CalmMessage(authority, outgoing[k.replica], k, incidents)
  <2>1. PICK m : m = [kind |-> "push", replica |-> r, results |-> << >>,
                      ops |-> [i \in DOMAIN Pending(r) |-> Pending(r)[i].op]]
    OBVIOUS
  <2>2. network' \in Sent(m, MaxPushes)
    BY <1>2, <2>1 DEF Push
  <2>3. \A k \in network' : k \in network \/ k = m
    BY <2>2 DEF Sent
  <2>4. m.kind = "push" /\ m.replica = r
    BY <2>1
  <2>5. Timely(m) => CalmMessage(authority, outgoing[r], m, incidents)
    BY <1>1, <2>1, <2>4, PushIsCalm DEF Timely, CalmInv
  <2> QED BY <1>1, <2>3, <2>4, <2>5
<1>3. ASSUME NEW r \in Replicas, Pull(r)
      PROVE  \A k \in network' : Timely(k) => CalmMessage(authority, outgoing[k.replica], k, incidents)
  <2>1. PICK m : m = Snapshot(r)
    OBVIOUS
  <2>2. \A k \in network' : k \in network \/ k = m
    BY <1>3, <2>1 DEF Pull
  <2>3. CalmMessage(authority, outgoing[r], m, incidents) /\ m.replica = r
    BY <1>1, <2>1, SnapshotIsCalm DEF Snapshot
  <2> QED BY <1>1, <2>2, <2>3
<1>4. ASSUME NEW m \in network, AcceptAgain(m) \/ AcceptOne(m)
      PROVE  \A k \in network' : Timely(k) => CalmMessage(authority, outgoing[k.replica], k, incidents)
  <2>1. PICK result : network' = Progress(m, result)
    BY <1>4 DEF AcceptAgain, AcceptOne
  <2>2. m.kind = "push" /\ m.ops # << >>
    BY <1>4 DEF AcceptAgain, AcceptOne
  <2> QED BY <1>1, <2>1, <2>2, ProgressIsCalm
<1>5. ASSUME NEW m \in network, Respond(m)
      PROVE  \A k \in network' : Timely(k) => CalmMessage(authority, outgoing[k.replica], k, incidents)
  <2>1. PICK reply : reply = [kind |-> "reply", replica |-> m.replica, results |-> m.results,
                              epoch |-> authority.epoch]
    OBVIOUS
  <2>2. \A k \in network' : k \in network \/ k = reply
    BY <1>5, <2>1 DEF Respond
  <2>3. CalmMessage(authority, outgoing[reply.replica], reply, incidents)
    BY <2>1 DEF CalmMessage
  <2> QED BY <1>1, <2>2, <2>3
<1>6. ASSUME NEW r \in Replicas, ReplicaNext(r)
      PROVE  UNCHANGED network \/ Push(r) \/ Pull(r)
  BY <1>6 DEF ReplicaNext, Register, InitializeLocal, GoSilent, Queue
<1>7. ASSUME NEW m, MessageNext(m)
      PROVE  UNCHANGED network \/ AcceptAgain(m) \/ AcceptOne(m) \/ Respond(m)
  BY <1>7 DEF MessageNext, Acknowledge, Install
<1>8. UNCHANGED network =>
        \A k \in network' : Timely(k) => CalmMessage(authority, outgoing[k.replica], k, incidents)
  BY <1>1
<1>9. \A k \in network' : Timely(k) => CalmMessage(authority, outgoing[k.replica], k, incidents)
  BY <1>2, <1>3, <1>4, <1>5, <1>6, <1>7, <1>8
  DEF ReplicationNext, Retire, AuthorityWrites, Prune, Recover
<1>10. ASSUME NEW k \in network', Timely(k)'
       PROVE  CalmMessage(authority', outgoing'[k.replica], k, incidents')
  <2>1. k.replica \in Replicas /\ CalmMessage(authority, outgoing[k.replica], k, incidents)
    <3>1. k.replica \in Replicas
      BY <1>1
    <3>2. Timely(k)
      BY <1>10, <3>1, CurrentWas DEF Timely, AuthorityGoes
    <3> QED BY <1>9, <3>1, <3>2
  <2>2. IsSequence(outgoing[k.replica]) /\ Keeps(outgoing[k.replica], outgoing'[k.replica])
    BY <1>1, <2>1 DEF LocalShape, QueuesKept
  <2>3. PICK a, b, s, t, i, j : /\ a = authority /\ b = authority' /\ i = incidents /\ j = incidents'
                                /\ s = outgoing[k.replica] /\ t = outgoing'[k.replica]
    OBVIOUS
  <2>4. CalmMessage(b, t, k, j)
    BY <1>1, <2>1, <2>2, <2>3, MessageStays
  <2> QED BY <2>3, <2>4
<1> QED BY <1>10

\* A change the replica makes itself.
LEMMA QueueingIsCalm ==
  ASSUME QueueInv, NEW r \in Replicas, NEW x \in Records, NEW command \in Commands,
         Queue(r, x, command),
         CalmReplica(authority, outgoing[r], local[r], view[r], Reached(authority, r), incidents)
  PROVE  CalmReplica(authority, outgoing'[r], local'[r], view'[r], Reached(authority, r), incidents)
<1>1. PICK me : /\ me = local[r]
                /\ me \in [epoch : Nat, observed : {me.observed}, next : Nat,
                           previous : {me.previous}, retired : {me.retired}]
  BY DEF QueueInv, ReplicationInv, LocalShape
<1>2. PICK s : s = outgoing[r] /\ IsSequence(s) /\ IsChain(r, s, me)
  BY <1>1 DEF QueueInv, ReplicationInv, LocalShape, ChainInv
<1>3. PICK n \in Nat : n = Len(s) /\ DOMAIN s = 1..n /\ me.next = n + 1
  BY <1>2, SequenceFacts DEF IsChain
<1>4. PICK v : v = view[r] /\ v \in [Records -> States]
  BY DEF QueueInv, ShowInv, Shows
<1>5. PICK outcome : outcome = Outcome(command, v[x])
  OBVIOUS
<1>6. PICK op : op = [origin |-> r, counter |-> me.next, previous |-> me.previous,
                      epoch |-> me.epoch, observed |-> me.observed, record |-> x,
                      command |-> command, base |-> v[x], outcome |-> outcome]
  OBVIOUS
<1>7. /\ outgoing' = [outgoing EXCEPT ![r] = Append(outgoing[r], Entry(op))]
      /\ local' = [local EXCEPT ![r].next = @ + 1, ![r].previous = op]
      /\ view' = [view EXCEPT ![r][x] = outcome]
  BY <1>1, <1>4, <1>5, <1>6 DEF Queue
<1>8. PICK t : t = Append(s, Entry(op))
  OBVIOUS
<1>9. /\ IsSequence(t) /\ DOMAIN t = 1..(n + 1) /\ t[n + 1].op = op
      /\ \A c \in 1..n : t[c] = s[c]
  BY <1>2, <1>3, <1>8, AppendedSequence DEF Entry
<1>10. Len(t) = n + 1 /\ Keeps(s, t)
  <2>1. Len(t) \in Nat /\ DOMAIN t = 1..Len(t)
    BY <1>9, SequenceFacts
  <2>2. \A k, l \in Nat : 1..k = 1..(l + 1) => k = l + 1
    OBVIOUS
  <2>3. Len(t) = n + 1
    BY <1>9, <2>1, <2>2
  <2> QED BY <1>3, <1>9, <2>3 DEF Keeps, Stands
<1>11. PICK w : w = [v EXCEPT ![x] = outcome]
  OBVIOUS
<1>12. PICK you : you.observed = me.observed /\ you.retired = me.retired /\ local'[r] = you
  <2>1. PICK next : next = me.next + 1
    OBVIOUS
  <2>2. PICK first : first = [me EXCEPT !.next = next]
    OBVIOUS
  <2>3. PICK mine : mine = [first EXCEPT !.previous = op]
    OBVIOUS
  <2>4. local'[r] = mine
    BY <1>1, <1>7, <2>1, <2>2, <2>3 DEF QueueInv, ReplicationInv, LocalShape
  <2>5. first \in [epoch : {me.epoch}, observed : {me.observed}, next : {next},
                   previous : {me.previous}, retired : {me.retired}]
    BY <1>1, <2>2
  <2>6. mine.observed = me.observed /\ mine.retired = me.retired
    BY <2>3, <2>5
  <2> QED BY <2>4, <2>6
<1>13. outgoing'[r] = t /\ view'[r] = w
  BY <1>2, <1>4, <1>7, <1>8, <1>11 DEF QueueInv, ReplicationInv, LocalShape, ShowInv
<1>14. PICK a, k : a = authority /\ k = Reached(authority, r)
  OBVIOUS
<1>15. /\ k \in Nat /\ k <= n
       /\ \A c \in 1..k : Touched(a, s[c].op.record)
       /\ \A c \in 1..n : Based(a, s, s[c].op)
       /\ \A y \in Records : v[y] # Absent => Touched(a, y) \/ Names(s, y, n)
       /\ me.observed \in Nat /\ me.observed <= Len(a.log) /\ me.retired \subseteq a.data.retired
  BY <1>1, <1>2, <1>3, <1>4, <1>14 DEF CalmReplica
<1>16. \A y : Names(s, y, n) => Names(t, y, n) /\ Names(t, y, n + 1)
  <2>1. n + 1 \in Nat /\ n <= n + 1 /\ n <= Len(s)
    BY <1>3
  <2> QED BY <1>2, <1>10, <2>1, NamesKept, NamesMore
<1>17. \A c \in 1..k : Touched(a, t[c].op.record)
  BY <1>9, <1>15
<1>18. ASSUME NEW c \in 1..(n + 1)
       PROVE  Based(a, t, t[c].op)
  <2>1. CASE c \in 1..n
    <3>1. s[c].op.counter = c /\ t[c].op = s[c].op
      BY <1>2, <1>3, <1>9, <2>1 DEF IsChain
    <3>2. Based(a, s, s[c].op)
      BY <1>15, <2>1
    <3>3. PICK l \in Nat : l = c - 1 /\ l <= Len(s)
      BY <1>3, <2>1
    <3>4. Names(s, s[c].op.record, l) => Names(t, s[c].op.record, l)
      BY <1>2, <1>10, <3>3, NamesKept
    <3> QED BY <3>1, <3>2, <3>3, <3>4 DEF Based
  <2>2. CASE c = n + 1
    <3>1. op.base = v[x] /\ op.record = x /\ op.counter = n + 1 /\ t[c].op = op
      BY <1>3, <1>6, <1>9, <2>2
    <3>2. op.counter - 1 = n
      BY <3>1
    <3>3. op.base # Absent => Touched(a, op.record) \/ Names(t, op.record, op.counter - 1)
      BY <1>15, <1>16, <3>1, <3>2
    <3> QED BY <3>1, <3>3 DEF Based
  <2> QED BY <2>1, <2>2
<1>19. ASSUME NEW y \in Records, w[y] # Absent
       PROVE  Touched(a, y) \/ Names(t, y, n + 1)
  <2>1. CASE y = x
    <3>1. t[n + 1].op.record = x /\ n + 1 \in 1..(n + 1)
      BY <1>6, <1>9
    <3> QED BY <2>1, <3>1 DEF Names
  <2>2. CASE y # x
    <3>1. v[y] # Absent
      BY <1>4, <1>11, <1>19, <2>2
    <3> QED BY <1>15, <1>16, <3>1
  <2> QED BY <2>1, <2>2
<1>20. ~(n + 1 <= k) /\ k <= n + 1
  BY <1>15
<1>21. CalmReplica(a, t, you, w, k, incidents)
  BY <1>9, <1>10, <1>12, <1>15, <1>17, <1>18, <1>19, <1>20 DEF CalmReplica
<1> QED BY <1>12, <1>13, <1>14, <1>21

\* A snapshot installed, and what was pending rebased over it.
LEMMA InstallingIsCalm ==
  ASSUME QueueInv, NEW m \in network, Install(m), NEW r \in Replicas, r = m.replica,
         CalmMessage(authority, outgoing[r], m, incidents),
         CalmReplica(authority, outgoing[r], local[r], view[r], Reached(authority, r), incidents)
  PROVE  CalmReplica(authority, outgoing'[r], local'[r], view'[r], Reached(authority, r), incidents)
<1>1. LocalShape /\ ChainInv /\ NetworkInv /\ RunInv /\ ShowInv
  BY DEF QueueInv, ReplicationInv
<1>2. m.accepted.counter \in Nat /\ Shows(m.records) /\ Shows(view[r])
  BY <1>1 DEF Install, RunInv, ShowInv
<1>3. PICK s : s = outgoing[r] /\ IsSequence(s) /\ IsChain(r, s, local[r])
  BY <1>1 DEF LocalShape, ChainInv
<1>4. PICK replay : replay = Replay(r, m)
  OBVIOUS
<1>5. PICK done \in 0..Len(s) :
         /\ \A c \in DOMAIN s : s[c].status = "pending" <=> done < c
         /\ Len(Pending(r)) = Len(s) - done
         /\ \A i \in 1..(Len(s) - done) : Pending(r)[i].op = RestOf(s, done)[i]
         /\ Replayed(replay, Len(s) - done, r, m, RestOf(s, done), done, OpAt(s, done), Cleared(r, m))
  BY <1>2, <1>3, <1>4, ReplayHolds
<1>6. PICK n \in Nat : n = Len(s) /\ DOMAIN s = 1..n /\ Len(s) - Len(Pending(r)) = done
  BY <1>3, <1>5, SequenceFacts
<1>7. PICK size \in Nat : size = n - done /\ done \in Nat
  BY <1>5, <1>6
<1>8. PICK t : t = [c \in DOMAIN s |-> IF c <= done THEN s[c] ELSE Entry(replay.ops[c - done])]
  OBVIOUS
<1>9. /\ outgoing' = [outgoing EXCEPT ![r] = t] /\ replay.fits
      /\ local' = [local EXCEPT ![r].observed = m.covered, ![r].retired = m.retired,
                                ![r].previous = replay.previous]
      /\ view' = [view EXCEPT ![r] = replay.view]
  <2>1. outgoing' = [outgoing EXCEPT ![r] = [c \in DOMAIN @ |->
           IF c <= Len(outgoing[r]) - Len(Pending(r)) THEN @[c]
           ELSE Entry(replay.ops[c - (Len(outgoing[r]) - Len(Pending(r)))])]]
    BY <1>4 DEF Install
  <2>2. outgoing' = [outgoing EXCEPT ![r] = t]
    BY <1>3, <1>6, <1>8, <2>1
  <2> QED BY <1>4, <2>2 DEF Install
<1>10. outgoing'[r] = t /\ view'[r] = replay.view
  BY <1>1, <1>9 DEF LocalShape, ShowInv
<1>11. PICK me : /\ me = local[r]
                 /\ me \in [epoch : Nat, observed : {me.observed}, next : Nat,
                            previous : {me.previous}, retired : {me.retired}]
  BY <1>1 DEF LocalShape
<1>12. PICK you : local'[r] = you /\ you.observed = m.covered /\ you.retired = m.retired
  <2>1. PICK first : first = [me EXCEPT !.observed = m.covered]
    OBVIOUS
  <2>2. PICK second : second = [first EXCEPT !.retired = m.retired]
    OBVIOUS
  <2>3. PICK mine : mine = [second EXCEPT !.previous = replay.previous]
    OBVIOUS
  <2>4. local'[r] = mine
    BY <1>1, <1>9, <1>11, <2>1, <2>2, <2>3 DEF LocalShape
  <2>5. first \in [epoch : {me.epoch}, observed : {m.covered}, next : {me.next},
                   previous : {me.previous}, retired : {me.retired}]
    BY <1>11, <2>1
  <2>6. second \in [epoch : {me.epoch}, observed : {m.covered}, next : {me.next},
                    previous : {me.previous}, retired : {m.retired}]
    BY <2>2, <2>5
  <2>7. mine.observed = m.covered /\ mine.retired = m.retired
    BY <2>3, <2>6
  <2> QED BY <2>4, <2>7
<1>13. PICK a, k, v, w : a = authority /\ k = Reached(authority, r) /\ v = view[r] /\ w = replay.view
  OBVIOUS
<1>14. /\ k \in Nat /\ k <= n
       /\ \A c \in 1..k : Touched(a, s[c].op.record)
       /\ \A c \in 1..n : Based(a, s, s[c].op)
       /\ \A y \in Records : v[y] # Absent => Touched(a, y) \/ Names(s, y, n)
  BY <1>3, <1>6, <1>13 DEF CalmReplica
<1>15. /\ m.kind = "snapshot" /\ m.covered \in Nat /\ m.covered <= Len(a.log)
       /\ m.retired \subseteq a.data.retired
       /\ \A x \in Records : m.records[x] # Absent => Touched(a, x)
       /\ m.covered = Len(a.log) =>
            /\ m.accepted = a.replica[m.replica].accepted
            /\ incidents = 0 /\ m.retired = a.data.retired => m.records = a.data.records
  BY <1>13 DEF CalmMessage, Install
<1>16. PICK were, start : were = RestOf(s, done) /\ start = Cleared(r, m)
  OBVIOUS
<1>17. /\ DOMAIN were = 1..size
       /\ \A i \in 1..size : were[i] = s[done + i].op /\ were[i] = Pending(r)[i].op
  BY <1>5, <1>6, <1>7, <1>16 DEF RestOf
<1>18. \A i \in 1..size : /\ done + i \in 1..n /\ were[i].counter = done + i /\ were[i].record \in Records
                          /\ Based(a, s, were[i])
  <2>1. \A i \in 1..size : done + i \in 1..n
    BY <1>7
  <2>2. \A c \in 1..n : s[c].op.counter = c /\ s[c].op.record \in Records
    BY <1>3, <1>6 DEF IsChain, IsOperation, HasFields
  <2> QED BY <1>14, <1>17, <2>1, <2>2
<1>19. Shows(w) /\ ReplayShows(replay, size, m, were, start)
       /\ \A j \in 1..size : replay.ops[j].record = were[j].record /\ replay.ops[j].counter = done + j
  BY <1>5, <1>6, <1>7, <1>9, <1>13, <1>16 DEF Replayed
<1>20. \A x \in Records : start[x] = IF x \in ResetIds(r, m) THEN m.records[x] ELSE v[x]
  BY <1>13, <1>16 DEF Cleared, ReplayStart
<1>21. \A i \in 1..size : were[i].record \in ResetIds(r, m)
  <2>1. \A i \in 1..size : i \in DOMAIN Pending(r)
    <3>1. IsSequence(Pending(r))
      BY <1>3, PendingIsTheRest
    <3> QED BY <1>5, <1>6, <1>7, <3>1, SequenceFacts
  <2> QED BY <1>17, <2>1 DEF ResetIds
<1>22. /\ IsSequence(t) /\ DOMAIN t = 1..n /\ Len(t) = n
       /\ \A c \in 1..n : t[c].op.record = s[c].op.record
       /\ \A c \in 1..n : t[c].op = IF c <= done THEN s[c].op ELSE replay.ops[c - done]
  <2>1. IsSequence(t) /\ DOMAIN t = 1..n
    BY <1>6, <1>8, ASequence
  <2>2. Len(t) \in Nat /\ DOMAIN t = 1..Len(t)
    BY <2>1, SequenceFacts
  <2>3. \A i, j \in Nat : 1..i = 1..j => i = j
    OBVIOUS
  <2>4. Len(t) = n
    BY <2>1, <2>2, <2>3
  <2>5. ASSUME NEW c \in 1..n
        PROVE  /\ t[c].op.record = s[c].op.record
               /\ t[c].op = IF c <= done THEN s[c].op ELSE replay.ops[c - done]
    <3>1. CASE c <= done
      BY <1>6, <1>8, <3>1
    <3>2. CASE ~(c <= done)
      <4>1. t[c] = Entry(replay.ops[c - done])
        BY <1>6, <1>8, <3>2
      <4>2. t[c].op = replay.ops[c - done]
        BY <4>1 DEF Entry
      <4>3. PICK i \in 1..size : i = c - done /\ done + i = c
        BY <1>7, <3>2
      <4> QED BY <1>17, <1>19, <3>2, <4>2, <4>3
    <3> QED BY <3>1, <3>2
  <2> QED BY <2>1, <2>4, <2>5
<1>23. \A y : \A l \in 0..n : Names(s, y, l) => Names(t, y, l)
  <2>1. \A l \in 0..n : \A d \in 1..l : d \in 1..n
    OBVIOUS
  <2> QED BY <1>22, <2>1 DEF Names
<1>24. \A c \in 1..k : Touched(a, t[c].op.record)
  BY <1>14, <1>22
<1>25. ASSUME NEW c \in 1..n
       PROVE  Based(a, t, t[c].op)
  <2>1. c - 1 \in 0..n
    OBVIOUS
  <2>2. CASE c <= done
    <3>1. t[c].op = s[c].op /\ s[c].op.counter = c
      BY <1>3, <1>6, <1>22, <2>2 DEF IsChain
    <3> QED BY <1>14, <1>23, <2>1, <3>1 DEF Based
  <2>3. CASE ~(c <= done)
    <3>1. PICK j \in 1..size : j = c - done /\ done + j = c
      BY <1>7, <2>3
    <3>2. PICK op : op = replay.ops[j] /\ op = t[c].op
      BY <1>22, <2>3, <3>1
    <3>3. op.record = were[j].record /\ op.counter = c /\ op.record \in Records
      BY <1>18, <1>19, <3>1, <3>2
    <3>4. \/ op.base = were[j].base
          \/ op.base = start[were[j].record]
          \/ \E i \in 1..(j - 1) : were[i].record = were[j].record
      BY <1>19, <3>2 DEF ReplayShows
    <3>5. CASE op.base = were[j].base
      <4>1. Based(a, s, were[j]) /\ were[j].counter = c
        BY <1>18, <3>1
      <4> QED BY <1>23, <2>1, <3>2, <3>3, <3>5, <4>1 DEF Based
    <3>6. CASE op.base = start[were[j].record]
      <4>1. op.base = m.records[op.record]
        BY <1>20, <1>21, <3>3, <3>6
      <4> QED BY <1>15, <3>2, <3>3, <4>1 DEF Based
    <3>7. ASSUME NEW i \in 1..(j - 1), were[i].record = were[j].record
          PROVE  Based(a, t, op)
      <4>1. i \in 1..size /\ done + i \in 1..(c - 1) /\ done + i \in 1..n
        BY <1>7, <3>1
      <4>2. s[done + i].op.record = op.record
        BY <1>17, <3>3, <3>7, <4>1
      <4>3. t[done + i].op.record = op.record
        BY <1>22, <4>1, <4>2
      <4>4. Names(t, op.record, op.counter - 1)
        BY <3>3, <4>1, <4>3 DEF Names
      <4> QED BY <4>4 DEF Based
    <3> QED BY <3>2, <3>4, <3>5, <3>6, <3>7
  <2> QED BY <2>2, <2>3
<1>26. ASSUME NEW x \in Records, w[x] # Absent
       PROVE  Touched(a, x) \/ Names(t, x, n)
  <2>1. w[x] = start[x] \/ \E j \in 1..size : were[j].record = x
    BY <1>13, <1>19 DEF ReplayShows
  <2>2. CASE w[x] = start[x]
    <3>1. CASE x \in ResetIds(r, m)
      BY <1>15, <1>20, <1>26, <2>2, <3>1
    <3>2. CASE x \notin ResetIds(r, m)
      <4>1. n \in 0..n
        OBVIOUS
      <4> QED BY <1>14, <1>20, <1>23, <1>26, <2>2, <3>2, <4>1
    <3> QED BY <3>1, <3>2
  <2>3. ASSUME NEW j \in 1..size, were[j].record = x
        PROVE  Names(t, x, n)
    <3>1. done + j \in 1..n /\ t[done + j].op.record = x
      BY <1>17, <1>18, <1>22, <2>3
    <3> QED BY <3>1 DEF Names
  <2> QED BY <2>1, <2>2, <2>3
<1>27. ASSUME incidents = 0, you.observed = Len(a.log), you.retired = a.data.retired, n <= k
       PROVE  w = a.data.records
  <2>1. m.accepted.counter = k /\ m.records = a.data.records /\ m.retired = a.data.retired
    BY <1>12, <1>13, <1>15, <1>27 DEF Reached
  <2>2. \A j \in 1..size : ~Rebases(were[j], m)
    <3>1. \A j \in 1..size : ~(done + j > k)
      BY <1>7, <1>27, <1>14
    <3> QED BY <1>18, <2>1, <3>1 DEF Rebases
  <2>3. w = start
    BY <1>13, <1>19, <2>2 DEF ReplayShows
  <2>4. ASSUME NEW x \in Records
        PROVE  w[x] = m.records[x]
    <3>1. CASE x \in ResetIds(r, m)
      BY <1>20, <2>3, <3>1
    <3>2. CASE x \notin ResetIds(r, m)
      <4>1. m.records[x] = Absent /\ x \notin m.retired
        BY <3>2 DEF ResetIds
      <4>2. ~Touched(a, x)
        BY <2>1, <4>1 DEF Touched
      <4>3. ~Names(s, x, n)
        <5>1. \A d \in 1..n : d \in 1..k
          BY <1>14, <1>27
        <5> QED BY <1>14, <4>2, <5>1 DEF Names
      <4> QED BY <1>14, <1>20, <2>3, <3>2, <4>1, <4>2, <4>3
    <3> QED BY <3>1, <3>2
  <2> QED BY <1>2, <1>19, <2>1, <2>4 DEF Shows
<1>28. CalmReplica(a, t, you, w, k, incidents)
  BY <1>12, <1>14, <1>15, <1>22, <1>24, <1>25, <1>26, <1>27 DEF CalmReplica
<1> QED BY <1>10, <1>12, <1>13, <1>28

\* A decision leaves the operations of a queue as they are.
LEMMA AcknowledgingIsCalm ==
  ASSUME LocalShape, NEW m, Acknowledge(m), NEW r \in Replicas
  PROVE  /\ DOMAIN outgoing'[r] = DOMAIN outgoing[r]
         /\ \A c \in DOMAIN outgoing[r] : outgoing'[r][c].op = outgoing[r][c].op
<1> DEFINE decided(e) == {m.results[i] : i \in {j \in DOMAIN m.results : m.results[j].op = e.op}}
           after(e) == IF decided(e) = {} THEN e
                       ELSE LET result == CHOOSE d \in decided(e) : TRUE
                            IN  [op |-> e.op, status |-> result.disposition,
                                 sequence |-> result.sequence]
<1>1. outgoing' = [outgoing EXCEPT ![m.replica] = [c \in DOMAIN @ |-> after(@[c])]]
  BY DEF Acknowledge
<1>2. ASSUME NEW e
      PROVE  after(e).op = e.op
  <2>1. CASE decided(e) = {}
    BY <2>1
  <2>2. CASE decided(e) # {}
    <3>1. PICK result : result = CHOOSE d \in decided(e) : TRUE
      OBVIOUS
    <3>2. after(e) = [op |-> e.op, status |-> result.disposition, sequence |-> result.sequence]
      BY <2>2, <3>1
    <3> HIDE DEF after, decided
    <3> QED BY <3>2
  <2> QED BY <2>1, <2>2
<1> HIDE DEF after, decided
<1>3. outgoing'[r] = IF r = m.replica THEN [c \in DOMAIN outgoing[r] |-> after(outgoing[r][c])]
                     ELSE outgoing[r]
  BY <1>1 DEF LocalShape
<1> QED BY <1>2, <1>3

\* A step of ReplicationNext leaves a replica alone, or is one of the three above.
LEMMA ReplicaMoves ==
  ASSUME LocalShape, view = [u \in Replicas |-> view[u]], ReplicationNext, NEW r \in Replicas
  PROVE  \/ /\ view'[r] = view[r] /\ DOMAIN outgoing'[r] = DOMAIN outgoing[r]
            /\ \A c \in DOMAIN outgoing[r] : outgoing'[r][c].op = outgoing[r][c].op
            /\ local'[r].observed = local[r].observed /\ local'[r].retired = local[r].retired
         \/ UNCHANGED authority /\ \E x \in Records, command \in Commands : Queue(r, x, command)
         \/ UNCHANGED authority /\ \E m \in network : m.replica = r /\ Install(m)
<1> DEFINE Rests == /\ view'[r] = view[r] /\ DOMAIN outgoing'[r] = DOMAIN outgoing[r]
                    /\ \A c \in DOMAIN outgoing[r] : outgoing'[r][c].op = outgoing[r][c].op
                    /\ local'[r].observed = local[r].observed /\ local'[r].retired = local[r].retired
<1>1. UNCHANGED <<local, outgoing, view>> => Rests
  OBVIOUS
<1>2. ASSUME NEW u \in Replicas, InitializeLocal(u)
      PROVE  Rests
  <2>1. PICK me : /\ me = local[u]
                  /\ me \in [epoch : Nat, observed : {me.observed}, next : Nat,
                             previous : {me.previous}, retired : {me.retired}]
    BY DEF LocalShape
  <2>2. PICK mine : mine = [me EXCEPT !.epoch = authority.epoch]
    OBVIOUS
  <2>3. mine.observed = me.observed /\ mine.retired = me.retired
    BY <2>1, <2>2
  <2>4. local'[r] = IF r = u THEN mine ELSE local[r]
    BY <1>2, <2>1, <2>2 DEF InitializeLocal, LocalShape
  <2>5. UNCHANGED <<outgoing, view>>
    BY <1>2 DEF InitializeLocal
  <2> QED BY <2>1, <2>3, <2>4, <2>5
<1>3. ASSUME NEW u \in Replicas, NEW x \in Records, NEW command \in Commands, Queue(u, x, command),
             u # r
      PROVE  Rests
  <2>1. PICK queue, first, second, v :
          /\ outgoing' = [outgoing EXCEPT ![u] = queue]
          /\ local' = [local EXCEPT ![u] = [@ EXCEPT !.next = first, !.previous = second]]
          /\ view' = [view EXCEPT ![u] = v]
    BY <1>3 DEF Queue
  <2>2. outgoing'[r] = outgoing[r] /\ local'[r] = local[r] /\ view'[r] = view[r]
    BY <1>3, <2>1 DEF LocalShape
  <2> QED BY <2>2
<1>4. ASSUME NEW m \in network, Acknowledge(m)
      PROVE  Rests
  <2>1. /\ DOMAIN outgoing'[r] = DOMAIN outgoing[r]
        /\ \A c \in DOMAIN outgoing[r] : outgoing'[r][c].op = outgoing[r][c].op
    BY <1>4, AcknowledgingIsCalm
  <2>2. UNCHANGED <<local, view>>
    BY <1>4 DEF Acknowledge
  <2> QED BY <2>1, <2>2
<1>5. ASSUME NEW m \in network, Install(m), m.replica # r
      PROVE  Rests
  <2>1. PICK queue, mine, v :
          /\ outgoing' = [outgoing EXCEPT ![m.replica] = queue]
          /\ local' = [local EXCEPT ![m.replica] = mine]
          /\ view' = [view EXCEPT ![m.replica] = v]
    BY <1>5 DEF Install
  <2>2. outgoing'[r] = outgoing[r] /\ local'[r] = local[r] /\ view'[r] = view[r]
    BY <1>5, <2>1 DEF LocalShape
  <2> QED BY <2>2
<1> HIDE DEF Rests
<1>6. ASSUME NEW u \in Replicas, ReplicaNext(u)
      PROVE  \/ UNCHANGED <<local, outgoing, view>> \/ InitializeLocal(u)
             \/ \E x \in Records, command \in Commands : Queue(u, x, command)
  BY <1>6 DEF ReplicaNext, Register, Push, Pull, GoSilent, clientVars
<1>7. ASSUME NEW m \in network, MessageNext(m)
      PROVE  UNCHANGED <<local, outgoing, view>> \/ Acknowledge(m) \/ Install(m)
  BY <1>7 DEF MessageNext, AcceptAgain, AcceptOne, Respond, clientVars
<1>8. ASSUME NEW u \in Replicas, NEW x \in Records, NEW command \in Commands, Queue(u, x, command)
      PROVE  Rests \/ (UNCHANGED authority /\ Queue(r, x, command))
  <2>1. UNCHANGED authority
    BY <1>8 DEF Queue
  <2> QED BY <1>3, <1>8, <2>1
<1>9. ASSUME NEW m \in network, Install(m)
      PROVE  Rests \/ (UNCHANGED authority /\ m.replica = r /\ Install(m))
  <2>1. UNCHANGED authority
    BY <1>9 DEF Install
  <2> QED BY <1>5, <1>9, <2>1
<1>10. \/ Rests
       \/ UNCHANGED authority /\ \E x \in Records, command \in Commands : Queue(r, x, command)
       \/ UNCHANGED authority /\ \E m \in network : m.replica = r /\ Install(m)
  BY <1>1, <1>2, <1>4, <1>6, <1>7, <1>8, <1>9
  DEF ReplicationNext, Retire, AuthorityWrites, Prune, Recover, clientVars
<1> QED BY <1>10 DEF Rests

LEMMA BlankGoes ==
  ASSUME QueueInv, BlankInv, ReplicationNext
  PROVE  BlankInv'
<1>1. /\ AuthorityInv /\ LocalShape /\ LogStep /\ EpochStep
      /\ view = [u \in Replicas |-> view[u]]
  BY ReplicationStep DEF QueueInv, ReplicationInv, AuthorityInv, ShowInv
<1>2. /\ authority.epoch \in Nat /\ authority'.epoch \in {authority.epoch, authority.epoch + 1}
      /\ 1 <= authority.epoch
  BY <1>1, EpochsPass
<1>3. ASSUME NEW r \in Replicas, local'[r].epoch = 0
      PROVE  /\ \A x \in Records : view'[r][x] = Absent
             /\ local'[r].observed = 0 /\ local'[r].retired = {}
  <2>1. local[r].epoch = 0
    BY <1>1, <1>2, <1>3 DEF EpochStep
  <2>2. ASSUME NEW x \in Records, NEW command \in Commands, Queue(r, x, command)
        PROVE  FALSE
    BY <2>1, <2>2 DEF Queue
  <2>3. ASSUME NEW m \in network, m.replica = r, Install(m)
        PROVE  FALSE
    <3>1. m.kind = "snapshot" /\ m.epoch = local[r].epoch
      BY <2>3 DEF Install, Installable
    <3>2. m.epoch \in 1..authority.epoch
      BY <3>1 DEF BlankInv
    <3> QED BY <2>1, <3>1, <3>2
  <2>4. view'[r] = view[r] /\ local'[r].observed = local[r].observed /\ local'[r].retired = local[r].retired
    BY <1>1, <2>2, <2>3, ReplicaMoves
  <2> QED BY <2>1, <2>4 DEF BlankInv
<1>4. ASSUME NEW k \in network', k.kind = "snapshot"
      PROVE  k \in network \/ k.epoch = authority.epoch
  <2>1. ASSUME NEW r \in Replicas, ReplicaNext(r)
        PROVE  k \in network \/ k.epoch = authority.epoch
    <3>1. CASE UNCHANGED network
      BY <3>1
    <3>2. CASE Push(r)
      <4>1. PICK m : /\ m.kind = "push" /\ network' \in Sent(m, MaxPushes)
        BY <3>2 DEF Push
      <4> QED BY <1>4, <4>1 DEF Sent
    <3>3. CASE Pull(r)
      BY <3>3 DEF Pull, Snapshot
    <3> QED BY <2>1, <3>1, <3>2, <3>3 DEF ReplicaNext, Register, InitializeLocal, GoSilent, Queue
  <2>2. ASSUME NEW m \in network, MessageNext(m)
        PROVE  k \in network \/ k.epoch = authority.epoch
    <3>1. CASE UNCHANGED network
      BY <3>1
    <3>2. CASE Respond(m)
      BY <1>4, <3>2 DEF Respond
    <3>3. CASE AcceptAgain(m) \/ AcceptOne(m)
      <4>1. PICK result : network' = Progress(m, result) /\ m.kind = "push"
        BY <3>3 DEF AcceptAgain, AcceptOne
      <4>2. m \in [kind : {"push"}, replica : {m.replica}, results : {m.results}, ops : {m.ops}]
        BY <4>1 DEF QueueInv, ReplicationInv, NetworkInv
      <4>3. PICK results, ops, first, next :
              /\ results = Append(m.results, result) /\ ops = Tail(m.ops)
              /\ first = [m EXCEPT !.ops = ops] /\ next = [first EXCEPT !.results = results]
        OBVIOUS
      <4>4. next.kind = "push"
        BY <4>2, <4>3
      <4>5. k \in network \/ k = next
        BY <4>1, <4>2, <4>3 DEF Progress
      <4> QED BY <1>4, <4>4, <4>5
    <3> QED BY <2>2, <3>1, <3>2, <3>3 DEF MessageNext, Acknowledge, Install
  <2> QED BY <2>1, <2>2 DEF ReplicationNext, Retire, AuthorityWrites, Prune, Recover
<1>5. ASSUME NEW k \in network', k.kind = "snapshot"
      PROVE  k.epoch \in 1..authority'.epoch
  <2>1. k.epoch \in 1..authority.epoch
    BY <1>2, <1>4, <1>5 DEF BlankInv
  <2> QED BY <1>2, <2>1
<1> QED BY <1>3, <1>5 DEF BlankInv

\* After a recovery only those are current that have joined no authority yet.
LEMMA RecoveringIsCalm ==
  ASSUME QueueInv, BlankInv, CalmInv, Recover
  PROVE  CalmInv'
<1>1. AuthorityInv /\ AuthorityShape /\ FrontierInv /\ LocalShape /\ NetworkInv /\ EpochInv
  BY DEF QueueInv, ReplicationInv, AuthorityInv
<1>2. PICK n \in 0..CurrentSequence : Recovers(n)
  BY <1>1, RecoveredAuthority
<1>3. /\ UNCHANGED <<local, outgoing, view, network>> /\ incidents' \in Nat /\ incidents' # 0
      /\ authority.epoch \in Nat /\ authority'.epoch = authority.epoch + 1 /\ 1 <= authority.epoch
  BY <1>1, <1>2 DEF Recover, Incident, clientVars, Recovers, CalmInv, AuthorityInv, AuthorityShape
<1>4. \A r \in Replicas : Current(r)' => local[r].epoch = 0
  <2>1. \A r \in Replicas : local[r].epoch \in Nat /\ local[r].epoch <= authority.epoch
    BY <1>1 DEF LocalShape, EpochInv
  <2> QED BY <1>3, <2>1 DEF Current
<1>5. Len(authority'.log) \in Nat
  BY <1>1, RecoveredAuthority, SequenceFacts DEF AuthorityInv, AuthorityShape
<1>6. ASSUME NEW r \in Replicas, Current(r)'
      PROVE  CalmReplica(authority', outgoing[r], local[r], view[r], Reached(authority', r), incidents')
  <2>1. /\ DOMAIN outgoing[r] = {} /\ \A x \in Records : view[r][x] = Absent
        /\ local[r].observed = 0 /\ local[r].retired = {} /\ Current(r)
    BY <1>1, <1>4, <1>6 DEF EpochInv, BlankInv, Current
  <2>2. Len(outgoing[r]) = 0
    <3>1. Len(outgoing[r]) \in Nat /\ DOMAIN outgoing[r] = 1..Len(outgoing[r])
      BY <1>1, SequenceFacts DEF LocalShape
    <3>2. \A l \in Nat : 1..l = {} => l = 0
      OBVIOUS
    <3> QED BY <2>1, <3>1, <3>2
  <2>3. Reached(authority, r) = 0
    <3>1. Reached(authority, r) \in Nat /\ Reached(authority, r) <= 0
      BY <2>1, <2>2 DEF CalmInv, CalmReplica
    <3> QED BY <3>1
  <2>4. RowsOf(r) = {}
    <3>1. IsFiniteSet(RowsOf(r)) /\ Cardinality(RowsOf(r)) = 0
      BY <1>1, <2>3, LogRows, RowsCounted DEF Reached
    <3> QED BY <3>1, FS_EmptySet
  <2>5. FrontierAt(r, n) = Genesis
    <3>1. /\ Len(authority.log) \in Nat /\ n \in 0..Len(authority.log)
          /\ RowsOf(r) = {i \in 1..Len(authority.log) : authority.log[i].op.origin = r}
      BY <1>1, LogRows DEF CurrentSequence
    <3>2. {i \in 1..n : authority.log[i].op.origin = r} = {}
      BY <2>4, <3>1
    <3> QED BY <3>2 DEF FrontierAt
  <2>6. Reached(authority', r) = 0
    BY <1>2, <2>5 DEF Recovers, Reached, Genesis
  <2> QED BY <1>3, <1>5, <2>1, <2>2, <2>6 DEF CalmReplica
<1>7. ASSUME NEW m \in network, Timely(m)'
      PROVE  CalmMessage(authority', outgoing[m.replica], m, incidents')
  <2>1. m.kind # "snapshot"
    <3>1. m.kind = "snapshot" => m.epoch \in 1..authority.epoch
      BY DEF BlankInv
    <3> QED BY <1>3, <1>7, <3>1 DEF Timely
  <2>2. m.replica \in Replicas /\ (m.kind = "push" => local[m.replica].epoch # 0)
    BY <1>1 DEF NetworkInv, ResultsHold
  <2>3. m.kind # "push"
    BY <1>4, <1>7, <2>1, <2>2 DEF Timely
  <2> QED BY <2>1, <2>3 DEF CalmMessage
<1> QED BY <1>3, <1>6, <1>7 DEF CalmInv

LEMMA CalmGoes ==
  ASSUME QueueInv, BlankInv, CalmInv, [ReplicationNext]_replicationVars
  PROVE  CalmInv' /\ BlankInv'
<1>1. CASE UNCHANGED replicationVars
  <2>1. UNCHANGED <<authority, local, outgoing, view, incidents, network>>
    BY <1>1 DEF replicationVars
  <2> QED BY <2>1 DEF CalmInv, BlankInv, Current, Timely
<1>2. CASE ReplicationNext /\ ~Recover
  <2>1. /\ incidents' \in Nat /\ (incidents' = 0 => incidents = 0) /\ AuthorityGoes
        /\ \A r \in Replicas : Current(r) =>
             CalmReplica(authority, outgoing[r], local[r], view[r], Reached(authority, r), incidents)
        /\ \A m \in network : Timely(m) => CalmMessage(authority, outgoing[m.replica], m, incidents)
    BY <1>2, CalmSteps, CalmAuthority DEF CalmInv
  <2>2. /\ QueueInv' /\ LocalShape /\ LocalShape' /\ ChainInv /\ NetworkInv /\ RunInv /\ ShowInv
        /\ EpochStep
    BY <1>2, QueueInvGoes, ReplicationStep DEF QueueInv, ReplicationInv
  <2>3. QueuesKept
    BY <1>2, <2>2, ChainSteps
  <2>4. \A m \in network' : Timely(m)' => CalmMessage(authority', outgoing'[m.replica], m, incidents')
    BY <1>2, <2>1, <2>2, <2>3, CalmMessages
  <2>5. ASSUME NEW r \in Replicas, Current(r)'
        PROVE  CalmReplica(authority', outgoing'[r], local'[r], view'[r], Reached(authority', r), incidents')
    <3>1. /\ Current(r)
          /\ CalmReplica(authority, outgoing[r], local[r], view[r], Reached(authority, r), incidents)
      BY <2>1, <2>2, <2>5, CurrentWas
    <3>2. CASE UNCHANGED authority /\ \E x \in Records, command \in Commands : Queue(r, x, command)
      <4>1. UNCHANGED incidents
        BY <3>2 DEF Queue
      <4> QED BY <3>1, <3>2, <4>1, QueueingIsCalm
    <3>3. CASE UNCHANGED authority /\ \E m \in network : m.replica = r /\ Install(m)
      <4>1. PICK m \in network : m.replica = r /\ Install(m)
        BY <3>3
      <4>2. m.kind = "snapshot" /\ m.epoch = local[r].epoch /\ UNCHANGED incidents
        BY <4>1 DEF Install, Installable
      <4>3. Timely(m)
        <5>1. authority.epoch \in Nat /\ m.epoch \in 1..authority.epoch
          BY <4>2 DEF BlankInv, QueueInv, ReplicationInv, AuthorityShape
        <5> QED BY <3>1, <4>2, <5>1 DEF Current, Timely
      <4>4. CalmMessage(authority, outgoing[r], m, incidents)
        BY <2>1, <4>1, <4>3
      <4> QED BY <3>1, <3>3, <4>1, <4>2, <4>4, InstallingIsCalm
    <3>4. CASE /\ view'[r] = view[r] /\ DOMAIN outgoing'[r] = DOMAIN outgoing[r]
               /\ \A c \in DOMAIN outgoing[r] : outgoing'[r][c].op = outgoing[r][c].op
               /\ local'[r].observed = local[r].observed /\ local'[r].retired = local[r].retired
      <4>1. PICK a, b, s, t, me, you, v, n, k, i, j :
              /\ a = authority /\ b = authority' /\ s = outgoing[r] /\ t = outgoing'[r]
              /\ me = local[r] /\ you = local'[r] /\ v = view[r] /\ i = incidents /\ j = incidents'
              /\ n = Reached(authority, r) /\ k = Reached(authority', r)
        OBVIOUS
      <4>2. /\ Goes(a, b, j) /\ Reaches(b, s, n, k) /\ (Len(b.log) = Len(a.log) => k = n)
            /\ (j = 0 => i = 0)
        BY <2>1, <3>1, <4>1 DEF AuthorityGoes, Goes, Reached
      <4>3. IsSequence(s) /\ IsSequence(t) /\ Keeps(s, t) /\ IsChain(r, s, me)
        BY <2>2, <2>3, <4>1 DEF LocalShape, QueuesKept, ChainInv
      <4>4. v \in [Records -> States] /\ CalmReplica(a, s, me, v, n, i)
        BY <2>2, <3>1, <4>1 DEF ShowInv, Shows
      <4>5. /\ DOMAIN t = DOMAIN s /\ \A c \in DOMAIN s : t[c].op = s[c].op
            /\ you.observed = me.observed /\ you.retired = me.retired
        BY <3>4, <4>1
      <4>6. CalmReplica(b, t, you, v, k, j)
        BY <4>2, <4>3, <4>4, <4>5, CalmStays
      <4> QED BY <3>4, <4>1, <4>6
    <3>5. view = [u \in Replicas |-> view[u]]
      BY <2>2 DEF ShowInv
    <3> QED BY <1>2, <2>2, <3>2, <3>3, <3>4, <3>5, ReplicaMoves
  <2> QED BY <1>2, <2>1, <2>4, <2>5, BlankGoes DEF CalmInv
<1>3. CASE ReplicationNext /\ Recover
  BY <1>3, BlankGoes, RecoveringIsCalm
<1> QED BY <1>1, <1>2, <1>3

LEMMA CalmStarts == ReplicationInit => CalmInv /\ BlankInv
<1> SUFFICES ASSUME ReplicationInit
             PROVE  CalmInv /\ BlankInv
  OBVIOUS
<1>1. PICK empty : empty = << >> /\ empty \in Seq({}) /\ Len(empty) = 0 /\ DOMAIN empty = {}
  BY EmptySeq, EmptySequence
<1>2. /\ incidents = 0 /\ network = {}
      /\ authority.log = empty /\ authority.data.retired = {}
      /\ authority.data.records = [x \in Records |-> Absent]
  BY <1>1 DEF ReplicationInit, Fresh, Nothing
<1>3. ASSUME NEW r \in Replicas
      PROVE  /\ CalmReplica(authority, outgoing[r], local[r], view[r], Reached(authority, r), incidents)
             /\ \A x \in Records : view[r][x] = Absent
             /\ local[r].observed = 0 /\ local[r].retired = {}
  <2>1. /\ outgoing[r] = empty /\ local[r].observed = 0 /\ local[r].retired = {}
        /\ view[r] = authority.data.records /\ Reached(authority, r) = 0
    BY <1>1 DEF ReplicationInit, Fresh, Nothing, Stranger, Genesis, Reached
  <2>2. \A x \in Records : view[r][x] = Absent
    BY <1>2, <2>1
  <2> QED BY <1>1, <1>2, <2>1, <2>2 DEF CalmReplica
<1> QED BY <1>2, <1>3 DEF CalmInv, BlankInv

LEMMA CalmIsInv == ReplicationSpec => [](QueueInv /\ CalmInv /\ BlankInv)
<1>1. QueueInv /\ CalmInv /\ BlankInv /\ [ReplicationNext]_replicationVars => CalmInv' /\ BlankInv'
  BY CalmGoes
<1> QED BY <1>1, CalmStarts, QueueIsInv, PTL DEF ReplicationSpec

\* The authority has accepted what a replica of its epoch has decided.
LEMMA DecidedIsReached ==
  ASSUME QueueInv, NEW r \in Replicas, local[r].epoch = authority.epoch,
         NEW c \in DOMAIN outgoing[r], outgoing[r][c].status # "pending"
  PROVE  c <= Reached(authority, r)
<1>1. PICK s : s = outgoing[r] /\ IsSequence(s) /\ IsChain(r, s, local[r])
  BY DEF QueueInv, ReplicationInv, LocalShape, ChainInv
<1>2. c \in Nat /\ s[c].status # "pending" /\ s[c].op.counter = c /\ s[c].op.origin = r
  <2>1. c \in 1..Len(s) /\ Len(s) \in Nat
    BY <1>1, SequenceFacts
  <2> QED BY <1>1, <2>1 DEF IsChain, IsOperation, HasFields
<1>3. AuthorityShape /\ FrontierInv
  BY DEF QueueInv, ReplicationInv
<1>4. /\ IsFiniteSet(RowsOf(r)) /\ Cardinality(RowsOf(r)) \in Nat
      /\ Cardinality(RowsOf(r)) = Reached(authority, r)
      /\ DOMAIN authority.log = 1..Len(authority.log)
  BY <1>3, LogRows, RowsCounted DEF Reached
<1>5. PICK i \in DOMAIN authority.log : authority.log[i].op = s[c].op
  BY <1>1, <1>2 DEF QueueInv, ReplicationInv, DecisionsAgreeWithTheLog
<1>6. i \in RowsOf(r)
  BY <1>2, <1>5 DEF RowsOf
<1>7. authority.log[i].op.counter = Cardinality({j \in RowsOf(r) : j < i}) + 1
  BY <1>3, <1>6 DEF FrontierInv, EachDotOnceInOrder
<1>8. {j \in RowsOf(r) : j < i} \subseteq RowsOf(r) \ {i}
  BY <1>4, <1>6 DEF RowsOf
<1>9. IsFiniteSet(RowsOf(r) \ {i}) /\ Cardinality(RowsOf(r) \ {i}) = Cardinality(RowsOf(r)) - 1
  BY <1>4, <1>6, FS_RemoveElement
<1>10. Cardinality({j \in RowsOf(r) : j < i}) <= Cardinality(RowsOf(r)) - 1
  BY <1>8, <1>9, FS_Subset
<1>11. Cardinality({j \in RowsOf(r) : j < i}) \in Nat
  BY <1>8, <1>9, FS_Subset, FS_CardinalityType
<1>12. c = Cardinality({j \in RowsOf(r) : j < i}) + 1
  BY <1>2, <1>5, <1>7
<1> QED BY <1>4, <1>10, <1>11, <1>12

\* A replica that has nothing pending has had all it queued accepted.
LEMMA NothingPending ==
  ASSUME QueueInv, NEW r \in Replicas, Pending(r) = << >>, local[r].epoch = authority.epoch
  PROVE  Len(outgoing[r]) <= Reached(authority, r)
<1>1. PICK s : s = outgoing[r] /\ IsSequence(s) /\ IsChain(r, s, local[r])
  BY DEF QueueInv, ReplicationInv, LocalShape, ChainInv
<1>2. PICK n \in Nat : n = Len(s) /\ DOMAIN s = 1..n
  BY <1>1, SequenceFacts
<1>3. Reached(authority, r) \in Nat
  BY LogRows, RowsCounted DEF Reached, QueueInv, ReplicationInv
<1>4. CASE n = 0
  BY <1>1, <1>2, <1>3, <1>4
<1>5. CASE n # 0
  <2>1. PICK done \in 0..n :
          /\ \A c \in 1..n : s[c].status = "pending" <=> done < c
          /\ Len(Pending(r)) = n - done
    BY <1>1, <1>2, PendingIsTheRest
  <2>2. Len(Pending(r)) = 0
    <3>1. PICK empty : empty = << >> /\ empty \in Seq({}) /\ Len(empty) = 0
      BY EmptySeq
    <3> QED BY <3>1
  <2>3. n \in 1..n /\ ~(done < n)
    BY <1>5, <2>1, <2>2
  <2> QED BY <1>1, <1>2, <2>1, <2>3, DecidedIsReached
<1> QED BY <1>4, <1>5

\* What an installation makes of a commitment of which the replica has nothing to tell.
LEMMA InstallShows ==
  ASSUME QueueInv, NEW m \in network, Install(m), NEW r \in Replicas, r = m.replica, NEW x \in Records,
         \A i \in DOMAIN Pending(r) : Rebases(Pending(r)[i].op, m) => Pending(r)[i].op.record # x
  PROVE  view'[r][x] = IF x \in ResetIds(r, m) THEN m.records[x] ELSE view[r][x]
<1>1. LocalShape /\ ChainInv /\ RunInv /\ ShowInv
  BY DEF QueueInv, ReplicationInv
<1>2. m.accepted.counter \in Nat /\ Shows(m.records) /\ Shows(view[r])
  BY <1>1 DEF Install, RunInv, ShowInv
<1>3. PICK s : s = outgoing[r] /\ IsSequence(s) /\ IsChain(r, s, local[r])
  BY <1>1 DEF LocalShape, ChainInv
<1>4. PICK replay, start : replay = Replay(r, m) /\ start = Cleared(r, m)
  OBVIOUS
<1>5. PICK done \in 0..Len(s) :
         /\ Len(Pending(r)) = Len(s) - done
         /\ \A i \in 1..(Len(s) - done) : Pending(r)[i].op = RestOf(s, done)[i]
         /\ Replayed(replay, Len(s) - done, r, m, RestOf(s, done), done, OpAt(s, done), start)
  BY <1>2, <1>3, <1>4, ReplayHolds
<1>6. PICK size \in Nat : size = Len(s) - done /\ DOMAIN Pending(r) = 1..size
  <2>1. Len(s) \in Nat /\ IsSequence(Pending(r))
    BY <1>3, SequenceFacts, PendingIsTheRest
  <2> QED BY <1>5, <2>1, SequenceFacts
<1>7. PICK were : were = RestOf(s, done)
  OBVIOUS
<1>8. replay.fits /\ view'[r] = replay.view
  BY <1>1, <1>4 DEF Install, ShowInv
<1>9. ReplayShows(replay, size, m, were, start)
  BY <1>5, <1>6, <1>7, <1>8 DEF Replayed
<1>10. \A i \in 1..size : Rebases(were[i], m) => were[i].record # x
  BY <1>5, <1>6, <1>7
<1>11. replay.view[x] = start[x]
  BY <1>9, <1>10 DEF ReplayShows
<1>12. start[x] = IF x \in ResetIds(r, m) THEN m.records[x] ELSE view[r][x]
  BY <1>4 DEF Cleared, ReplayStart
<1> QED BY <1>8, <1>11, <1>12

\* A replica converges: with nothing pending and everything installed, it shows what the
\* authority has (installReplicationSnapshotAndRebase), as long as the authority wrote
\* nothing on its own.
THEOREM QuietReplicasShowTheAuthority == ReplicationSpec => []QuietReplicasAgree
<1>1. QueueInv /\ CalmInv => QuietReplicasAgree
  <2> SUFFICES ASSUME QueueInv, CalmInv, NEW r \in Replicas, incidents = 0, Pending(r) = << >>,
                      local[r].epoch = authority.epoch, local[r].observed = CurrentSequence,
                      local[r].retired = authority.data.retired
               PROVE  view[r] = authority.data.records
    BY DEF QuietReplicasAgree
  <2>1. CalmReplica(authority, outgoing[r], local[r], view[r], Reached(authority, r), incidents)
    BY DEF CalmInv, Current
  <2>2. Len(outgoing[r]) <= Reached(authority, r)
    BY NothingPending
  <2> QED BY <2>1, <2>2 DEF CalmReplica, CurrentSequence
<1> QED BY <1>1, CalmIsInv, PTL

\* A snapshot of what the authority has now is what its replica shows once
\* installReplicationSnapshotAndRebase is done, but for the commitments the replica has
\* still to tell of: the identities that it resets are all that may show anything else,
\* whatever the authority wrote, retired, pruned or recovered.
THEOREM SnapshotsAreShown == ReplicationSpec => CurrentSnapshotIsShown
<1> DEFINE Shown == \A m \in network :
             (/\ m.kind = "snapshot" /\ m.epoch = authority.epoch
              /\ m.records = authority.data.records /\ m.retired = authority.data.retired
              /\ local'[m.replica].observed = m.covered /\ local'[m.replica].retired = m.retired
              /\ Install(m)) =>
               LET untold == {op \in {Pending(m.replica)[i].op : i \in DOMAIN Pending(m.replica)} :
                                Rebases(op, m)}
               IN  \A x \in Records : (\A op \in untold : op.record # x)
                       => view'[m.replica][x] = authority.data.records[x]
<1>1. ASSUME QueueInv, CalmInv
      PROVE  Shown
  <2> SUFFICES ASSUME NEW m \in network, m.epoch = authority.epoch,
                      m.records = authority.data.records, m.retired = authority.data.retired,
                      Install(m), NEW x \in Records,
                      \A i \in DOMAIN Pending(m.replica) :
                        Rebases(Pending(m.replica)[i].op, m) => Pending(m.replica)[i].op.record # x
               PROVE  view'[m.replica][x] = authority.data.records[x]
    OBVIOUS
  <2>1. PICK r \in Replicas : r = m.replica
    BY <1>1 DEF QueueInv, ReplicationInv, NetworkInv
  <2>2. view'[r][x] = IF x \in ResetIds(r, m) THEN m.records[x] ELSE view[r][x]
    BY <1>1, <2>1, InstallShows
  <2>3. ASSUME x \notin ResetIds(r, m)
        PROVE  view[r][x] = Absent /\ m.records[x] = Absent
    <3>1. /\ m.records[x] = Absent /\ x \notin m.retired
          /\ \A i \in DOMAIN Pending(r) : Pending(r)[i].op.record # x
      BY <2>3 DEF ResetIds
    <3>2. local[r].epoch = authority.epoch
      BY <2>1 DEF Install, Installable
    <3>3. PICK a, s, n, v :
            /\ a = authority /\ s = outgoing[r] /\ n = Reached(authority, r) /\ v = view[r]
      OBVIOUS
    <3>4. CalmReplica(a, s, local[r], v, n, incidents)
      BY <1>1, <3>2, <3>3 DEF CalmInv, Current
    <3>5. ~Touched(a, x)
      BY <3>1, <3>3 DEF Touched
    <3>6. ASSUME Names(s, x, Len(s))
          PROVE  FALSE
      <4>1. IsSequence(s) /\ IsChain(r, s, local[r])
        BY <1>1, <3>3 DEF QueueInv, ReplicationInv, LocalShape, ChainInv
      <4>2. PICK size \in Nat : size = Len(s) /\ DOMAIN s = 1..size
        BY <4>1, SequenceFacts
      <4>3. PICK c \in 1..size : s[c].op.record = x
        BY <3>6, <4>2 DEF Names
      <4>4. PICK done \in 0..size :
              /\ \A d \in 1..size : s[d].status = "pending" <=> done < d
              /\ IsSequence(Pending(r)) /\ Len(Pending(r)) = size - done
              /\ \A i \in 1..Len(Pending(r)) : Pending(r)[i] = s[done + i]
        BY <3>3, <4>1, <4>2, PendingIsTheRest
      <4>5. CASE done < c
        <5>1. PICK i \in 1..(size - done) : done + i = c
          <6>1. c - done \in 1..(size - done) /\ done + (c - done) = c
            BY <4>5
          <6> QED BY <6>1
        <5>2. i \in DOMAIN Pending(r) /\ Pending(r)[i] = s[c]
          BY <4>4, <5>1, SequenceFacts
        <5> QED BY <3>1, <4>3, <5>2
      <4>6. CASE ~(done < c)
        <5>1. c <= n
          BY <1>1, <3>2, <3>3, <4>2, <4>4, <4>6, DecidedIsReached
        <5>2. n \in Nat /\ \A d \in 1..n : Touched(a, s[d].op.record)
          BY <3>4 DEF CalmReplica
        <5>3. c \in 1..n
          BY <5>1, <5>2
        <5> QED BY <3>5, <4>3, <5>2, <5>3
      <4> QED BY <4>5, <4>6
    <3>7. v[x] = Absent
      BY <3>4, <3>5, <3>6 DEF CalmReplica
    <3> QED BY <3>1, <3>3, <3>7
  <2> QED BY <2>1, <2>2, <2>3
<1>2. CurrentSnapshotIsShown <=> [][Shown]_replicationVars
  BY DEF CurrentSnapshotIsShown
<1> HIDE DEF Shown
<1>3. QueueInv /\ CalmInv => [Shown]_replicationVars
  BY <1>1
<1> QED BY <1>2, <1>3, CalmIsInv, PTL
=============================================================================
