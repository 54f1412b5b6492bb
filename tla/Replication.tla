---------------------------- MODULE Replication ----------------------------
(***************************************************************************)
(* Explicit replication (tasq-core/src/service/replication.ts): replicas   *)
(* change commitments offline and queue one operation per change; one      *)
(* authority accepts the operations of each replica in the order of their  *)
(* counters, numbers them, and serves snapshots over which a replica       *)
(* rebases what is still pending.                                          *)
(*                                                                         *)
(* Every handler is one transaction, except a push: acceptReplicationPush  *)
(* runs one transaction per operation, so a push is a message that shrinks *)
(* while the authority works on it.  Messages are lost, delayed, reordered *)
(* and, for replies and snapshots, delivered twice.                        *)
(*                                                                         *)
(* SHA-256 is taken to be injective: the digest of an operation is the     *)
(* operation, that of a record its semantic state (timestamps excluded).   *)
(* A "replica" is one generation; a client that starts over is another     *)
(* one.  A pull fits in one page, so the cursor is the covered sequence.   *)
(***************************************************************************)
EXTENDS Naturals, Sequences, FiniteSets, Functions

CONSTANTS
  Replicas,      \* the replica generations
  Records,       \* the identities of commitments
  Bodies,        \* what a commitment can say; "none" stands for no commitment
  Kinds,         \* the commands in use: create, update, delete, restore
  MaxOperations, \* bound: operations all generations queue together
  MaxIncidents,  \* bound: the authority's own acts, silences and recoveries
  MaxPushes      \* bound: pushes of one replica on the way at a time

ASSUME ReplicationAssumption ==
  /\ MaxOperations \in Nat /\ MaxIncidents \in Nat /\ MaxPushes \in Nat \ {0}
  /\ "none" \notin Bodies

VARIABLES
  authority,  \* the authority's database (see Fresh)
  local,      \* local[r]: replication_local_replica, and the retired identities
  outgoing,   \* outgoing[r]: replication_outgoing, in counter order
  view,       \* view[r]: the commitments in the replica's own database
  seen,       \* seen[r]: the identities in replication_materialized_record
  incidents,  \* how many incidents there were, for the bound
  network     \* pushes, replies and snapshots on the way

replicationVars == <<authority, local, outgoing, view, seen, incidents, network>>
clientVars == <<local, outgoing, view, seen>>

-----------------------------------------------------------------------------
(* Commitments, commands and operations. *)

Absent == [body |-> "none", deleted |-> FALSE]

\* What only the authority writes into a commitment (a status, say).
ByAuthority == "by the authority"

Commands ==
  {c \in [kind : {"create", "update"}, body : Bodies]
           \cup [kind : {"delete", "restore"}, body : {"none"}] : c.kind \in Kinds}

\* Whether the service primitive accepts the command in state s.  A patch is taken to
\* write all of the body, and that what is done keeps its criteria is left out: an
\* operation is applied only to the base it names, where its replica was asked the same.
Legal(command, s) ==
  CASE command.kind = "create" -> s = Absent
    [] command.kind = "update" -> s # Absent /\ ~s.deleted
    [] OTHER                   -> s # Absent

\* What the command makes of s (applyCommandInTransaction).
Outcome(command, s) ==
  CASE command.kind \in {"create", "update"} -> [body |-> command.body, deleted |-> FALSE]
    [] command.kind = "delete"               -> [s EXCEPT !.deleted = TRUE]
    [] command.kind = "restore"              -> [s EXCEPT !.deleted = FALSE]

\* The predecessor of a generation's first operation.
Genesis == [counter |-> 0]

\* What the authority keeps of a generation that has not registered.
Stranger == [status |-> "absent", accepted |-> Genesis, acknowledged |-> 0]

\* An authority's database: its identity, its accepted operations (those up to
\* `floor` are pruned), its data (the commitments, and which of them were
\* retired for good), and what it knows of each generation.
Nothing == [records |-> [x \in Records |-> Absent],
            retired |-> {}]

Fresh == [epoch |-> 1, log |-> << >>, floor |-> 0, data |-> Nothing,
          replica |-> [r \in Replicas |-> Stranger]]

ReplicationInit ==
  /\ authority = Fresh
  /\ local = [r \in Replicas |-> [epoch |-> 0, observed |-> 0, next |-> 1,
                                  previous |-> Genesis, retired |-> {}]]
  /\ outgoing = [r \in Replicas |-> << >>]
  /\ view = [r \in Replicas |-> [x \in Records |-> Absent]]
  /\ seen = [r \in Replicas |-> {}]
  /\ incidents = 0
  /\ network = {}

CurrentSequence == Len(authority.log)

Incident == incidents < MaxIncidents /\ incidents' = incidents + 1

\* The generation is registered, and was heard of in the last 90 days.
MayTalk(r) == authority.replica[r].status = "active"

-----------------------------------------------------------------------------
(* Joining. *)

\* registerReplicationReplica; a stale generation is refused for good.
Register(r) ==
  /\ authority.replica[r].status = "absent" \/ MayTalk(r)
  /\ authority' = [authority EXCEPT !.replica[r].status = "active"]
  /\ UNCHANGED <<incidents, clientVars, network>>

\* initializeLocalReplica, with the authority epoch discovery shows.
InitializeLocal(r) ==
  /\ local[r].epoch = 0
  /\ local' = [local EXCEPT ![r].epoch = authority.epoch]
  /\ UNCHANGED <<incidents, authority, outgoing, view, seen, network>>

-----------------------------------------------------------------------------
(* The replica. *)

Entry(op) == [op |-> op, status |-> "pending", sequence |-> 0]

Queued == FoldFunction(LAMBDA q, n : Len(q) + n, 0, outgoing)

\* queueCommand: the change and the operation that will tell of it, at once.
Queue(r, x, command) ==
  LET me == local[r]
      op == [origin |-> r, counter |-> me.next, previous |-> me.previous,
             epoch |-> me.epoch, observed |-> me.observed,
             record |-> x, command |-> command,
             base |-> view[r][x], outcome |-> Outcome(command, view[r][x])]
  IN  /\ me.epoch > 0 /\ Queued < MaxOperations
      /\ Legal(command, view[r][x])
      /\ command.kind = "create" => x \notin me.retired
      /\ view' = [view EXCEPT ![r][x] = op.outcome]
      /\ outgoing' = [outgoing EXCEPT ![r] = Append(@, Entry(op))]
      /\ local' = [local EXCEPT ![r].next = @ + 1, ![r].previous = op]
      /\ UNCHANGED <<incidents, authority, seen, network>>


\* The entries still to be decided, in counter order: the i-th is the one up to
\* which there are i of them.
Pending(r) ==
  LET undecided == {c \in DOMAIN outgoing[r] : outgoing[r][c].status = "pending"}
      UpTo(c) == {d \in undecided : d <= c}
  IN  [i \in 1..Cardinality(undecided) |->
         outgoing[r][CHOOSE c \in undecided : Cardinality(UpTo(c)) = i]]

OnTheWay(kind, r) == {m \in network : m.kind = kind /\ m.replica = r}

\* Where the network holds `limit` messages of a kind for a replica, another one
\* takes the place of one of them: that one is lost.
Sent(m, limit) ==
  LET like == OnTheWay(m.kind, m.replica)
  IN  IF m \in like THEN {network}
      ELSE IF Cardinality(like) < limit THEN {network \cup {m}}
      ELSE {(network \ {lost}) \cup {m} : lost \in like}

\* buildReplicationPushRequest, sent.
Push(r) ==
  /\ Pending(r) # << >>
  /\ network' \in Sent([kind |-> "push", replica |-> r, results |-> << >>,
                        ops |-> [i \in DOMAIN Pending(r) |-> Pending(r)[i].op]], MaxPushes)
  /\ UNCHANGED <<incidents, authority, clientVars>>

\* The entry that a result names.
EntryOf(r, result) == outgoing[r][result.op.counter]

\* Wrong on purpose: a result is matched by its counter alone.
AcknowledgeByCounter(m) ==
  LET r == m.replica
      results(c) == {i \in DOMAIN m.results : m.results[i].op.counter = c}
  IN  /\ m.kind = "reply" /\ m.epoch = local[r].epoch
      /\ outgoing' = [outgoing EXCEPT ![r] = [c \in DOMAIN @ |->
           IF results(c) = {} THEN @[c]
           ELSE LET i == CHOOSE j \in results(c) : TRUE
                IN  [op |-> @[c].op, status |-> m.results[i].disposition,
                     sequence |-> m.results[i].sequence]]]
      /\ UNCHANGED <<incidents, authority, local, view, seen, network>>

\* acknowledgeReplicationPush: one transaction for all the results, each of
\* which decides a pending entry or repeats what the entry already says.
Acknowledge(m) ==
  LET r == m.replica
      decided(e) == {m.results[i] : i \in {j \in DOMAIN m.results : m.results[j].op = e.op}}
  IN  /\ m.kind = "reply" /\ m.epoch = local[r].epoch
      /\ \A i \in DOMAIN m.results :
           LET e == EntryOf(r, m.results[i])
           IN  /\ e.op = m.results[i].op
               /\ \/ e.status = "pending"
                  \/ e.status = m.results[i].disposition /\ e.sequence = m.results[i].sequence
      /\ outgoing' = [outgoing EXCEPT ![r] = [c \in DOMAIN @ |->
           IF decided(@[c]) = {} THEN @[c]
           ELSE LET result == CHOOSE d \in decided(@[c]) : TRUE
                IN  [op |-> @[c].op, status |-> result.disposition,
                     sequence |-> result.sequence]]]
      /\ UNCHANGED <<incidents, authority, local, view, seen, network>>

-----------------------------------------------------------------------------
(* The authority accepts operations. *)

\* The rows of replication_accepted for an operation's dot.
RowsAt(op) ==
  {i \in authority.floor + 1 .. CurrentSequence :
     /\ authority.log[i].op.origin = op.origin
     /\ authority.log[i].op.counter = op.counter}

\* Wrong on purpose: an operation of any epoch will do.
WelcomeAnyEpoch(op) == op.observed <= CurrentSequence /\ MayTalk(op.origin)

\* The checks of acceptOneOperation before it looks for an earlier row ...
Welcome(op) ==
  /\ op.epoch = authority.epoch
  /\ op.observed <= CurrentSequence
  /\ MayTalk(op.origin)

\* ... and those on an operation that has none: no gap, no other predecessor.
Succeeds(op) ==
  /\ op.counter = authority.replica[op.origin].accepted.counter + 1
  /\ op.previous = authority.replica[op.origin].accepted

\* Wrong on purpose: retired identities are not looked up.
DispositionUnretired(op) ==
  LET current == authority.data.records[op.record]
  IN  IF current = op.outcome /\ current # Absent THEN "equivalent"
      ELSE IF current # op.base THEN "conflicted" ELSE "applied"

\* A retired identity is never brought back; a base that changed is a conflict.
Disposition(op) ==
  LET current == authority.data.records[op.record]
  IN  IF current = op.outcome /\ current # Absent THEN "equivalent"
      ELSE IF op.record \in authority.data.retired \/ current # op.base THEN "conflicted"
      ELSE "applied"

Result(op, disposition, n) == [op |-> op, disposition |-> disposition, sequence |-> n]

\* Applying runs the command again and refuses another outcome than declared.
AppliesAsDeclared(op) ==
  LET current == authority.data.records[op.record]
  IN  Legal(op.command, current) /\ Outcome(op.command, current) = op.outcome

DataAfter(op) ==
  IF Disposition(op) # "applied" THEN authority.data
  ELSE [authority.data EXCEPT !.records[op.record] = op.outcome]

\* The new row (with the data as it leaves them), its number, the new frontier.
Accepted(op) ==
  [authority EXCEPT
     !.log = Append(@, [op |-> op, disposition |-> Disposition(op), data |-> DataAfter(op)]),
     !.data = DataAfter(op),
     !.replica[op.origin].accepted = op]

\* The push m goes on without its first operation, which had this result.
Progress(m, result) ==
  (network \ {m}) \cup {[m EXCEPT !.ops = Tail(@), !.results = Append(@, result)]}

\* Wrong on purpose: a repeated operation is taken for a new one.
AcceptEveryTime(m) ==
  LET op == Head(m.ops)
  IN  /\ m.kind = "push" /\ m.ops # << >>
      /\ Welcome(op) /\ RowsAt(op) # {}
      /\ authority' = Accepted(op)
      /\ network' = Progress(m, Result(op, Disposition(op), CurrentSequence + 1))
      /\ UNCHANGED <<incidents, clientVars>>

\* acceptOneOperation, a dot it has a row for: the stored result again.
AcceptAgain(m) ==
  LET op == Head(m.ops)
  IN  /\ m.kind = "push" /\ m.ops # << >>
      /\ Welcome(op)
      /\ \E i \in RowsAt(op) :
           /\ authority.log[i].op = op
           /\ network' = Progress(m, Result(op, authority.log[i].disposition, i))
      /\ UNCHANGED <<incidents, authority, clientVars>>

\* acceptOneOperation, a new dot.  Whatever it refuses stays as it was, and
\* ends the push: the operations before it are accepted, the answer is an error.
AcceptOne(m) ==
  LET op == Head(m.ops)
  IN  /\ m.kind = "push" /\ m.ops # << >>
      /\ Welcome(op) /\ RowsAt(op) = {} /\ Succeeds(op)
      /\ Disposition(op) = "applied" => AppliesAsDeclared(op)
      /\ authority' = Accepted(op)
      /\ network' = Progress(m, Result(op, Disposition(op), CurrentSequence + 1))
      /\ UNCHANGED <<incidents, clientVars>>

\* The end of acceptReplicationPush: the epoch is read once more.
Respond(m) ==
  /\ m.kind = "push" /\ m.ops = << >>
  /\ network' = (network \ ({m} \cup OnTheWay("reply", m.replica))) \cup
       {[kind |-> "reply", replica |-> m.replica, results |-> m.results,
         epoch |-> authority.epoch]}
  /\ UNCHANGED <<incidents, authority, clientVars>>

-----------------------------------------------------------------------------
(* Snapshots. *)

\* buildSnapshot, with the accepted frontier of the one who asked.
Snapshot(r) ==
  [kind |-> "snapshot", replica |-> r, epoch |-> authority.epoch,
   covered |-> CurrentSequence, records |-> authority.data.records,
   retired |-> authority.data.retired, accepted |-> authority.replica[r].accepted]

\* pullReplication, for a replica there is: what is served counts as acknowledged.
Pull(r) ==
  /\ MayTalk(r) /\ local[r].epoch > 0
  /\ authority' = [authority EXCEPT !.replica[r].acknowledged = CurrentSequence]
  /\ network' = (network \ OnTheWay("snapshot", r)) \cup {Snapshot(r)}
  /\ UNCHANGED <<incidents, clientVars>>

\* Wrong on purpose: only what was pending is reset.
ResetsOnlyPending(r, m) == {Pending(r)[i].op.record : i \in DOMAIN Pending(r)}

\* The records that an install of m takes out of the replica's database first.
ResetIds(r, m) ==
  seen[r] \cup {Pending(r)[i].op.record : i \in DOMAIN Pending(r)}
    \cup {x \in Records : m.records[x] # Absent} \cup m.retired

\* Wrong on purpose: the predecessor of the first pending operation is taken
\* from the tail of the queue.
FirstPreviousFromTail(r) == local[r].previous

FirstPrevious(r) ==
  IF Pending(r) = << >> THEN local[r].previous ELSE Pending(r)[1].op.previous

\* Wrong on purpose: the base moves, the declared outcome does not.
RebasedBaseOnly(op, m, v, previous) ==
  LET replays == (op.command.kind = "create") # (v[op.record] # Absent)
  IN  [op EXCEPT !.previous = previous, !.epoch = m.epoch, !.observed = m.covered,
                 !.base = IF replays THEN v[op.record] ELSE @]

\* A pending operation over the view v: replayed when its record is there (or,
\* for a create, is not), else declared as before.
Rebased(op, m, v, previous) ==
  LET replays == (op.command.kind = "create") # (v[op.record] # Absent)
      moved == [op EXCEPT !.previous = previous, !.epoch = m.epoch, !.observed = m.covered]
  IN  IF replays
      THEN [moved EXCEPT !.base = v[op.record],
                         !.outcome = Outcome(op.command, v[op.record])]
      ELSE moved

\* An operation up to the accepted frontier keeps its digest.
Rebases(op, m) == op.counter > m.accepted.counter

\* The replay, one pending operation after another: the view, the digest the
\* next operation follows, the operations, and whether any was refused.  It
\* starts with the snapshot in the place of what it resets ...
ReplayStart(r, m) ==
  [view |-> [x \in Records |-> IF x \in ResetIds(r, m) THEN m.records[x] ELSE view[r][x]],
   previous |-> FirstPrevious(r), ops |-> << >>, fits |-> TRUE]

\* ... and takes the operation op up in this way.
ReplayStep(so_far, op, m) ==
  LET s == so_far.view[op.record]
      replays == (op.command.kind = "create") # (s # Absent)
      moved == Rebased(op, m, so_far.view, so_far.previous)
  IN  IF ~Rebases(op, m)
      THEN [so_far EXCEPT !.previous = op, !.ops = Append(@, op)]
      ELSE [view |-> IF replays
                     THEN [so_far.view EXCEPT ![op.record] = Outcome(op.command, s)]
                     ELSE so_far.view,
            previous |-> moved,
            ops |-> Append(so_far.ops, moved),
            fits |-> so_far.fits /\ (replays => Legal(op.command, s))]

Replay(r, m) ==
  LET after[i \in 0..Len(Pending(r))] ==
        IF i = 0 THEN ReplayStart(r, m)
        ELSE ReplayStep(after[i - 1], Pending(r)[i].op, m)
  IN  after[Len(Pending(r))]

\* What the install checks of the snapshot against the replica's own queue.
Installable(r, m) ==
  /\ m.epoch = local[r].epoch
  /\ m.covered >= local[r].observed
  /\ m.accepted.counter < local[r].next
  /\ m.accepted.counter > 0 => outgoing[r][m.accepted.counter].op = m.accepted

\* installReplicationSnapshotAndRebase.
Install(m) ==
  LET r == m.replica
      done == Len(outgoing[r]) - Len(Pending(r))
      replay == Replay(r, m)
  IN  /\ m.kind = "snapshot"
      /\ Installable(r, m) /\ replay.fits
      /\ view' = [view EXCEPT ![r] = replay.view]
      /\ seen' = [seen EXCEPT ![r] = {x \in Records : m.records[x] # Absent}]
      /\ outgoing' = [outgoing EXCEPT ![r] = [c \in DOMAIN @ |->
           IF c <= done THEN @[c] ELSE Entry(replay.ops[c - done])]]
      /\ local' = [local EXCEPT ![r].observed = m.covered, ![r].retired = m.retired,
                                ![r].previous = replay.previous]
      /\ UNCHANGED <<incidents, authority, network>>

-----------------------------------------------------------------------------
(* The authority on its own: writes, retention, backup and recovery. *)

\* Ninety days without a word from r.  No clock is kept: what time does is that
\* a generation goes silent, and that rows and tombstones may be old enough.
GoSilent(r) ==
  /\ Incident
  /\ MayTalk(r)
  /\ authority' = [authority EXCEPT !.replica[r].status = "stale"]
  /\ UNCHANGED <<clientVars, network>>

\* A mutation the authority makes itself (a status change, a deletion): its
\* snapshots show it, no operation tells of it.
AuthorityWrites(x) ==
  /\ Incident
  /\ authority.data.records[x] # Absent /\ ~authority.data.records[x].deleted
  /\ \/ authority' = [authority EXCEPT !.data.records[x].body = ByAuthority]
     \/ authority' = [authority EXCEPT !.data.records[x].deleted = TRUE]
  /\ UNCHANGED <<clientVars, network>>

\* retireReplicatedCommitment, of a tombstone that is old enough.
Retire(x) ==
  /\ authority.data.records[x].deleted
  /\ authority' = [authority EXCEPT !.data.records[x] = Absent, !.data.retired = @ \cup {x}]
  /\ UNCHANGED <<incidents, clientVars, network>>

\* Every generation that is not silent has been served the rows up to n.
Prunable(n) ==
  /\ n \in authority.floor + 1 .. CurrentSequence
  /\ \A r \in Replicas : MayTalk(r) => n <= authority.replica[r].acknowledged

\* pruneReplicationHistory, where the rows up to n are old enough.
Prune ==
  /\ Incident
  /\ \E n \in 1..CurrentSequence :
       Prunable(n) /\ authority' = [authority EXCEPT !.floor = n]
  /\ UNCHANGED <<clientVars, network>>

\* The last operation of r among the first n that were accepted.
FrontierAt(r, n) ==
  LET rows == {i \in 1..n : authority.log[i].op.origin = r}
  IN  IF rows = {} THEN Genesis
      ELSE authority.log[CHOOSE i \in rows : \A j \in rows : j <= i].op

\* The database in a backup made as operation n was committed (bound: it knows
\* the generations that have registered since).
AsOf(n) ==
  [authority EXCEPT
     !.log = SubSeq(@, 1, n),
     !.floor = IF @ < n THEN @ ELSE n,
     !.data = IF n = CurrentSequence THEN @ ELSE IF n = 0 THEN Nothing ELSE authority.log[n].data,
     !.replica = [r \in Replicas |-> [@[r] EXCEPT !.accepted = FrontierAt(r, n)]]]

\* Every generation the database knows must start over.
AllStale(database) ==
  [database EXCEPT !.replica = [r \in Replicas |->
     IF @[r].status = "absent" THEN @[r] ELSE [@[r] EXCEPT !.status = "stale"]]]

\* The operator activates a backup, or the database as it is, under a fresh
\* epoch: recoverReplicationAuthority.  A retry of the call changes nothing.
Recover ==
  /\ Incident
  /\ \E n \in 0..CurrentSequence : authority' = [AllStale(AsOf(n)) EXCEPT !.epoch = @ + 1]
  /\ UNCHANGED <<clientVars, network>>

-----------------------------------------------------------------------------
ReplicaNext(r) ==
  \/ Register(r) \/ InitializeLocal(r) \/ Push(r) \/ Pull(r) \/ GoSilent(r)
  \/ \E x \in Records, command \in Commands : Queue(r, x, command)

MessageNext(m) ==
  AcceptAgain(m) \/ AcceptOne(m) \/ Respond(m) \/ Acknowledge(m) \/ Install(m)

ReplicationNext ==
  \/ \E r \in Replicas : ReplicaNext(r)
  \/ \E m \in network : MessageNext(m)
  \/ \E x \in Records : Retire(x) \/ AuthorityWrites(x)
  \/ Prune \/ Recover

ReplicationSpec == ReplicationInit /\ [][ReplicationNext]_replicationVars

-----------------------------------------------------------------------------
(* What replication promises. *)

\* The lineage of one generation: the numbers of its rows in the log.
RowsOf(r) == {i \in DOMAIN authority.log : authority.log[i].op.origin = r}

\* "The same dot and the same digest is an exact retry; a gap or a broken
\* predecessor is never skipped" (ADR-003): every generation is in the log with
\* its operations 1, 2, ... once each, in that order, each following the digest
\* of the one before, however pushes are repeated, cut short or reordered.
EachDotOnceInOrder ==
  \A r \in Replicas :
    LET rows == RowsOf(r)
        before(i) == {j \in rows : j < i}
    IN  \A i \in rows :
          /\ authority.log[i].op.counter = Cardinality(before(i)) + 1
          /\ \/ before(i) = {} /\ authority.log[i].op.previous = Genesis
             \/ \E j \in before(i) : authority.log[i].op.previous = authority.log[j].op

\* What a replica believes decided is what the log of its epoch says, at that
\* number: no reply of another push, another epoch or another digest counts.
DecisionsAgreeWithTheLog ==
  \A r \in Replicas : local[r].epoch = authority.epoch =>
    \A c \in DOMAIN outgoing[r] :
      LET e == outgoing[r][c]
      IN  e.status # "pending" =>
            /\ e.sequence \in DOMAIN authority.log
            /\ authority.log[e.sequence].op = e.op
            /\ authority.log[e.sequence].disposition = e.status

\* A generation's queue is one hash chain, whatever was rebased in it.
QueueIsOneChain ==
  \A r \in Replicas :
    /\ \A c \in DOMAIN outgoing[r] :
         /\ outgoing[r][c].op.counter = c
         /\ outgoing[r][c].op.previous = IF c = 1 THEN Genesis ELSE outgoing[r][c - 1].op
    /\ local[r].previous = IF outgoing[r] = << >> THEN Genesis
                           ELSE outgoing[r][Len(outgoing[r])].op

\* An operation that the authority is about to apply does there what its
\* replica declared, even after rebases: "Service outcome differs from the
\* declared canonical outcome" (replication.ts:1085) is never raised.
DeclaredOutcomesHold ==
  \A m \in network : (m.kind = "push" /\ m.ops # << >>) =>
    LET op == Head(m.ops)
    IN  Disposition(op) = "applied" => AppliesAsDeclared(op)

\* A retired identity stays retired within its epoch, and nothing brings it
\* back: "omission can never resurrect it" (TQ-405:146).
RetiredStaysRetired ==
  \A x \in authority.data.retired : authority.data.records[x] = Absent

\* What was decided is never decided again: neither another reply, a snapshot nor a
\* recovery revises an entry that a queue has the verdict of, an epoch of the log
\* only grows, and after a recovery nothing made for an earlier epoch is accepted.
DecisionsAreFinal ==
  [][/\ \A r \in Replicas : \A c \in DOMAIN outgoing[r] :
          outgoing[r][c].status # "pending" =>
            /\ outgoing'[r][c].op = outgoing[r][c].op
            /\ outgoing'[r][c].status = outgoing[r][c].status
            /\ outgoing'[r][c].sequence = outgoing[r][c].sequence
     /\ authority'.epoch = authority.epoch =>
          \A n \in DOMAIN authority.log : authority'.log[n] = authority.log[n]
     /\ \A n \in DOMAIN authority'.log :
          n > Len(authority.log) => authority'.log[n].op.epoch = authority.epoch]_replicationVars

\* Replicas converge: one that has nothing pending and has installed everything
\* the log holds, and every retirement, shows what the authority has, unless the
\* authority wrote on its own.
QuietReplicasAgree ==
  \A r \in Replicas :
    (/\ incidents = 0 /\ Pending(r) = << >>
     /\ local[r].epoch = authority.epoch /\ local[r].observed = CurrentSequence
     /\ local[r].retired = authority.data.retired)
      => view[r] = authority.data.records

\* ... and whatever the authority did, a snapshot that says what it has now makes the
\* replica that installs it show that, but for what it has itself still to tell:
\* nothing the replica had from earlier snapshots or operations shines through.
CurrentSnapshotIsShown ==
  [][\A m \in network :
       (/\ m.kind = "snapshot" /\ m.epoch = authority.epoch
        /\ m.records = authority.data.records /\ m.retired = authority.data.retired
        /\ local'[m.replica].observed = m.covered /\ local'[m.replica].retired = m.retired
        /\ Install(m)) =>
         LET untold == {op \in {Pending(m.replica)[i].op : i \in DOMAIN Pending(m.replica)} :
                          Rebases(op, m)}
         IN  \A x \in Records : (\A op \in untold : op.record # x)
                 => view'[m.replica][x] = authority.data.records[x]]_replicationVars
=============================================================================
