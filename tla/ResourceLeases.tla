--------------------------- MODULE ResourceLeases ---------------------------
(***************************************************************************)
(* Leases on opaque resource keys: tasq-core/src/service/resources.ts and  *)
(* the guards of migrations/0021_resource_leases.sql.                      *)
(*                                                                         *)
(* Unlike the claims of TaskLedger these services read the clock inside    *)
(* the transaction (resources.ts:383), so every mutation acts on `clock`.  *)
(* The clock is the wall clock of whichever device runs the call: it may   *)
(* step back, which the code answers with "clock_regression" per lease.    *)
(* verifyResourceFence is not a transaction: it reads the row, then the    *)
(* clock, and other callers may act in between.                            *)
(*                                                                         *)
(* A row's number is its id.  created_at and acquired_at are not kept (no  *)
(* guard reads them that heartbeat_at does not imply), nor are the event   *)
(* rows, one per revision of a lease.  A replayed idempotency key changes  *)
(* nothing and is a stutter; expectedRevision only strengthens a guard.    *)
(***************************************************************************)
EXTENDS Naturals, Sequences, FiniteSets

CONSTANTS
  Keys,            \* resource keys; their order is the order of the sweep
  Principals,      \* enabled principals of the space
  Verifiers,       \* those of them that call verifyResourceFence
  None,            \* SQL NULL
  Durations,       \* the leaseMs a caller may ask for
  SweepLimits,     \* the limits a sweep is called with
  ClockStepsBack,  \* whether the wall clock may be set back
  MaxClock, MaxLeases, MaxRev   \* bounds: time, lease rows, revisions of a row

Reasons == {"expired", "released"}

ASSUME ResourceAssumption ==
  /\ Keys \subseteq Nat
  /\ Verifiers \subseteq Principals
  /\ Durations \subseteq Nat \ {0}
  /\ SweepLimits \subseteq Nat \ {0}
  /\ ClockStepsBack \in BOOLEAN
  /\ None \notin Principals \cup Reasons

VARIABLES
  clock,
  leases,     \* resource_lease, a sequence of rows
  checks      \* checks[p]: the row verifyResourceFence of p has read, or None

resourceVars == <<clock, leases, checks>>

LeaseRow ==
  [key : Keys, holder : Principals, fence : Nat, heartbeat : Nat, expires : Nat,
   reason : Reasons \cup {None}, rev : Nat]

ResourceTypeOK ==
  /\ clock \in Nat
  /\ leases \in Seq(LeaseRow)
  /\ checks \in [Verifiers -> [lease : DOMAIN leases, heartbeat : Nat, until : Nat,
                            steady : BOOLEAN] \cup {None}]

ResourceInit ==
  /\ clock = 0
  /\ leases = << >>
  /\ checks = [p \in Verifiers |-> None]

\* Rows of r with released_at IS NULL (liveLease).
Unreleased(r) == {l \in DOMAIN leases : leases[l].key = r /\ leases[l].reason = None}

\* latestLease(...)?.fence ?? 0.
LatestFence(r) ==
  CHOOSE f \in 0..Len(leases) :
    /\ \A l \in DOMAIN leases : leases[l].key = r => leases[l].fence <= f
    /\ f = 0 \/ \E l \in DOMAIN leases : leases[l].key = r /\ leases[l].fence = f

\* assertClockNotBefore, for an unreleased row.
ClockNotBefore(l) == clock >= leases[l].heartbeat

Expire(l) == [leases[l] EXCEPT !.reason = "expired", !.rev = @ + 1]

ExpireAll(L) == [l \in DOMAIN leases |-> IF l \in L THEN Expire(l) ELSE leases[l]]

NewLease(r, p, d, fence) ==
  [key |-> r, holder |-> p, fence |-> fence, heartbeat |-> clock,
   expires |-> clock + d, reason |-> None, rev |-> 1]

-----------------------------------------------------------------------------
\* The history that ValidVerdictIsTheHolders asks about: a clock set back between
\* the two reads of a verification.
Unsteady ==
  [p \in Verifiers |-> IF checks[p] = None THEN None ELSE [checks[p] EXCEPT !.steady = FALSE]]

Tick ==
  /\ \/ clock < MaxClock /\ clock' = clock + 1 /\ UNCHANGED checks
     \/ ClockStepsBack /\ clock > 0 /\ clock' = clock - 1 /\ checks' = Unsteady
  /\ UNCHANGED leases

\* acquireResourceLease on a free key: fence = the latest one plus one.
AcquireFree(p, r, d) ==
  /\ Unreleased(r) = {}
  /\ Len(leases) < MaxLeases
  /\ leases' = Append(leases, NewLease(r, p, d, LatestFence(r) + 1))
  /\ UNCHANGED <<clock, checks>>

\* Wrong on purpose: whether the lease has expired is not asked.
ReclaimEarly(p, r, d) ==
  \E l \in Unreleased(r) :
    /\ ClockNotBefore(l) /\ Len(leases) < MaxLeases
    /\ leases' = Append(ExpireAll({l}), NewLease(r, p, d, leases[l].fence + 1))
    /\ UNCHANGED <<clock, checks>>

\* acquireResourceLease on an expired lease: it is expired in the same
\* transaction and its fence plus one is granted ("reclaimed").  A live lease
\* of the caller changes nothing ("already_held"), of another refuses.
Reclaim(p, r, d) ==
  \E l \in Unreleased(r) :
    /\ ClockNotBefore(l)
    /\ leases[l].expires <= clock
    /\ Len(leases) < MaxLeases
    /\ leases' = Append(ExpireAll({l}), NewLease(r, p, d, leases[l].fence + 1))
    /\ UNCHANGED <<clock, checks>>

\* Wrong on purpose: neither check keeps a clock that was set back from renewing.
RenewByAnyClock(p, r, d) ==
  \E l \in Unreleased(r) :
    /\ clock < leases[l].expires /\ leases[l].holder = p /\ leases[l].rev < MaxRev
    /\ leases' = [leases EXCEPT ![l].heartbeat = clock, ![l].expires = clock + d,
                                ![l].rev = @ + 1]
    /\ UNCHANGED <<clock, checks>>

\* renewResourceLease: assertOwned, and the trigger's demand that heartbeat and
\* expiry both move forward (else the transaction aborts).
Renew(p, r, d) ==
  \E l \in Unreleased(r) :
    /\ ClockNotBefore(l)
    /\ clock < leases[l].expires
    /\ leases[l].holder = p
    /\ clock > leases[l].heartbeat
    /\ clock + d > leases[l].expires
    /\ leases[l].rev < MaxRev
    /\ leases' = [leases EXCEPT ![l].heartbeat = clock, ![l].expires = clock + d,
                                ![l].rev = @ + 1]
    /\ UNCHANGED <<clock, checks>>

\* releaseResourceLease: by its holder, recorded as expired when it is too late.
Release(p, r) ==
  \E l \in Unreleased(r) :
    /\ ClockNotBefore(l)
    /\ leases[l].holder = p
    /\ leases' = IF leases[l].expires <= clock
                 THEN ExpireAll({l})
                 ELSE [leases EXCEPT ![l].reason = "released", ![l].rev = @ + 1]
    /\ UNCHANGED <<clock, checks>>

Expired == {l \in DOMAIN leases : leases[l].reason = None /\ leases[l].expires <= clock}

\* ORDER BY expires_at, resource_key.
SweptBefore(l, m) ==
  \/ leases[l].expires < leases[m].expires
  \/ leases[l].expires = leases[m].expires /\ leases[l].key < leases[m].key

\* sweepExpiredResources: the first `limit` expired leases, in one transaction.
Sweep(limit) ==
  \E L \in SUBSET Expired :
    /\ L # {}
    /\ Cardinality(L) = limit \/ (L = Expired /\ Cardinality(L) < limit)
    /\ \A l \in L, m \in Expired \ L : SweptBefore(l, m)
    /\ \A l \in L : ClockNotBefore(l)
    /\ leases' = ExpireAll(L)
    /\ UNCHANGED <<clock, checks>>

\* verifyResourceFence, first await: the unreleased row as it is now.
VerifyRead(p, r) ==
  \E l \in Unreleased(r) :
    /\ checks[p] = None
    /\ checks' = [checks EXCEPT ![p] =
         [lease |-> l, heartbeat |-> leases[l].heartbeat, until |-> leases[l].expires,
          steady |-> TRUE]]
    /\ UNCHANGED <<clock, leases>>

\* The answer is computed from that row and the clock of now.
VerdictValid(p) ==
  /\ checks[p] # None
  /\ leases[checks[p].lease].holder = p
  /\ checks[p].heartbeat <= clock /\ clock < checks[p].until

VerifyReply(p) ==
  /\ checks[p] # None
  /\ checks' = [checks EXCEPT ![p] = None]
  /\ UNCHANGED <<clock, leases>>

ResourceNext ==
  \/ Tick
  \/ \E limit \in SweepLimits : Sweep(limit)
  \/ \E p \in Principals, r \in Keys :
       \/ \E d \in Durations : AcquireFree(p, r, d) \/ Reclaim(p, r, d) \/ Renew(p, r, d)
       \/ Release(p, r)
  \/ \E p \in Verifiers : VerifyReply(p) \/ \E r \in Keys : VerifyRead(p, r)

ResourceSpec == ResourceInit /\ [][ResourceNext]_resourceVars

-----------------------------------------------------------------------------
(* What the service promises. *)

\* verifyResourceFence answers from a row it read before the clock.  When it
\* answers "valid", the row is nevertheless still unreleased, or its own holder
\* released it meanwhile: nobody else can have taken the resource from the
\* caller, unless the clock was set back between the two reads.
ValidVerdictIsTheHolders ==
  \A p \in Verifiers :
    VerdictValid(p) /\ checks[p].steady =>
      leases[checks[p].lease].reason \in {None, "released"}

\* The implemented promise.
Current(r) == CHOOSE l \in Unreleased(r) : TRUE

LeaseOf(r) ==
  IF Unreleased(r) = {}
  THEN [holder |-> None, fence |-> LatestFence(r), until |-> 0]
  ELSE [holder |-> leases[Current(r)].holder, fence |-> leases[Current(r)].fence,
        until |-> leases[Current(r)].expires]

Lock == INSTANCE FencedLease
          WITH Resources <- Keys, Holders <- Principals, Nobody <- None,
               time <- clock, lease <- [r \in Keys |-> LeaseOf(r)]

\* Every history of resource leases is a history of the abstract fenced lease:
\* a key changes hands only when no lease on it is in force, with a larger fence.
ImplementsFencedLease == Lock!LeaseSpec
=============================================================================
