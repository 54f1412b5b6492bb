------------------------ MODULE ResourceLeasesProofs ------------------------
(***************************************************************************)
(* Proofs about ResourceLeases, for every set of keys and principals,      *)
(* every duration and bound, and a clock that may be set back at any time. *)
(***************************************************************************)
EXTENDS ResourceLeases, SequenceTheorems, WellFoundedInduction, TLAPS

\* The rows of a well-typed table.
LEMMA LeaseRows ==
  ASSUME ResourceTypeOK
  PROVE  /\ Len(leases) \in Nat /\ DOMAIN leases = 1..Len(leases)
         /\ \A l \in DOMAIN leases : leases[l] \in LeaseRow
         /\ clock \in Nat
BY LenProperties, ElementOfSeq DEF ResourceTypeOK

\* Expiring a set of rows keeps the type of the table and all else of each row.
LEMMA ExpiredRows ==
  ASSUME ResourceTypeOK, NEW L
  PROVE  /\ ExpireAll(L) \in Seq(LeaseRow) /\ Len(ExpireAll(L)) = Len(leases)
         /\ DOMAIN ExpireAll(L) = DOMAIN leases
         /\ \A l \in DOMAIN leases :
              /\ ExpireAll(L)[l].key = leases[l].key /\ ExpireAll(L)[l].fence = leases[l].fence
              /\ ExpireAll(L)[l].holder = leases[l].holder
              /\ ExpireAll(L)[l].expires = leases[l].expires
              /\ ExpireAll(L)[l].reason = IF l \in L THEN "expired" ELSE leases[l].reason
<1>1. /\ Len(leases) \in Nat /\ DOMAIN leases = 1..Len(leases)
      /\ \A l \in DOMAIN leases : leases[l] \in LeaseRow
  BY LeaseRows
<1>2. ASSUME NEW l \in DOMAIN leases
      PROVE  /\ Expire(l) \in LeaseRow
             /\ Expire(l).key = leases[l].key /\ Expire(l).fence = leases[l].fence
             /\ Expire(l).holder = leases[l].holder /\ Expire(l).expires = leases[l].expires
             /\ Expire(l).reason = "expired"
  <2>1. leases[l] \in LeaseRow /\ leases[l].rev + 1 \in Nat
    BY <1>1 DEF LeaseRow
  <2> QED BY <2>1 DEF Expire, LeaseRow, Reasons
<1>3. ExpireAll(L) = [l \in 1..Len(leases) |-> IF l \in L THEN Expire(l) ELSE leases[l]]
  BY <1>1 DEF ExpireAll
<1>4. ExpireAll(L) \in Seq(LeaseRow) /\ Len(ExpireAll(L)) = Len(leases)
  BY <1>1, <1>2, <1>3, IsASeq
<1> QED BY <1>1, <1>2, <1>3, <1>4

-----------------------------------------------------------------------------
(* Types. *)

\* A new row is one, whatever number it gets for a fence.
LEMMA NewLeaseType ==
  ASSUME ResourceTypeOK, NEW r \in Keys, NEW p \in Principals, NEW d \in Durations, NEW f \in Nat
  PROVE  /\ NewLease(r, p, d, f) \in LeaseRow
         /\ NewLease(r, p, d, f).key = r /\ NewLease(r, p, d, f).holder = p
         /\ NewLease(r, p, d, f).fence = f /\ NewLease(r, p, d, f).reason = None
         /\ NewLease(r, p, d, f).expires = clock + d
<1>1. clock \in Nat /\ clock + d \in Nat
  BY ResourceAssumption DEF ResourceTypeOK
<1> QED BY <1>1 DEF NewLease, LeaseRow

\* A granted row comes after the others, which expire or stay.
LEMMA AppendedLease ==
  ASSUME ResourceTypeOK, NEW L, NEW new \in LeaseRow, leases' = Append(ExpireAll(L), new)
  PROVE  /\ leases' \in Seq(LeaseRow)
         /\ DOMAIN leases' = 1..(Len(leases) + 1)
         /\ leases'[Len(leases) + 1] = new
         /\ \A l \in DOMAIN leases :
              /\ leases'[l].key = leases[l].key /\ leases'[l].fence = leases[l].fence
              /\ leases'[l].holder = leases[l].holder /\ leases'[l].expires = leases[l].expires
              /\ leases'[l].reason = IF l \in L THEN "expired" ELSE leases[l].reason
<1>1. /\ Len(leases) \in Nat /\ DOMAIN leases = 1..Len(leases)
      /\ ExpireAll(L) \in Seq(LeaseRow) /\ Len(ExpireAll(L)) = Len(leases)
  BY LeaseRows, ExpiredRows
<1>2. /\ leases' \in Seq(LeaseRow) /\ Len(leases') = Len(leases) + 1
      /\ \A l \in 1..Len(leases) : leases'[l] = ExpireAll(L)[l]
      /\ leases'[Len(leases) + 1] = new
  BY <1>1, AppendProperties
<1>3. DOMAIN leases' = 1..(Len(leases) + 1)
  BY <1>2, LenProperties
<1> QED BY <1>1, <1>2, <1>3, ExpiredRows

-----------------------------------------------------------------------------
(* The invariant. *)

\* Fences number the rows of a key: no fence exceeds its row's own number.
FencesBounded == \A l \in DOMAIN leases : leases[l].fence <= l

\* A later row of a key has a larger fence.
FencesGrow ==
  \A l, m \in DOMAIN leases :
    (l < m /\ leases[l].key = leases[m].key) => leases[l].fence < leases[m].fence

\* Only the last row of a key is ever unreleased: at most one lease is live, and its
\* fence is the highest granted.
UnreleasedIsLast ==
  \A r \in Keys : \A l \in Unreleased(r), m \in DOMAIN leases : leases[m].key = r => m <= l

LeaseInv == FencesBounded /\ FencesGrow /\ UnreleasedIsLast

LEMMA OneUnreleased ==
  ASSUME ResourceTypeOK, LeaseInv, NEW r \in Keys, NEW l \in Unreleased(r), NEW m \in Unreleased(r)
  PROVE  l = m
<1>1. l \in DOMAIN leases /\ m \in DOMAIN leases /\ l <= m /\ m <= l
  BY DEF LeaseInv, UnreleasedIsLast, Unreleased
<1> QED BY <1>1, LeaseRows

\* The fences granted on a key so far, and the highest of a set of fences.
Fences(r) == {leases[l].fence : l \in {m \in DOMAIN leases : leases[m].key = r}}

Highest(F, f) == /\ f \in Nat /\ \A x \in F : x <= f
                 /\ f = 0 \/ f \in F

LEMMA HighestIsUnique ==
  ASSUME NEW F \in SUBSET Nat, NEW f, NEW g, Highest(F, f), Highest(F, g)
  PROVE  f = g
BY DEF Highest

\* The fence of the last row is the highest of its key.
LEMMA LastFenceIsHighest ==
  ASSUME ResourceTypeOK, LeaseInv, NEW l \in DOMAIN leases,
         \A m \in DOMAIN leases : leases[m].key = leases[l].key => m <= l
  PROVE  Highest(Fences(leases[l].key), leases[l].fence)
<1>1. /\ DOMAIN leases = 1..Len(leases) /\ Len(leases) \in Nat
      /\ \A m \in DOMAIN leases : leases[m].fence \in Nat
  BY LeaseRows DEF LeaseRow
<1>2. ASSUME NEW m \in DOMAIN leases, leases[m].key = leases[l].key
      PROVE  leases[m].fence <= leases[l].fence
  BY <1>1, <1>2 DEF LeaseInv, FencesGrow
<1> QED BY <1>1, <1>2 DEF Highest, Fences

\* A set of numbers has a least one.
LEMMA LeastNumber ==
  ASSUME NEW S \in SUBSET Nat, S # {}
  PROVE  \E n \in S : \A m \in S : n <= m
<1>1. PICK n \in S : \A m \in S : ~(<<m, n>> \in OpToRel(<, Nat))
  BY NatLessThanWellFounded, WFMin
<1>2. \A m \in S : ~(m < n)
  BY <1>1 DEF OpToRel
<1> QED BY <1>2

\* LatestFence is well defined: the highest fence of the key, or zero.
LEMMA LatestFenceIsHighest ==
  ASSUME ResourceTypeOK, LeaseInv, NEW r \in Keys
  PROVE  /\ Fences(r) \in SUBSET Nat
         /\ Highest(Fences(r), LatestFence(r)) /\ LatestFence(r) \in 0..Len(leases)
<1> DEFINE Bounds == {f \in 0..Len(leases) : \A x \in Fences(r) : x <= f}
           IsLatest(f) == /\ \A l \in DOMAIN leases : leases[l].key = r => leases[l].fence <= f
                          /\ f = 0 \/ \E l \in DOMAIN leases : leases[l].key = r /\ leases[l].fence = f
<1>1. /\ DOMAIN leases = 1..Len(leases) /\ Len(leases) \in Nat
      /\ \A m \in DOMAIN leases : leases[m].fence \in Nat
  BY LeaseRows DEF LeaseRow
<1>2. Fences(r) \in SUBSET Nat /\ \A x \in Fences(r) : x <= Len(leases)
  BY <1>1 DEF Fences, LeaseInv, FencesBounded
<1>3. Len(leases) \in Bounds /\ Bounds \in SUBSET Nat
  BY <1>1, <1>2
<1>4. PICK f \in Bounds : \A g \in Bounds : f <= g
  BY <1>3, LeastNumber
<1>5. f = 0 \/ f \in Fences(r)
  <2> SUFFICES ASSUME f # 0, f \notin Fences(r) PROVE FALSE
    OBVIOUS
  <2>1. f - 1 \in Bounds
    BY <1>1, <1>2, <1>4
  <2> QED BY <1>1, <1>4, <2>1
<1>6. f \in 0..Len(leases) /\ IsLatest(f)
  BY <1>4, <1>5 DEF Fences
<1>7. LatestFence(r) = CHOOSE h \in 0..Len(leases) : IsLatest(h)
  BY DEF LatestFence
<1> HIDE DEF IsLatest
<1>8. LatestFence(r) \in 0..Len(leases) /\ IsLatest(LatestFence(r))
  BY <1>6, <1>7
<1> QED BY <1>1, <1>2, <1>8 DEF IsLatest, Highest, Fences

-----------------------------------------------------------------------------
(* What a step can do to the leases: nothing, end some, renew one or grant   *)
(* one, whichever call it belongs to.                                        *)

\* The rows there were keep their key, holder and fence.
RowsStay ==
  \A l \in DOMAIN leases :
    /\ leases'[l].key = leases[l].key /\ leases'[l].holder = leases[l].holder
    /\ leases'[l].fence = leases[l].fence

\* The unreleased leases L end; only one that has run out is recorded as expired.
LeasesEnd ==
  \E L \in SUBSET DOMAIN leases :
    /\ DOMAIN leases' = DOMAIN leases /\ RowsStay
    /\ \A l \in L :
         /\ leases[l].reason = None /\ leases'[l].reason \in Reasons
         /\ leases'[l].reason = "expired" => leases[l].expires <= clock
    /\ \A l \in DOMAIN leases \ L : leases'[l].reason = leases[l].reason
    /\ \A l \in DOMAIN leases : leases'[l].expires = leases[l].expires
    /\ UNCHANGED <<clock, checks>>

\* The holder of an unreleased lease moves its expiry forward.
LeaseRenewed ==
  \E l \in DOMAIN leases :
    /\ DOMAIN leases' = DOMAIN leases /\ RowsStay
    /\ leases[l].reason = None
    /\ leases'[l].expires >= leases[l].expires
    /\ \A m \in DOMAIN leases : leases'[m].reason = leases[m].reason
    /\ \A m \in DOMAIN leases \ {l} : leases'[m].expires = leases[m].expires
    /\ UNCHANGED <<clock, checks>>

\* A key whose lease, if any, has run out is granted under the next fence.
LeaseGranted ==
  \E r \in Keys, p \in Principals, f \in Nat :
    /\ DOMAIN leases' = 1..(Len(leases) + 1) /\ RowsStay
    /\ \A l \in DOMAIN leases : leases'[l].expires = leases[l].expires
    /\ \A l \in Unreleased(r) : leases[l].expires <= clock /\ leases'[l].reason = "expired"
    /\ \A l \in DOMAIN leases \ Unreleased(r) : leases'[l].reason = leases[l].reason
    /\ Highest(Fences(r), f)
    /\ leases'[Len(leases) + 1].key = r /\ leases'[Len(leases) + 1].holder = p
    /\ leases'[Len(leases) + 1].fence = f + 1 /\ leases'[Len(leases) + 1].reason = None
    /\ UNCHANGED <<clock, checks>>

\* A grant, of a free key or of one whose lease has run out.
LEMMA GrantStep ==
  ASSUME ResourceTypeOK, LeaseInv, NEW r \in Keys, NEW p \in Principals, NEW d \in Durations,
         AcquireFree(p, r, d) \/ Reclaim(p, r, d)
  PROVE  leases' \in Seq(LeaseRow) /\ LeaseGranted
<1>1. CASE AcquireFree(p, r, d)
  <2>1. LatestFence(r) \in Nat /\ Highest(Fences(r), LatestFence(r))
    BY LatestFenceIsHighest, LeaseRows
  <2>2. PICK new \in LeaseRow :
          /\ new = NewLease(r, p, d, LatestFence(r) + 1)
          /\ new.key = r /\ new.holder = p /\ new.fence = LatestFence(r) + 1 /\ new.reason = None
    BY <2>1, NewLeaseType
  <2>3. leases' = Append(ExpireAll({}), new)
    <3>1. ExpireAll({}) = leases
      BY LeaseRows DEF ExpireAll, ResourceTypeOK
    <3> QED BY <1>1, <2>2, <3>1 DEF AcquireFree
  <2>4. /\ leases' \in Seq(LeaseRow)
        /\ DOMAIN leases' = 1..(Len(leases) + 1)
        /\ leases'[Len(leases) + 1] = new
        /\ \A l \in DOMAIN leases :
              /\ leases'[l].key = leases[l].key /\ leases'[l].fence = leases[l].fence
              /\ leases'[l].holder = leases[l].holder /\ leases'[l].expires = leases[l].expires
              /\ leases'[l].reason = leases[l].reason
    BY <2>3, AppendedLease
  <2> QED BY <1>1, <2>1, <2>2, <2>4 DEF AcquireFree, LeaseGranted, RowsStay
<1>2. CASE Reclaim(p, r, d)
  <2>1. PICK l \in Unreleased(r) :
          /\ leases[l].expires <= clock
          /\ leases' = Append(ExpireAll({l}), NewLease(r, p, d, leases[l].fence + 1))
          /\ UNCHANGED <<clock, checks>>
    BY <1>2 DEF Reclaim
  <2>2. /\ l \in DOMAIN leases /\ leases[l].key = r
        /\ \A m \in DOMAIN leases : leases[m].key = r => m <= l
    BY DEF Unreleased, LeaseInv, UnreleasedIsLast
  <2>3. Highest(Fences(r), leases[l].fence) /\ leases[l].fence \in Nat
    BY <2>2, LastFenceIsHighest, LeaseRows DEF LeaseRow
  <2>4. PICK new \in LeaseRow :
          /\ new = NewLease(r, p, d, leases[l].fence + 1)
          /\ new.key = r /\ new.holder = p /\ new.fence = leases[l].fence + 1 /\ new.reason = None
    BY <2>3, NewLeaseType
  <2>5. Unreleased(r) = {l}
    BY OneUnreleased
  <2>6. /\ leases' \in Seq(LeaseRow)
        /\ DOMAIN leases' = 1..(Len(leases) + 1)
        /\ leases'[Len(leases) + 1] = new
        /\ \A m \in DOMAIN leases :
              /\ leases'[m].key = leases[m].key /\ leases'[m].fence = leases[m].fence
              /\ leases'[m].holder = leases[m].holder /\ leases'[m].expires = leases[m].expires
              /\ leases'[m].reason = IF m \in {l} THEN "expired" ELSE leases[m].reason
    BY <2>1, <2>4, AppendedLease
  <2>7. /\ \A m \in Unreleased(r) : leases[m].expires <= clock /\ leases'[m].reason = "expired"
        /\ \A m \in DOMAIN leases \ Unreleased(r) : leases'[m].reason = leases[m].reason
    BY <2>1, <2>2, <2>5, <2>6
  <2>8. RowsStay /\ \A m \in DOMAIN leases : leases'[m].expires = leases[m].expires
    BY <2>6 DEF RowsStay
  <2>9. /\ DOMAIN leases' = 1..(Len(leases) + 1)
        /\ leases'[Len(leases) + 1].key = r /\ leases'[Len(leases) + 1].holder = p
        /\ leases'[Len(leases) + 1].fence = leases[l].fence + 1
        /\ leases'[Len(leases) + 1].reason = None
    BY <2>4, <2>6
  <2>10. LeaseGranted
    BY <2>1, <2>3, <2>7, <2>8, <2>9 DEF LeaseGranted
  <2> QED BY <2>6, <2>10
<1> QED BY <1>1, <1>2

\* A release or a sweep.
LEMMA EndStep ==
  ASSUME ResourceTypeOK,
         \/ \E limit \in SweepLimits : Sweep(limit)
         \/ \E p \in Principals, r \in Keys : Release(p, r)
  PROVE  leases' \in Seq(LeaseRow) /\ LeasesEnd
<1>1. ASSUME NEW L \in SUBSET DOMAIN leases, leases' = ExpireAll(L), UNCHANGED <<clock, checks>>,
             \A l \in L : leases[l].reason = None /\ leases[l].expires <= clock
      PROVE  leases' \in Seq(LeaseRow) /\ LeasesEnd
  <2>1. /\ leases' \in Seq(LeaseRow) /\ DOMAIN leases' = DOMAIN leases
         /\ \A l \in DOMAIN leases :
              /\ leases'[l].key = leases[l].key /\ leases'[l].fence = leases[l].fence
              /\ leases'[l].holder = leases[l].holder
              /\ leases'[l].expires = leases[l].expires
              /\ leases'[l].reason = IF l \in L THEN "expired" ELSE leases[l].reason
    BY <1>1, ExpiredRows
  <2> QED BY <1>1, <2>1 DEF LeasesEnd, RowsStay, Reasons
<1>2. ASSUME NEW limit \in SweepLimits, Sweep(limit)
      PROVE  leases' \in Seq(LeaseRow) /\ LeasesEnd
  BY <1>1, <1>2 DEF Sweep, Expired
<1>3. ASSUME NEW p \in Principals, NEW r \in Keys, Release(p, r)
      PROVE  leases' \in Seq(LeaseRow) /\ LeasesEnd
  <2>1. PICK l \in Unreleased(r) :
          /\ leases' = IF leases[l].expires <= clock
                       THEN ExpireAll({l})
                       ELSE [leases EXCEPT ![l].reason = "released", ![l].rev = @ + 1]
          /\ UNCHANGED <<clock, checks>>
    BY <1>3 DEF Release
  <2>2. l \in DOMAIN leases /\ leases[l].reason = None
    BY DEF Unreleased
  <2>3. CASE leases[l].expires <= clock
    <3>1. leases' = ExpireAll({l}) /\ UNCHANGED <<clock, checks>>
      BY <2>1, <2>3
    <3>2. /\ {l} \in SUBSET DOMAIN leases
          /\ \A m \in {l} : leases[m].reason = None /\ leases[m].expires <= clock
      BY <2>2, <2>3
    <3> QED BY <1>1, <3>1, <3>2
  <2>4. CASE ~(leases[l].expires <= clock)
    <3> DEFINE released == [leases[l] EXCEPT !.reason = "released", !.rev = @ + 1]
    <3>1. leases[l] \in LeaseRow /\ leases[l].rev + 1 \in Nat
      BY <2>2, LeaseRows DEF LeaseRow
    <3>2. /\ released \in LeaseRow
          /\ released.key = leases[l].key /\ released.fence = leases[l].fence
          /\ released.holder = leases[l].holder /\ released.expires = leases[l].expires
          /\ released.reason = "released"
      BY <3>1 DEF LeaseRow, Reasons
    <3>3. leases' = [leases EXCEPT ![l] = released]
      BY <2>1, <2>4
    <3> HIDE DEF released
    <3>4. /\ DOMAIN leases' = DOMAIN leases /\ leases'[l] = released
          /\ \A m \in DOMAIN leases \ {l} : leases'[m] = leases[m]
      BY <2>2, <3>3
    <3>5. leases' \in Seq(LeaseRow)
      BY <2>2, <3>2, <3>3, ExceptSeq, LeaseRows DEF ResourceTypeOK
    <3>6. RowsStay /\ \A m \in DOMAIN leases : leases'[m].expires = leases[m].expires
      BY <3>2, <3>4 DEF RowsStay
    <3>7. /\ \A m \in {l} : /\ leases[m].reason = None /\ leases'[m].reason \in Reasons
                            /\ leases'[m].reason = "expired" => leases[m].expires <= clock
          /\ \A m \in DOMAIN leases \ {l} : leases'[m].reason = leases[m].reason
      BY <2>2, <3>2, <3>4 DEF Reasons
    <3>8. {l} \in SUBSET DOMAIN leases /\ UNCHANGED <<clock, checks>>
      BY <2>1, <2>2
    <3>9. LeasesEnd
      BY <3>4, <3>6, <3>7, <3>8 DEF LeasesEnd
    <3> QED BY <3>5, <3>9
  <2> QED BY <2>3, <2>4
<1> QED BY <1>2, <1>3

\* A renewal.
LEMMA RenewStep ==
  ASSUME ResourceTypeOK, NEW p \in Principals, NEW r \in Keys, NEW d \in Durations, Renew(p, r, d)
  PROVE  leases' \in Seq(LeaseRow) /\ LeaseRenewed
<1>1. PICK l \in Unreleased(r) :
        /\ clock + d > leases[l].expires
        /\ leases' = [leases EXCEPT ![l].heartbeat = clock, ![l].expires = clock + d, ![l].rev = @ + 1]
        /\ UNCHANGED <<clock, checks>>
  BY DEF Renew
<1>2. l \in DOMAIN leases /\ leases[l].reason = None
  BY DEF Unreleased
<1> DEFINE renewed == [leases[l] EXCEPT !.heartbeat = clock, !.expires = clock + d, !.rev = @ + 1]
<1>3. /\ leases[l] \in LeaseRow /\ leases[l].rev + 1 \in Nat
      /\ clock \in Nat /\ clock + d \in Nat /\ leases[l].expires \in Nat
  BY <1>2, LeaseRows, ResourceAssumption DEF LeaseRow
<1>4. /\ renewed \in LeaseRow
      /\ renewed.key = leases[l].key /\ renewed.fence = leases[l].fence
      /\ renewed.holder = leases[l].holder /\ renewed.reason = leases[l].reason
      /\ renewed.expires = clock + d
  BY <1>3 DEF LeaseRow
<1>5. leases' = [leases EXCEPT ![l] = renewed]
  BY <1>1
<1> HIDE DEF renewed
<1>6. /\ DOMAIN leases' = DOMAIN leases /\ leases'[l] = renewed
      /\ \A m \in DOMAIN leases \ {l} : leases'[m] = leases[m]
  BY <1>2, <1>5
<1>7. leases' \in Seq(LeaseRow)
  BY <1>2, <1>4, <1>5, ExceptSeq, LeaseRows DEF ResourceTypeOK
<1>8. RowsStay /\ \A m \in DOMAIN leases : leases'[m].reason = leases[m].reason
  BY <1>4, <1>6 DEF RowsStay
<1> QED BY <1>1, <1>2, <1>3, <1>4, <1>6, <1>7, <1>8 DEF LeaseRenewed

\* Whatever call runs, the table is left alone or does one of these.
LEMMA LeaseSteps ==
  ResourceTypeOK /\ LeaseInv /\ [ResourceNext]_resourceVars =>
    /\ leases' \in Seq(LeaseRow)
    /\ UNCHANGED leases \/ LeasesEnd \/ LeaseRenewed \/ LeaseGranted
<1> SUFFICES ASSUME ResourceTypeOK, LeaseInv, [ResourceNext]_resourceVars
             PROVE  /\ leases' \in Seq(LeaseRow)
                    /\ UNCHANGED leases \/ LeasesEnd \/ LeaseRenewed \/ LeaseGranted
  OBVIOUS
<1>1. CASE UNCHANGED leases
  BY <1>1 DEF ResourceTypeOK
<1>2. CASE \E limit \in SweepLimits : Sweep(limit)
  BY <1>2, EndStep
<1>3. ASSUME NEW p \in Principals, NEW r \in Keys,
             \/ \E d \in Durations : AcquireFree(p, r, d) \/ Reclaim(p, r, d) \/ Renew(p, r, d)
             \/ Release(p, r)
      PROVE  leases' \in Seq(LeaseRow) /\ (LeasesEnd \/ LeaseRenewed \/ LeaseGranted)
  BY <1>3, GrantStep, RenewStep, EndStep
<1>4. CASE Tick \/ UNCHANGED resourceVars
           \/ \E p \in Verifiers : VerifyReply(p) \/ \E r \in Keys : VerifyRead(p, r)
  BY <1>1, <1>4 DEF Tick, resourceVars, VerifyReply, VerifyRead
<1> QED BY <1>2, <1>3, <1>4 DEF ResourceNext

\* A check that is being answered points at a row.
CheckRecord == [lease : DOMAIN leases, heartbeat : Nat, until : Nat, steady : BOOLEAN]

\* What a step can do to the checks.
LEMMA CheckSteps ==
  ResourceTypeOK /\ LeaseInv /\ [ResourceNext]_resourceVars =>
    /\ clock' \in Nat
    /\ checks' \in [Verifiers -> CheckRecord \cup {None}]
    /\ \A p \in Verifiers :
         checks'[p] # None /\ checks'[p].steady =>
           \/ /\ checks[p] # None /\ checks[p].steady
              /\ checks'[p].lease = checks[p].lease /\ checks'[p].until = checks[p].until
              /\ clock' >= clock
           \/ /\ leases[checks'[p].lease].reason = None
              /\ checks'[p].until = leases[checks'[p].lease].expires
              /\ checks'[p].lease \in DOMAIN leases
              /\ UNCHANGED <<clock, leases>>
<1> SUFFICES ASSUME ResourceTypeOK, LeaseInv, [ResourceNext]_resourceVars
             PROVE  /\ clock' \in Nat
                    /\ checks' \in [Verifiers -> CheckRecord \cup {None}]
                    /\ \A p \in Verifiers :
                         checks'[p] # None /\ checks'[p].steady =>
                           \/ /\ checks[p] # None /\ checks[p].steady
                              /\ checks'[p].lease = checks[p].lease
                              /\ checks'[p].until = checks[p].until
                              /\ clock' >= clock
                           \/ /\ leases[checks'[p].lease].reason = None
                              /\ checks'[p].until = leases[checks'[p].lease].expires
                              /\ checks'[p].lease \in DOMAIN leases
                              /\ UNCHANGED <<clock, leases>>
  OBVIOUS
<1>1. clock \in Nat /\ checks \in [Verifiers -> CheckRecord \cup {None}]
  BY DEF ResourceTypeOK, CheckRecord
<1>2. CASE UNCHANGED <<clock, checks>>
  BY <1>1, <1>2
<1>3. CASE Tick
  <2>1. CASE clock < MaxClock /\ clock' = clock + 1 /\ UNCHANGED checks
    BY <1>1, <2>1
  <2>2. CASE clock > 0 /\ clock' = clock - 1 /\ checks' = Unsteady
    <3>1. \A p \in Verifiers :
            checks[p] # None => /\ [checks[p] EXCEPT !.steady = FALSE] \in CheckRecord
                                /\ ~[checks[p] EXCEPT !.steady = FALSE].steady
      BY <1>1 DEF CheckRecord
    <3>2. \A p \in Verifiers : checks'[p] = IF checks[p] = None THEN None
                                            ELSE [checks[p] EXCEPT !.steady = FALSE]
      BY <2>2 DEF Unsteady
    <3>3. checks' \in [Verifiers -> CheckRecord \cup {None}]
      BY <1>1, <2>2, <3>1 DEF Unsteady
    <3>4. \A p \in Verifiers : ~(checks'[p] # None /\ checks'[p].steady)
      BY <3>1, <3>2
    <3>5. clock' \in Nat
      BY <1>1, <2>2
    <3> QED BY <3>3, <3>4, <3>5
  <2> QED BY <1>3, <2>1, <2>2 DEF Tick
<1>4. ASSUME NEW q \in Verifiers, NEW r \in Keys, VerifyRead(q, r)
      PROVE  /\ checks' \in [Verifiers -> CheckRecord \cup {None}]
             /\ UNCHANGED <<clock, leases>>
             /\ checks'[q] # None => /\ leases[checks'[q].lease].reason = None
                                     /\ checks'[q].until = leases[checks'[q].lease].expires
                                     /\ checks'[q].lease \in DOMAIN leases
             /\ \A p \in Verifiers \ {q} : checks'[p] = checks[p]
  <2>1. PICK l \in Unreleased(r) :
          /\ checks' = [checks EXCEPT ![q] =
               [lease |-> l, heartbeat |-> leases[l].heartbeat, until |-> leases[l].expires,
                steady |-> TRUE]]
          /\ UNCHANGED <<clock, leases>>
    BY <1>4 DEF VerifyRead
  <2>2. l \in DOMAIN leases /\ leases[l].reason = None
    BY DEF Unreleased
  <2>3. leases[l].heartbeat \in Nat /\ leases[l].expires \in Nat
    BY <2>2, LeaseRows DEF LeaseRow
  <2>4. [lease |-> l, heartbeat |-> leases[l].heartbeat, until |-> leases[l].expires,
                steady |-> TRUE] \in CheckRecord
    BY <2>2, <2>3 DEF CheckRecord
  <2> QED BY <1>1, <2>1, <2>2, <2>4
<1>5. ASSUME NEW q \in Verifiers, NEW r \in Keys, VerifyRead(q, r), NEW p \in Verifiers,
             checks'[p] # None, checks'[p].steady
      PROVE  \/ /\ checks[p] # None /\ checks[p].steady
                /\ checks'[p].lease = checks[p].lease /\ checks'[p].until = checks[p].until
                /\ clock' >= clock
             \/ /\ leases[checks'[p].lease].reason = None
                /\ checks'[p].until = leases[checks'[p].lease].expires
                /\ checks'[p].lease \in DOMAIN leases
                /\ UNCHANGED <<clock, leases>>
  BY <1>1, <1>4, <1>5
<1>6. ASSUME NEW q \in Verifiers, VerifyReply(q)
      PROVE  /\ checks' \in [Verifiers -> CheckRecord \cup {None}] /\ UNCHANGED clock
             /\ \A p \in Verifiers : checks'[p] = None \/ checks'[p] = checks[p]
  BY <1>1, <1>6 DEF VerifyReply
<1>7. CASE \E limit \in SweepLimits : Sweep(limit)
  BY <1>2, <1>7 DEF Sweep
<1>8. CASE \E p \in Principals, r \in Keys :
             \/ \E d \in Durations : AcquireFree(p, r, d) \/ Reclaim(p, r, d) \/ Renew(p, r, d)
             \/ Release(p, r)
  <2>1. ASSUME NEW p \in Principals, NEW r \in Keys, NEW d \in Durations,
               AcquireFree(p, r, d) \/ Reclaim(p, r, d) \/ Renew(p, r, d)
        PROVE  UNCHANGED <<clock, checks>>
    <3>1. CASE AcquireFree(p, r, d)
      BY <3>1 DEF AcquireFree
    <3>2. CASE Reclaim(p, r, d)
      BY <3>2 DEF Reclaim
    <3>3. CASE Renew(p, r, d)
      BY <3>3 DEF Renew
    <3> QED BY <2>1, <3>1, <3>2, <3>3
  <2>2. ASSUME NEW p \in Principals, NEW r \in Keys, Release(p, r)
        PROVE  UNCHANGED <<clock, checks>>
    BY <2>2 DEF Release
  <2> QED BY <1>2, <1>8, <2>1, <2>2
<1>9. CASE \E q \in Verifiers : VerifyReply(q)
  BY <1>1, <1>6, <1>9
<1>10. CASE \E q \in Verifiers, r \in Keys : VerifyRead(q, r)
  BY <1>1, <1>4, <1>5, <1>10
<1> QED BY <1>2, <1>3, <1>7, <1>8, <1>9, <1>10 DEF ResourceNext, resourceVars

\* Rows are only added, so a check keeps pointing at one.
LEMMA TypeStep ==
  ResourceTypeOK /\ LeaseInv /\ [ResourceNext]_resourceVars => ResourceTypeOK'
<1> SUFFICES ASSUME ResourceTypeOK, LeaseInv, [ResourceNext]_resourceVars PROVE ResourceTypeOK'
  OBVIOUS
<1>1. DOMAIN leases \subseteq DOMAIN leases'
  BY LeaseSteps, LeaseRows DEF LeasesEnd, LeaseRenewed, LeaseGranted
<1>2. CheckRecord \subseteq CheckRecord'
  BY <1>1 DEF CheckRecord
<1>3. checks' \in [Verifiers -> CheckRecord' \cup {None}]
  BY <1>2, CheckSteps
<1> QED BY <1>3, LeaseSteps, CheckSteps DEF ResourceTypeOK, CheckRecord

\* Every step keeps the invariant of the table.
LEMMA LeaseInvStep ==
  ResourceTypeOK /\ LeaseInv /\ [ResourceNext]_resourceVars => LeaseInv'
<1> SUFFICES ASSUME ResourceTypeOK, LeaseInv, [ResourceNext]_resourceVars PROVE LeaseInv'
  OBVIOUS
<1>1. ASSUME DOMAIN leases' = DOMAIN leases, RowsStay,
             \A l \in DOMAIN leases : leases'[l].reason = None => leases[l].reason = None
      PROVE  LeaseInv'
  <2>1. FencesBounded' /\ FencesGrow'
    BY <1>1 DEF RowsStay, LeaseInv, FencesBounded, FencesGrow
  <2>2. UnreleasedIsLast'
    BY <1>1 DEF RowsStay, LeaseInv, UnreleasedIsLast, Unreleased
  <2> QED BY <2>1, <2>2 DEF LeaseInv
<1>2. CASE UNCHANGED leases
  BY <1>2 DEF LeaseInv, FencesBounded, FencesGrow, UnreleasedIsLast, Unreleased
<1>3. CASE LeasesEnd
  BY <1>1, <1>3, ResourceAssumption DEF LeasesEnd
<1>4. CASE LeaseRenewed
  BY <1>1, <1>4 DEF LeaseRenewed
<1>5. CASE LeaseGranted
  <2> DEFINE n == Len(leases)
  <2>1. PICK r \in Keys, p \in Principals, f \in Nat :
          /\ DOMAIN leases' = 1..(n + 1) /\ RowsStay
          /\ \A l \in Unreleased(r) : leases'[l].reason = "expired"
          /\ \A l \in DOMAIN leases \ Unreleased(r) : leases'[l].reason = leases[l].reason
          /\ Highest(Fences(r), f)
          /\ leases'[n + 1].key = r
          /\ leases'[n + 1].fence = f + 1 /\ leases'[n + 1].reason = None
    BY <1>5 DEF LeaseGranted
  <2>2. /\ n \in Nat /\ DOMAIN leases = 1..n
        /\ \A l \in 1..n : leases[l].fence \in Nat
    BY LeaseRows DEF LeaseRow
  <2> HIDE DEF n
  <2>3. /\ \A l \in 1..n : leases[l].key = r => leases[l].fence < f + 1
        /\ f <= n
    <3>1. \A l \in 1..n : leases[l].key = r => leases[l].fence \in Fences(r)
      BY <2>2 DEF Fences
    <3>2. \A x \in Fences(r) : x <= n
      BY <2>2 DEF Fences, LeaseInv, FencesBounded
    <3> QED BY <2>1, <2>2, <3>1, <3>2 DEF Highest
  <2>4. FencesBounded'
    BY <2>1, <2>2, <2>3 DEF FencesBounded, LeaseInv, RowsStay
  <2>5. FencesGrow'
    <3> SUFFICES ASSUME NEW l \in 1..(n + 1), NEW m \in 1..(n + 1), l < m,
                        leases'[l].key = leases'[m].key
                 PROVE  leases'[l].fence < leases'[m].fence
      BY <2>1 DEF FencesGrow
    <3>1. l \in 1..n
      BY <2>2
    <3>2. CASE m \in 1..n
      BY <3>1, <3>2, <2>1, <2>2 DEF RowsStay, LeaseInv, FencesGrow
    <3>3. CASE m = n + 1
      BY <3>1, <3>3, <2>1, <2>2, <2>3 DEF RowsStay
    <3> QED BY <3>2, <3>3, <2>2
  <2>6. UnreleasedIsLast'
    <3> SUFFICES ASSUME NEW s \in Keys, NEW l \in Unreleased(s)', NEW m \in 1..(n + 1),
                        leases'[m].key = s
                 PROVE  m <= l
      BY <2>1 DEF UnreleasedIsLast
    <3>1. l \in 1..(n + 1) /\ leases'[l].key = s /\ leases'[l].reason = None
      BY <2>1 DEF Unreleased
    <3>2. CASE l = n + 1
      BY <3>2, <2>2
    <3>3. CASE l \in 1..n
      <4>1. l \notin Unreleased(r)
        BY <2>1, <3>1, ResourceAssumption DEF Reasons
      <4>2. leases[l].key = s /\ leases[l].reason = None
        BY <2>1, <2>2, <3>1, <3>3, <4>1 DEF RowsStay
      <4>3. l \in Unreleased(s) /\ s # r
        BY <2>2, <3>3, <4>1, <4>2 DEF Unreleased
      <4>4. m \in 1..n /\ leases[m].key = s
        BY <2>1, <2>2, <4>3 DEF RowsStay
      <4> QED BY <2>2, <4>3, <4>4 DEF LeaseInv, UnreleasedIsLast
    <3> QED BY <3>1, <3>2, <3>3, <2>2
  <2> QED BY <2>4, <2>5, <2>6 DEF LeaseInv
<1> QED BY <1>2, <1>3, <1>4, <1>5, LeaseSteps

-----------------------------------------------------------------------------
(* The theorems about types and verdicts. *)

LEMMA ResourceInitially == ResourceInit => ResourceTypeOK /\ LeaseInv
<1> SUFFICES ASSUME ResourceInit PROVE ResourceTypeOK /\ LeaseInv
  OBVIOUS
<1>1. DOMAIN leases = {} /\ leases \in Seq(LeaseRow)
  BY EmptySeq, LenProperties DEF ResourceInit
<1> QED BY <1>1 DEF ResourceInit, ResourceTypeOK, LeaseInv, FencesBounded, FencesGrow,
                    UnreleasedIsLast, Unreleased

\* Types and the invariant of the table hold in every reachable state.
LEMMA ResourceInvariant == ResourceSpec => [](ResourceTypeOK /\ LeaseInv)
<1>1. ResourceTypeOK /\ LeaseInv /\ [ResourceNext]_resourceVars => (ResourceTypeOK /\ LeaseInv)'
  BY TypeStep, LeaseInvStep
<1> QED BY <1>1, ResourceInitially, PTL DEF ResourceSpec

\* No call stores a reason, a holder or a time outside its column's domain, and a
\* verification in flight always points at a row that exists.
THEOREM ResourceTypes == ResourceSpec => []ResourceTypeOK
BY ResourceInvariant, PTL

\* Why a verdict can be trusted: since the row was read its expiry only moved
\* forward, so while the clock is steady the row was recorded as expired only when
\* the expiry that was read had passed.
CheckInv ==
  \A p \in Verifiers :
    checks[p] # None /\ checks[p].steady =>
      /\ leases[checks[p].lease].expires >= checks[p].until
      /\ leases[checks[p].lease].reason = "expired" => checks[p].until <= clock

LEMMA CheckInvStep ==
  ResourceTypeOK /\ LeaseInv /\ CheckInv /\ [ResourceNext]_resourceVars => CheckInv'
<1> SUFFICES ASSUME ResourceTypeOK, LeaseInv, CheckInv, [ResourceNext]_resourceVars,
                    NEW p \in Verifiers, checks'[p] # None, checks'[p].steady
             PROVE  /\ leases'[checks'[p].lease].expires >= checks'[p].until
                    /\ leases'[checks'[p].lease].reason = "expired" => checks'[p].until <= clock'
  BY DEF CheckInv
<1>1. CASE /\ leases[checks'[p].lease].reason = None
           /\ checks'[p].until = leases[checks'[p].lease].expires
           /\ checks'[p].lease \in DOMAIN leases
           /\ UNCHANGED <<clock, leases>>
  <2>1. leases[checks'[p].lease].expires \in Nat
    BY <1>1, LeaseRows DEF LeaseRow
  <2> QED BY <1>1, <2>1, ResourceAssumption DEF Reasons
<1>2. CASE /\ checks[p] # None /\ checks[p].steady
           /\ checks'[p].lease = checks[p].lease /\ checks'[p].until = checks[p].until
           /\ clock' >= clock
  <2>1. PICK l \in DOMAIN leases : l = checks[p].lease /\ checks[p].until \in Nat
    BY <1>2 DEF ResourceTypeOK
  <2>2. /\ leases[l].expires \in Nat /\ clock \in Nat /\ clock' \in Nat
        /\ leases[l].expires >= checks[p].until
        /\ leases[l].reason = "expired" => checks[p].until <= clock
    BY <1>2, <2>1, LeaseRows, CheckSteps DEF LeaseRow, CheckInv
  <2>3. /\ leases'[l].expires >= leases[l].expires
        /\ \/ leases'[l].reason = leases[l].reason
           \/ leases'[l].reason = "expired" => leases[l].expires <= clock
    <3>1. CASE UNCHANGED leases
      BY <2>2, <3>1
    <3>2. CASE LeasesEnd
      BY <2>2, <3>2 DEF LeasesEnd
    <3>3. CASE LeaseRenewed
      BY <2>2, <3>3 DEF LeaseRenewed
    <3>4. CASE LeaseGranted
      BY <2>2, <3>4 DEF LeaseGranted
    <3> QED BY <3>1, <3>2, <3>3, <3>4, LeaseSteps
  <2>4. leases'[l].expires \in Nat
    <3>1. DOMAIN leases \subseteq DOMAIN leases' /\ leases' \in Seq(LeaseRow)
      BY LeaseSteps, LeaseRows DEF LeasesEnd, LeaseRenewed, LeaseGranted
    <3>2. leases'[l] \in LeaseRow
      BY <3>1, ElementOfSeq, LenProperties
    <3> QED BY <3>2 DEF LeaseRow
  <2> QED BY <1>2, <2>1, <2>2, <2>3, <2>4
<1> QED BY <1>1, <1>2, CheckSteps

\* A verification that answers "valid" from a row it read before the clock is right
\* about the holder: the row is unreleased, or its own holder has released it
\* meanwhile, however many callers act between the two reads.
THEOREM ValidVerdictsHold == ResourceSpec => []ValidVerdictIsTheHolders
<1>1. ResourceInit => CheckInv
  BY DEF ResourceInit, CheckInv
<1>2. ResourceTypeOK /\ LeaseInv /\ CheckInv /\ [ResourceNext]_resourceVars => CheckInv'
  BY CheckInvStep
<1>3. ResourceTypeOK /\ CheckInv => ValidVerdictIsTheHolders
  <2> SUFFICES ASSUME ResourceTypeOK, CheckInv, NEW p \in Verifiers, VerdictValid(p),
                      checks[p].steady
               PROVE  leases[checks[p].lease].reason \in {None, "released"}
    BY DEF ValidVerdictIsTheHolders
  <2>1. checks[p] # None /\ clock < checks[p].until
    BY DEF VerdictValid
  <2>2. checks[p].lease \in DOMAIN leases /\ checks[p].until \in Nat /\ clock \in Nat
    BY <2>1 DEF ResourceTypeOK
  <2>3. leases[checks[p].lease].reason \in Reasons \cup {None}
    BY <2>2, LeaseRows DEF LeaseRow
  <2> QED BY <2>1, <2>2, <2>3 DEF CheckInv, Reasons
<1> QED BY <1>1, <1>2, <1>3, ResourceInvariant, PTL DEF ResourceSpec

-----------------------------------------------------------------------------
(* The leases on a key are a fenced lease. *)

\* What the abstract lease of a key is, from its rows.
LeaseFacts(r) ==
  /\ Fences(r) \in SUBSET Nat
  /\ Highest(Fences(r), LeaseOf(r).fence)
  /\ Unreleased(r) = {} => LeaseOf(r) = [holder |-> None, fence |-> LeaseOf(r).fence, until |-> 0]
  /\ \A l \in Unreleased(r) :
       LeaseOf(r) = [holder |-> leases[l].holder, fence |-> leases[l].fence,
                     until |-> leases[l].expires]
  /\ LeaseOf(r) \in Lock!Lease

LeasesFit == \A r \in Keys : LeaseFacts(r)

LEMMA LeaseOfIs == ResourceTypeOK /\ LeaseInv => LeasesFit
<1> SUFFICES ASSUME ResourceTypeOK, LeaseInv, NEW r \in Keys PROVE LeaseFacts(r)
  BY DEF LeasesFit
<1>1. Fences(r) \in SUBSET Nat /\ LatestFence(r) \in Nat /\ Highest(Fences(r), LatestFence(r))
  BY LatestFenceIsHighest, LeaseRows
<1>2. CASE Unreleased(r) = {}
  <2>1. LeaseOf(r) = [holder |-> None, fence |-> LatestFence(r), until |-> 0]
    BY <1>2 DEF LeaseOf
  <2> QED BY <1>1, <1>2, <2>1 DEF LeaseFacts, Lock!Lease
<1>3. CASE Unreleased(r) # {}
  <2>1. PICK l : l = Current(r) /\ l \in Unreleased(r)
    BY <1>3 DEF Current
  <2>2. \A m \in Unreleased(r) : m = l
    BY <2>1, OneUnreleased
  <2>3. LeaseOf(r) = [holder |-> leases[l].holder, fence |-> leases[l].fence,
                      until |-> leases[l].expires]
    BY <1>3, <2>1 DEF LeaseOf
  <2>4. /\ l \in DOMAIN leases /\ leases[l].key = r
        /\ \A m \in DOMAIN leases : leases[m].key = leases[l].key => m <= l
    BY <2>1 DEF Unreleased, LeaseInv, UnreleasedIsLast
  <2>5. Highest(Fences(r), leases[l].fence)
    BY <2>4, LastFenceIsHighest
  <2>6. leases[l].holder \in Principals /\ leases[l].fence \in Nat /\ leases[l].expires \in Nat
    BY <2>4, LeaseRows DEF LeaseRow
  <2> QED BY <1>1, <1>3, <2>2, <2>3, <2>5, <2>6 DEF LeaseFacts, Lock!Lease
<1> QED BY <1>2, <1>3

\* The same after a step.
LEMMA LeaseOfIsNext == ResourceTypeOK' /\ LeaseInv' => LeasesFit'
BY LeaseOfIs, PTL

\* A key whose fences did not change keeps its fence; with no unreleased row left its
\* lease has ended, with the same one it is the same lease.
LEMMA LeaseAfter ==
  ASSUME LeasesFit, LeasesFit', NEW r \in Keys, Fences(r)' = Fences(r)
  PROVE  /\ LeaseOf(r)'.fence = LeaseOf(r).fence
         /\ Unreleased(r)' = {} =>
              LeaseOf(r)' = [holder |-> None, fence |-> LeaseOf(r).fence, until |-> 0]
         /\ (Unreleased(r)' = {} /\ Unreleased(r) = {}) => LeaseOf(r)' = LeaseOf(r)
         /\ \A l \in Unreleased(r) \cap Unreleased(r)' :
              /\ leases'[l].holder = leases[l].holder => LeaseOf(r)'.holder = LeaseOf(r).holder
              /\ ( /\ leases'[l].holder = leases[l].holder /\ leases'[l].fence = leases[l].fence
                   /\ leases'[l].expires = leases[l].expires ) => LeaseOf(r)' = LeaseOf(r)
<1>1. LeaseFacts(r) /\ LeaseFacts(r)'
  BY DEF LeasesFit
<1>2. LeaseOf(r)'.fence = LeaseOf(r).fence
  BY <1>1, HighestIsUnique DEF LeaseFacts
<1> QED BY <1>1, <1>2 DEF LeaseFacts

\* The fences of a key are those of its rows, so a step that adds no row keeps them.
LEMMA FencesKept ==
  ASSUME DOMAIN leases' = DOMAIN leases, RowsStay
  PROVE  \A r \in Keys : Fences(r)' = Fences(r)
BY DEF Fences, RowsStay

\* A release or a sweep ends leases; the others stay.
LEMMA EndIsLeaseStep ==
  ASSUME ResourceTypeOK, LeaseInv, LeasesFit, LeasesFit', LeasesEnd
  PROVE  Lock!End
<1>1. PICK L \in SUBSET DOMAIN leases :
        /\ DOMAIN leases' = DOMAIN leases /\ RowsStay
        /\ \A l \in L : leases[l].reason = None /\ leases'[l].reason \in Reasons
        /\ \A l \in DOMAIN leases \ L : leases'[l].reason = leases[l].reason
        /\ \A l \in DOMAIN leases : leases'[l].expires = leases[l].expires
  BY DEF LeasesEnd
<1>2. \A r \in Keys : Fences(r)' = Fences(r)
  BY <1>1, FencesKept
<1>3. ASSUME NEW r \in Keys
      PROVE  \/ LeaseOf(r)' = LeaseOf(r)
             \/ LeaseOf(r)' = [holder |-> None, fence |-> LeaseOf(r).fence, until |-> 0]
  <2>1. CASE Unreleased(r)' = {}
    BY <1>2, <2>1, LeaseAfter
  <2>2. CASE Unreleased(r)' # {}
    <3>1. PICK l : l \in Unreleased(r)'
      BY <2>2
    <3>2. l \in DOMAIN leases /\ leases'[l].key = r /\ leases'[l].reason = None
      BY <1>1, <3>1 DEF Unreleased
    <3>3. l \notin L
      BY <1>1, <3>2, ResourceAssumption DEF Reasons
    <3>4. l \in Unreleased(r)
      BY <1>1, <3>2, <3>3 DEF Unreleased, RowsStay
    <3> QED BY <1>1, <1>2, <3>1, <3>2, <3>4, LeaseAfter DEF RowsStay
  <2> QED BY <2>1, <2>2
<1> QED BY <1>3 DEF Lock!End

\* A renewal extends the lease of its key.
LEMMA RenewalIsLeaseStep ==
  ASSUME ResourceTypeOK, LeaseInv, LeasesFit, LeasesFit', LeaseRenewed
  PROVE  \E r \in Keys : Lock!Extend(r)
<1>1. PICK l \in DOMAIN leases :
        /\ DOMAIN leases' = DOMAIN leases /\ RowsStay
        /\ leases[l].reason = None
        /\ \A m \in DOMAIN leases : leases'[m].reason = leases[m].reason
        /\ \A m \in DOMAIN leases \ {l} : leases'[m].expires = leases[m].expires
  BY DEF LeaseRenewed
<1>2. leases[l].key \in Keys /\ leases[l].holder \in Principals
  BY LeaseRows DEF LeaseRow
<1>3. PICK r \in Keys : r = leases[l].key
  BY <1>2
<1>4. l \in Unreleased(r)
  BY <1>1, <1>3 DEF Unreleased
<1>5. \A s \in Keys : Fences(s)' = Fences(s) /\ Unreleased(s)' = Unreleased(s)
  BY <1>1, FencesKept DEF Unreleased, RowsStay
<1>6. LeaseOf(r)'.holder = LeaseOf(r).holder /\ LeaseOf(r)'.fence = LeaseOf(r).fence
  BY <1>1, <1>4, <1>5, LeaseAfter DEF RowsStay
<1>7. LeaseOf(r).holder # None
  BY <1>2, <1>4, ResourceAssumption DEF LeasesFit, LeaseFacts
<1>8. ASSUME NEW s \in Keys \ {r} PROVE LeaseOf(s)' = LeaseOf(s)
  <2>1. CASE Unreleased(s) = {}
    BY <2>1, <1>5, LeaseAfter
  <2>2. CASE Unreleased(s) # {}
    <3>1. PICK m : m \in Unreleased(s)
      BY <2>2
    <3>2. m \in DOMAIN leases /\ m # l
      BY <1>3, <3>1 DEF Unreleased
    <3> QED BY <1>1, <1>5, <3>1, <3>2, LeaseAfter DEF RowsStay
  <2> QED BY <2>1, <2>2
<1> QED BY <1>6, <1>7, <1>8 DEF Lock!Extend, Lock!Others

\* A grant finds no lease in force on its key and adds one with the next fence.
LEMMA GrantIsLeaseStep ==
  ASSUME ResourceTypeOK, LeaseInv, LeasesFit, LeasesFit', LeaseGranted
  PROVE  \E r \in Keys : Lock!Grant(r)
<1> DEFINE n == Len(leases)
<1>1. PICK r \in Keys, p \in Principals, f \in Nat :
        /\ DOMAIN leases' = 1..(n + 1) /\ RowsStay
        /\ \A l \in DOMAIN leases : leases'[l].expires = leases[l].expires
        /\ \A l \in Unreleased(r) : leases[l].expires <= clock /\ leases'[l].reason = "expired"
        /\ \A l \in DOMAIN leases \ Unreleased(r) : leases'[l].reason = leases[l].reason
        /\ Highest(Fences(r), f)
        /\ leases'[n + 1].key = r /\ leases'[n + 1].holder = p
        /\ leases'[n + 1].fence = f + 1 /\ leases'[n + 1].reason = None
  BY DEF LeaseGranted
<1>2. /\ n \in Nat /\ DOMAIN leases = 1..n /\ clock \in Nat
      /\ \A l \in DOMAIN leases : leases[l].expires \in Nat
  BY LeaseRows DEF LeaseRow
<1> HIDE DEF n
<1>3. n + 1 \in Unreleased(r)' /\ n + 1 \notin DOMAIN leases
  BY <1>1, <1>2 DEF Unreleased
<1>4. LeaseOf(r)'.holder = p /\ LeaseOf(r)'.fence = f + 1
  BY <1>1, <1>3 DEF LeasesFit, LeaseFacts
<1>5. LeaseOf(r)'.fence = LeaseOf(r).fence + 1
  <2>1. LeaseOf(r).fence = f
    BY <1>1, HighestIsUnique DEF LeasesFit, LeaseFacts
  <2> QED BY <1>4, <2>1
<1>6. ~Lock!InForce(r)
  <2>1. CASE Unreleased(r) = {}
    BY <2>1 DEF LeasesFit, LeaseFacts, Lock!InForce
  <2>2. CASE Unreleased(r) # {}
    <3>1. PICK l \in Unreleased(r) : LeaseOf(r).until = leases[l].expires
      BY <2>2 DEF LeasesFit, LeaseFacts
    <3>2. l \in DOMAIN leases
      BY DEF Unreleased
    <3> QED BY <1>1, <1>2, <3>1, <3>2 DEF Lock!InForce
  <2> QED BY <2>1, <2>2
<1>7. ASSUME NEW s \in Keys \ {r} PROVE LeaseOf(s)' = LeaseOf(s)
  <2>1. Fences(s)' = Fences(s)
    BY <1>1, <1>2 DEF Fences, RowsStay
  <2>2. Unreleased(s)' = Unreleased(s)
    <3>1. \A l \in DOMAIN leases : leases[l].key = s => leases'[l].reason = leases[l].reason
      BY <1>1 DEF Unreleased
    <3>2. \A l \in DOMAIN leases' : l \in DOMAIN leases \/ leases'[l].key # s
      BY <1>1, <1>2
    <3>3. \A l \in DOMAIN leases : l \in DOMAIN leases' /\ leases'[l].key = leases[l].key
      BY <1>1, <1>2 DEF RowsStay
    <3> QED BY <3>1, <3>2, <3>3 DEF Unreleased
  <2>3. CASE Unreleased(s) = {}
    BY <2>1, <2>2, <2>3, LeaseAfter
  <2>4. CASE Unreleased(s) # {}
    <3>1. PICK l : l \in Unreleased(s)
      BY <2>4
    <3>2. l \in DOMAIN leases
      BY <3>1 DEF Unreleased
    <3> QED BY <1>1, <2>1, <2>2, <3>1, <3>2, LeaseAfter DEF RowsStay
  <2> QED BY <2>3, <2>4
<1> QED BY <1>4, <1>5, <1>6, <1>7 DEF Lock!Grant, Lock!Others

\* Every step of the service is a step of the abstract lease, or leaves it alone.
LEMMA ResourceStepIsLeaseStep ==
  ResourceTypeOK /\ LeaseInv /\ [ResourceNext]_resourceVars => [Lock!LeaseNext]_(Lock!leaseVars)
<1> SUFFICES ASSUME ResourceTypeOK, LeaseInv, [ResourceNext]_resourceVars
             PROVE  [Lock!LeaseNext]_(Lock!leaseVars)
  OBVIOUS
<1> DEFINE before == [r \in Keys |-> LeaseOf(r)]
           after == [r \in Keys |-> LeaseOf(r)']
<1>1. ResourceTypeOK' /\ LeaseInv'
  BY TypeStep, LeaseInvStep
<1>2. LeasesFit /\ LeasesFit'
  BY <1>1, LeaseOfIs, LeaseOfIsNext
<1>3. \A r \in Keys : LeaseOf(r)' \in Lock!Lease
  BY <1>2 DEF LeasesFit, LeaseFacts, Lock!Lease
<1>4. after \in [Keys -> Lock!Lease] /\ clock' \in Nat
  BY <1>1, <1>3 DEF ResourceTypeOK
<1>5. CASE UNCHANGED leases
  <2>1. \A r \in Keys : LeaseOf(r)' = LeaseOf(r)
    BY <1>5 DEF LeaseOf, Unreleased, LatestFence, Current
  <2>2. after = before
    BY <2>1
  <2> QED BY <1>4, <2>2 DEF Lock!LeaseNext, Lock!Clock
<1>6. CASE LeasesEnd
  BY <1>2, <1>4, <1>6, EndIsLeaseStep DEF Lock!LeaseNext, LeasesEnd
<1>7. CASE LeaseRenewed
  BY <1>2, <1>4, <1>7, RenewalIsLeaseStep DEF Lock!LeaseNext, LeaseRenewed
<1>8. CASE LeaseGranted
  BY <1>2, <1>4, <1>8, GrantIsLeaseStep DEF Lock!LeaseNext, LeaseGranted
<1> QED BY <1>5, <1>6, <1>7, <1>8, LeaseSteps

\* Every history of resource leases is a history of the abstract fenced lease, for
\* any keys, callers and durations and a clock that may be set back at any moment: a
\* key is granted only where no lease is in force, and with the next fence.
THEOREM ResourceImplementsFencedLease == ResourceSpec => ImplementsFencedLease
<1>1. ResourceInit => Lock!LeaseInit
  <2> SUFFICES ASSUME ResourceInit PROVE Lock!LeaseInit
    OBVIOUS
  <2>1. DOMAIN leases = {}
    BY EmptySeq, LenProperties DEF ResourceInit
  <2>2. LeasesFit
    BY ResourceInitially, LeaseOfIs
  <2>3. ASSUME NEW r \in Keys
        PROVE  LeaseOf(r) = [holder |-> None, fence |-> 0, until |-> 0]
    <3>1. Unreleased(r) = {} /\ Fences(r) = {}
      BY <2>1 DEF Unreleased, Fences
    <3> QED BY <2>2, <3>1 DEF LeasesFit, LeaseFacts, Highest
  <2> QED BY <2>3 DEF ResourceInit, Lock!LeaseInit
<1> QED BY <1>1, ResourceStepIsLeaseStep, ResourceInvariant, PTL
       DEF ResourceSpec, ImplementsFencedLease, Lock!LeaseSpec

-----------------------------------------------------------------------------
(* What it inherits from the abstract lease. *)

\* A step of the abstract lease passes on nothing that is in force and never reuses
\* a fence.
LeasePromises ==
  \A r \in Keys :
    /\ LeaseOf(r)'.fence >= LeaseOf(r).fence
    /\ (LeaseOf(r)'.holder # LeaseOf(r).holder /\ LeaseOf(r)'.holder # None) =>
          LeaseOf(r)'.fence > LeaseOf(r).fence
    /\ Lock!InForce(r) => LeaseOf(r)'.holder \in {LeaseOf(r).holder, None}

LEMMA LeaseStepIsSafe ==
  ASSUME \A r \in Keys : LeaseOf(r).fence \in Nat, Lock!LeaseNext
  PROVE  LeasePromises
<1> SUFFICES ASSUME NEW r \in Keys
             PROVE  /\ LeaseOf(r)'.fence >= LeaseOf(r).fence
                    /\ (LeaseOf(r)'.holder # LeaseOf(r).holder /\ LeaseOf(r)'.holder # None) =>
                          LeaseOf(r)'.fence > LeaseOf(r).fence
                    /\ Lock!InForce(r) => LeaseOf(r)'.holder \in {LeaseOf(r).holder, None}
  BY DEF LeasePromises
<1>1. LeaseOf(r).fence \in Nat
  OBVIOUS
<1>2. CASE LeaseOf(r)' = LeaseOf(r)
  BY <1>1, <1>2
<1>3. CASE LeaseOf(r)' = [holder |-> None, fence |-> LeaseOf(r).fence, until |-> 0]
  BY <1>1, <1>3
<1>4. CASE Lock!Clock
  <2>1. [s \in Keys |-> LeaseOf(s)'][r] = [s \in Keys |-> LeaseOf(s)][r]
    BY <1>4 DEF Lock!Clock
  <2> QED BY <1>2, <2>1
<1>5. CASE Lock!End
  BY <1>2, <1>3, <1>5 DEF Lock!End
<1>6. ASSUME NEW s \in Keys, Lock!Extend(s) \/ Lock!Grant(s), LeaseOf(r)' # LeaseOf(r)
      PROVE  s = r
  BY <1>6 DEF Lock!Extend, Lock!Grant, Lock!Others
<1>7. CASE Lock!Extend(r)
  BY <1>1, <1>7 DEF Lock!Extend
<1>8. CASE Lock!Grant(r)
  <2>1. /\ ~Lock!InForce(r)
        /\ LeaseOf(r)'.fence = LeaseOf(r).fence + 1
    BY <1>8 DEF Lock!Grant
  <2> QED BY <1>1, <2>1
<1> QED BY <1>2, <1>4, <1>5, <1>6, <1>7, <1>8 DEF Lock!LeaseNext

\* So a key under a lease in force passes to nobody else before the lease ends, and
\* whoever takes it over carries a larger fence than every holder before.
THEOREM ResourceKeepsLeasePromises ==
  ResourceSpec => Lock!NoStealing /\ Lock!NewHolderNewFence
<1>1. ResourceTypeOK /\ LeaseInv /\ [ResourceNext]_resourceVars =>
        [LeasePromises]_(Lock!leaseVars)
  <2> SUFFICES ASSUME ResourceTypeOK, LeaseInv, [ResourceNext]_resourceVars,
                      ~UNCHANGED Lock!leaseVars
               PROVE  LeasePromises
    OBVIOUS
  <2>1. \A r \in Keys : LeaseOf(r).fence \in Nat
    BY LeaseOfIs DEF LeasesFit, LeaseFacts, Lock!Lease
  <2>2. Lock!LeaseNext
    BY ResourceStepIsLeaseStep
  <2> QED BY <2>1, <2>2, LeaseStepIsSafe
<1> DEFINE held == [r \in Keys |-> LeaseOf(r)]
           Fenced ==
             \A r \in Keys :
               /\ held'[r].fence >= held[r].fence
               /\ (held'[r].holder # held[r].holder /\ held'[r].holder # None) =>
                     held'[r].fence > held[r].fence
           Honoured ==
             \A r \in Keys : Lock!InForce(r) => held'[r].holder \in {held[r].holder, None}
<1>2. LeasePromises => Fenced /\ Honoured
  BY DEF LeasePromises
<1>3. /\ Lock!NewHolderNewFence <=> [][Fenced]_(Lock!leaseVars)
      /\ Lock!NoStealing <=> [][Honoured]_(Lock!leaseVars)
  BY DEF Lock!NewHolderNewFence, Lock!NoStealing
<1> HIDE DEF Fenced, Honoured
<1>4. ResourceTypeOK /\ LeaseInv /\ [ResourceNext]_resourceVars =>
        [Fenced]_(Lock!leaseVars) /\ [Honoured]_(Lock!leaseVars)
  BY <1>1, <1>2
<1> QED BY <1>3, <1>4, ResourceInvariant, PTL DEF ResourceSpec
=============================================================================
