------------------------- MODULE ObligationsProofs -------------------------
(***************************************************************************)
(* Proofs about the two ways in which commitments come to be owed between  *)
(* parties: Agreements, for every set of parties, any lag of the clock     *)
(* samples and any number of offers; and Settlement, for any number of     *)
(* decisions and effects.                                                  *)
(*                                                                         *)
(* Agreements: the offers form chains, since each amends an older one and  *)
(* is amended by one at most; so two walks that meet are one.  Where two   *)
(* offers of a chain were activated, the lower one was first, and          *)
(* something replaced it.                                                  *)
(*                                                                         *)
(* Settlement: the first settlement is the only root, since the index on   *)
(* roots refuses a second; every later one supersedes, and the index on    *)
(* successors makes it supersede the one that stands.                      *)
(***************************************************************************)
EXTENDS Agreements, Settlement, SequenceTheorems, WellFoundedInduction, TLAPS

-----------------------------------------------------------------------------
(* Numbers. *)

\* A set of numbers that is not empty has a least element, and a greatest one when it is
\* bounded.
LEMMA LeastNumber ==
  ASSUME NEW S \in SUBSET Nat, S # {}
  PROVE  \E n \in S : \A m \in S : n <= m
<1>1. PICK n \in S : \A m \in S : ~(<<m, n>> \in OpToRel(<, Nat))
  BY NatLessThanWellFounded, WFMin
<1>2. \A m \in S : ~(m < n)
  BY <1>1 DEF OpToRel
<1> QED BY <1>2

LEMMA GreatestNumber ==
  ASSUME NEW n \in Nat, NEW S \in SUBSET (1..n), S # {}
  PROVE  \E i \in S : \A j \in S : j <= i
<1> DEFINE T == {k \in Nat : n - k \in S}
<1>1. T \in SUBSET Nat /\ T # {}
  <2>1. PICK i \in S : i \in 1..n
    OBVIOUS
  <2>2. n - i \in Nat /\ n - (n - i) = i
    BY <2>1
  <2>3. n - i \in T
    BY <2>2
  <2> QED BY <2>3
<1>2. PICK k \in T : \A l \in T : k <= l
  BY <1>1, LeastNumber
<1>3. ASSUME NEW j \in S
      PROVE  j <= n - k
  <2>1. n - j \in Nat /\ n - (n - j) = j
    OBVIOUS
  <2>2. k <= n - j
    BY <1>2, <2>1
  <2> QED BY <1>2, <2>1, <2>2
<1> QED BY <1>2, <1>3

-----------------------------------------------------------------------------
(* Chains of amendments.  up[o] is the offer that o amends, 0 when it amends none; a *)
(* walk down from o collects up[o], up[up[o]] and so on.                              *)

Amending(up, size) == \A o \in 1..size : up[o] \in 0..(o - 1)

\* uniq_agreement_offer_successor
OneSuccessor(up, size) == \A o, n \in 1..size : (up[o] = up[n] /\ up[o] # 0) => o = n

Walk(f, up, size) ==
  \A o \in 0..size : f[o] = IF o = 0 \/ up[o] = 0 THEN {} ELSE {up[o]} \cup f[up[o]]

\* There is a walk: otherwise there is a least number of offers for which there is none,
\* and the walk for one offer less goes on by one step.
LEMMA WalkExists ==
  ASSUME NEW up, NEW size \in Nat, Amending(up, size)
  PROVE  \E f : f = [o \in 0..size |-> IF o = 0 \/ up[o] = 0 THEN {}
                                       ELSE {up[o]} \cup f[up[o]]]
<1> DEFINE Walks(f, n) == f = [o \in 0..n |-> IF o = 0 \/ up[o] = 0 THEN {}
                                              ELSE {up[o]} \cup f[up[o]]]
<1> DEFINE Stuck == {n \in 0..size : ~\E f : Walks(f, n)}
<1>1. CASE Stuck = {}
  <2>1. size \notin Stuck
    BY <1>1
  <2> QED BY <2>1
<1>2. CASE Stuck # {}
  <2>1. PICK n \in Stuck : \A k \in Stuck : n <= k
    <3>1. Stuck \in SUBSET Nat
      OBVIOUS
    <3> HIDE DEF Stuck
    <3> QED BY <1>2, <3>1, LeastNumber
  <2>2. n \in 0..size /\ ~\E f : Walks(f, n)
    OBVIOUS
  <2>3. CASE n = 0
    <3>1. PICK f : f = [o \in 0..0 |-> {}]
      OBVIOUS
    <3>2. Walks(f, 0)
      BY <3>1
    <3> QED BY <2>2, <2>3, <3>2
  <2>4. CASE n # 0
    <3>1. n - 1 \in 0..size /\ n - 1 \notin Stuck
      <4>1. n - 1 \in 0..size /\ ~(n <= n - 1)
        BY <2>2, <2>4
      <4> QED BY <2>1, <4>1
    <3>2. PICK f : Walks(f, n - 1)
      BY <3>1
    <3>3. PICK last : last = IF up[n] = 0 THEN {} ELSE {up[n]} \cup f[up[n]]
      OBVIOUS
    <3>4. PICK g : g = [o \in 0..n |-> IF o = n THEN last ELSE f[o]]
      OBVIOUS
    <3>5. \A o \in 0..(n - 1) : f[o] = IF o = 0 \/ up[o] = 0 THEN {}
                                       ELSE {up[o]} \cup f[up[o]]
      BY <3>2
    <3>6. \A o \in 0..n : g[o] = IF o = 0 \/ up[o] = 0 THEN {} ELSE {up[o]} \cup g[up[o]]
      <4>1. \A o \in 0..(n - 1) : g[o] = f[o]
        BY <2>2, <3>4
      <4>2. g[n] = last
        BY <2>2, <3>4
      <4>3. ASSUME NEW o \in 0..n
            PROVE  g[o] = IF o = 0 \/ up[o] = 0 THEN {} ELSE {up[o]} \cup g[up[o]]
        <5>1. o # 0 => up[o] \in 0..(n - 1)
          <6>1. o # 0 => o \in 1..size
            BY <2>2
          <6>2. o # 0 => up[o] \in 0..(o - 1)
            BY <6>1 DEF Amending
          <6> QED BY <2>2, <6>2
        <5>2. CASE o = n
          BY <2>4, <3>3, <4>1, <4>2, <5>1, <5>2
        <5>3. CASE o # n
          <6>1. o \in 0..(n - 1)
            BY <2>2, <5>3
          <6> QED BY <3>5, <4>1, <5>1, <6>1
        <5> QED BY <5>2, <5>3
      <4> QED BY <4>3
    <3>7. Walks(g, n)
      BY <3>4, <3>6
    <3> QED BY <2>2, <3>7
  <2> QED BY <2>3, <2>4
<1> QED BY <1>1, <1>2

\* Two walks agree as far as their steps do.
LEMMA WalksAgree ==
  ASSUME NEW f, NEW g, NEW up, NEW on, NEW size \in Nat, NEW larger \in Nat, size <= larger,
         Walk(f, up, size), Walk(g, on, larger), Amending(up, size),
         \A o \in 1..size : on[o] = up[o]
  PROVE  \A o \in 0..size : g[o] = f[o]
<1> DEFINE Off == {o \in 0..size : g[o] # f[o]}
<1> SUFFICES ASSUME Off # {}
             PROVE  FALSE
  OBVIOUS
<1>1. PICK o \in Off : \A k \in Off : o <= k
  <2>1. Off \in SUBSET Nat
    OBVIOUS
  <2> HIDE DEF Off
  <2> QED BY <2>1, LeastNumber
<1>2. o \in 0..size /\ g[o] # f[o]
  OBVIOUS
<1>3. o \in 0..larger
  BY <1>2
<1>4. f[o] = IF o = 0 \/ up[o] = 0 THEN {} ELSE {up[o]} \cup f[up[o]]
  BY <1>2 DEF Walk
<1>5. g[o] = IF o = 0 \/ on[o] = 0 THEN {} ELSE {on[o]} \cup g[on[o]]
  BY <1>3 DEF Walk
<1>6. CASE o = 0
  BY <1>2, <1>4, <1>5, <1>6
<1>7. CASE o # 0
  <2>1. o \in 1..size
    BY <1>2, <1>7
  <2>2. up[o] \in 0..(o - 1) /\ on[o] = up[o]
    BY <2>1 DEF Amending
  <2>3. up[o] \in 0..size /\ ~(o <= up[o])
    BY <2>1, <2>2
  <2>4. g[up[o]] = f[up[o]]
    BY <1>1, <2>3
  <2> QED BY <1>2, <1>4, <1>5, <2>2, <2>4
<1> QED BY <1>6, <1>7

\* A walk goes down.
LEMMA WalkGoesDown ==
  ASSUME NEW f, NEW up, NEW size \in Nat, Walk(f, up, size), Amending(up, size)
  PROVE  \A o \in 0..size : \A k \in f[o] : k \in 1..(o - 1)
<1> DEFINE Off == {o \in 0..size : \E k \in f[o] : k \notin 1..(o - 1)}
<1> SUFFICES ASSUME Off # {}
             PROVE  FALSE
  OBVIOUS
<1>1. PICK o \in Off : \A k \in Off : o <= k
  <2>1. Off \in SUBSET Nat
    OBVIOUS
  <2> HIDE DEF Off
  <2> QED BY <2>1, LeastNumber
<1>2. o \in 0..size
  OBVIOUS
<1>3. PICK k \in f[o] : k \notin 1..(o - 1)
  OBVIOUS
<1>4. f[o] = IF o = 0 \/ up[o] = 0 THEN {} ELSE {up[o]} \cup f[up[o]]
  BY <1>2 DEF Walk
<1>5. o # 0 /\ up[o] # 0
  BY <1>3, <1>4
<1>6. up[o] \in 1..(o - 1)
  BY <1>2, <1>5 DEF Amending
<1>7. k # up[o] /\ k \in f[up[o]]
  BY <1>3, <1>4, <1>5, <1>6
<1>8. up[o] \in 0..size /\ ~(o <= up[o])
  BY <1>2, <1>6
<1>9. up[o] \notin Off
  BY <1>1, <1>8
<1>10. k \in 1..(up[o] - 1)
  BY <1>7, <1>8, <1>9
<1> QED BY <1>3, <1>6, <1>10, <1>2

\* A walk from o goes on from everything it passes.
LEMMA WalkGoesOn ==
  ASSUME NEW f, NEW up, NEW size \in Nat, Walk(f, up, size), Amending(up, size)
  PROVE  \A o \in 0..size : \A m, k \in f[o] : k < m => k \in f[m]
<1> DEFINE Off == {o \in 0..size : \E m, k \in f[o] : k < m /\ k \notin f[m]}
<1> SUFFICES ASSUME Off # {}
             PROVE  FALSE
  OBVIOUS
<1>1. PICK o \in Off : \A k \in Off : o <= k
  <2>1. Off \in SUBSET Nat
    OBVIOUS
  <2> HIDE DEF Off
  <2> QED BY <2>1, LeastNumber
<1>2. o \in 0..size
  OBVIOUS
<1>3. PICK m \in f[o], k \in f[o] : k < m /\ k \notin f[m]
  OBVIOUS
<1>4. f[o] = IF o = 0 \/ up[o] = 0 THEN {} ELSE {up[o]} \cup f[up[o]]
  BY <1>2 DEF Walk
<1>5. o # 0 /\ up[o] # 0
  BY <1>3, <1>4
<1>6. up[o] \in 1..(o - 1) /\ up[o] \in 0..size /\ ~(o <= up[o])
  BY <1>2, <1>5 DEF Amending
<1>7. up[o] \notin Off
  BY <1>1, <1>6
<1>8. f[o] = {up[o]} \cup f[up[o]]
  BY <1>4, <1>5
<1>9. \A j \in f[up[o]] : j \in 1..(up[o] - 1)
  BY <1>6, WalkGoesDown
<1>10. k # up[o]
  <2>1. m = up[o] \/ m < up[o]
    BY <1>6, <1>8, <1>9
  <2> QED BY <1>3, <1>6, <2>1, <1>9, <1>8
<1>11. k \in f[up[o]]
  BY <1>8, <1>10
<1>12. m \in f[up[o]]
  BY <1>3, <1>8, <1>11
<1> QED BY <1>3, <1>6, <1>7, <1>11, <1>12

\* Whatever a walk passes was reached from the offer that amends it.
LEMMA WalkCameFrom ==
  ASSUME NEW f, NEW up, NEW size \in Nat, Walk(f, up, size), Amending(up, size)
  PROVE  \A o \in 0..size : \A k \in f[o] :
           \E n \in 1..size : up[n] = k /\ (n = o \/ n \in f[o])
<1> DEFINE Fine(o) == \A k \in f[o] : \E n \in 1..size : up[n] = k /\ (n = o \/ n \in f[o])
<1> DEFINE Off == {o \in 0..size : ~Fine(o)}
<1> SUFFICES ASSUME Off # {}
             PROVE  FALSE
  OBVIOUS
<1>1. PICK o \in Off : \A k \in Off : o <= k
  <2>1. Off \in SUBSET Nat
    OBVIOUS
  <2> HIDE DEF Off
  <2> QED BY <2>1, LeastNumber
<1>2. o \in 0..size /\ ~Fine(o)
  OBVIOUS
<1>3. f[o] = IF o = 0 \/ up[o] = 0 THEN {} ELSE {up[o]} \cup f[up[o]]
  BY <1>2 DEF Walk
<1>4. o # 0 /\ up[o] # 0
  BY <1>2, <1>3
<1>5. o \in 1..size /\ up[o] \in 0..size /\ ~(o <= up[o])
  BY <1>2, <1>4 DEF Amending
<1>6. Fine(up[o])
  BY <1>1, <1>5
<1>7. f[o] = {up[o]} \cup f[up[o]]
  BY <1>3, <1>4
<1>8. Fine(o)
  BY <1>5, <1>6, <1>7
<1> QED BY <1>2, <1>8

\* Two walks that meet are one: either starts on the way of the other.
LEMMA WalksMeet ==
  ASSUME NEW f, NEW up, NEW size \in Nat, Walk(f, up, size), Amending(up, size),
         OneSuccessor(up, size)
  PROVE  \A o, n \in 0..size : \A k \in f[o] :
           k \in f[n] => o = n \/ o \in f[n] \/ n \in f[o]
<1> DEFINE Fine(o) == \A n \in 0..size : \A k \in f[o] :
                        k \in f[n] => o = n \/ o \in f[n] \/ n \in f[o]
<1> DEFINE Off == {o \in 0..size : ~Fine(o)}
<1> SUFFICES ASSUME Off # {}
             PROVE  FALSE
  OBVIOUS
<1>1. PICK o \in Off : \A k \in Off : o <= k
  <2>1. Off \in SUBSET Nat
    OBVIOUS
  <2> HIDE DEF Off
  <2> QED BY <2>1, LeastNumber
<1>2. o \in 0..size /\ ~Fine(o)
  OBVIOUS
<1>3. f[o] = IF o = 0 \/ up[o] = 0 THEN {} ELSE {up[o]} \cup f[up[o]]
  BY <1>2 DEF Walk
<1>4. o # 0 /\ up[o] # 0
  BY <1>2, <1>3
<1>5. o \in 1..size /\ up[o] \in 0..size /\ ~(o <= up[o])
  BY <1>2, <1>4 DEF Amending
<1>6. Fine(up[o])
  BY <1>1, <1>5
<1>7. f[o] = {up[o]} \cup f[up[o]]
  BY <1>3, <1>4
<1>8. ASSUME NEW n \in 0..size, up[o] \in f[n]
      PROVE  o = n \/ o \in f[n]
  <2>1. PICK u \in 1..size : up[u] = up[o] /\ (u = n \/ u \in f[n])
    BY <1>8, WalkCameFrom
  <2>2. u = o
    BY <1>4, <1>5, <2>1 DEF OneSuccessor
  <2> QED BY <2>1, <2>2
<1>9. ASSUME NEW n \in 0..size, NEW k \in f[o], k \in f[n]
      PROVE  o = n \/ o \in f[n] \/ n \in f[o]
  <2>1. CASE k = up[o]
    BY <1>8, <1>9, <2>1
  <2>2. CASE k # up[o]
    <3>1. k \in f[up[o]]
      BY <1>7, <2>2
    <3>2. up[o] = n \/ up[o] \in f[n] \/ n \in f[up[o]]
      BY <1>6, <1>9, <3>1
    <3> QED BY <1>7, <1>8, <3>2
  <2> QED BY <2>1, <2>2
<1>10. Fine(o)
  BY <1>9
<1> QED BY <1>2, <1>10

-----------------------------------------------------------------------------
(* Agreements: the invariant. *)

OfferRecord == [supersedes : 0..MaxOffers, expiresAt : Nat, accepted : SUBSET Parties,
                ended : BOOLEAN]

\* What each offer amends.
Amended == [o \in Offers |-> offers[o].supersedes]

\* Offers amend older ones, and each at most one amends.
OffersInv ==
  /\ offers \in Seq(OfferRecord) /\ Len(offers) <= MaxOffers
  /\ Amending(Amended, Len(offers))
  /\ OneSuccessor(Amended, Len(offers))

\* An offer is activated once.  An activation replaces an earlier one, of an offer below
\* its own; and where the offers of two activations are one below the other, something has
\* replaced the lower one.
ActivationsInv ==
  /\ \A a \in Activations : activations[a].offer \in Offers
  /\ \A a, b \in Activations : activations[a].offer = activations[b].offer => a = b
  /\ \A a \in Activations :
       /\ activations[a].supersedes \in 0..(a - 1)
       /\ activations[a].supersedes # 0 =>
            activations[activations[a].supersedes].offer \in Older[activations[a].offer]
  /\ \A a, b \in Activations :
       activations[a].offer \in Older[activations[b].offer] =>
         \E c \in Activations : activations[c].supersedes = a

AgreementsInv ==
  /\ AgreementsTypeOK /\ OffersInv /\ ActivationsInv
  /\ Len(work) = Len(activations)
  /\ OnlyTheTermsInForceAreOwed

\* Older is the walk down the amendments.
LEMMA OlderWalks == OffersInv => Walk(Older, Amended, Len(offers))
<1> SUFFICES ASSUME OffersInv
             PROVE  Walk(Older, Amended, Len(offers))
  OBVIOUS
<1>1. PICK size \in Nat : size = Len(offers)
  BY DEF OffersInv
<1>2. PICK up : up = Amended
  OBVIOUS
<1> DEFINE Walks(f) == f = [o \in 0..size |-> IF o = 0 \/ up[o] = 0 THEN {}
                                              ELSE {up[o]} \cup f[up[o]]]
<1>3. \E f : Walks(f)
  BY <1>1, <1>2, WalkExists DEF OffersInv
<1>4. PICK older : older = CHOOSE f : Walks(f)
  OBVIOUS
<1>5. Walks(older)
  BY <1>3, <1>4
<1>6. Older = older
  <2> DEFINE Code(f) == f = [o \in 0..Len(offers) |->
                               IF o = 0 \/ offers[o].supersedes = 0 THEN {}
                               ELSE {offers[o].supersedes} \cup f[offers[o].supersedes]]
  <2>1. \A o \in 0..size : o # 0 => up[o] = offers[o].supersedes
    BY <1>1, <1>2 DEF Amended, Offers, OffersInv
  <2>2. ASSUME NEW f
        PROVE  Walks(f) <=> Code(f)
    <3>1. [o \in 0..size |-> IF o = 0 \/ up[o] = 0 THEN {} ELSE {up[o]} \cup f[up[o]]]
          = [o \in 0..size |-> IF o = 0 \/ offers[o].supersedes = 0 THEN {}
                               ELSE {offers[o].supersedes} \cup f[offers[o].supersedes]]
      BY <2>1
    <3> QED BY <1>1, <3>1
  <2>3. (CHOOSE f : Walks(f)) = CHOOSE f : Code(f)
    <3> HIDE DEF Walks, Code
    <3> QED BY <2>2
  <2> QED BY <1>4, <2>3 DEF Older
<1>7. \A o \in 0..size : older[o] = IF o = 0 \/ up[o] = 0 THEN {} ELSE {up[o]} \cup older[up[o]]
  BY <1>5
<1> QED BY <1>1, <1>2, <1>6, <1>7 DEF Walk

\* What the walks say of the offers.
LEMMA OlderFacts ==
  ASSUME OffersInv
  PROVE  /\ \A o \in Offers : Older[o] \subseteq 1..(o - 1) /\ Older[o] \subseteq Offers
         /\ \A o \in Offers : \A m, k \in Older[o] : k < m => k \in Older[m]
         /\ \A o, n \in Offers : \A k \in Older[o] :
              k \in Older[n] => o = n \/ o \in Older[n] \/ n \in Older[o]
<1>1. PICK size \in Nat : size = Len(offers) /\ Offers = 1..size
  BY DEF OffersInv, Offers
<1>2. PICK f : f = Older
  OBVIOUS
<1>3. PICK up : up = Amended
  OBVIOUS
<1>4. Walk(f, up, size) /\ Amending(up, size) /\ OneSuccessor(up, size)
  BY <1>1, <1>2, <1>3, OlderWalks DEF OffersInv
<1>5. \A o \in Offers : o \in 0..size
  BY <1>1
<1>6. \A o \in Offers : \A k \in f[o] : k \in 1..(o - 1)
  BY <1>4, <1>5, WalkGoesDown
<1>7. \A o \in Offers : f[o] \subseteq 1..(o - 1) /\ f[o] \subseteq Offers
  BY <1>1, <1>6
<1>8. \A o \in Offers : \A m, k \in f[o] : k < m => k \in f[m]
  BY <1>4, <1>5, WalkGoesOn
<1>9. \A o, n \in 0..size : \A k \in f[o] : k \in f[n] => o = n \/ o \in f[n] \/ n \in f[o]
  BY <1>4, WalksMeet
<1> QED BY <1>2, <1>5, <1>7, <1>8, <1>9

\* Offers are added; what an offer amends never changes.
OffersGo ==
  /\ Len(offers) <= Len(offers)'
  /\ \A o \in Offers : Amended'[o] = Amended[o]

LEMMA OlderStays ==
  ASSUME OffersInv, OffersInv', OffersGo
  PROVE  /\ \A o \in Offers : o \in Offers' /\ Older'[o] = Older[o]
<1>1. PICK size \in Nat : size = Len(offers) /\ Offers = 1..size
  BY DEF OffersInv, Offers
<1>2. PICK larger \in Nat : larger = Len(offers)' /\ Offers' = 1..larger
  BY DEF OffersInv, Offers
<1>3. PICK f : f = Older
  OBVIOUS
<1>4. PICK g : g = Older'
  OBVIOUS
<1>5. PICK up : up = Amended
  OBVIOUS
<1>6. PICK on : on = Amended'
  OBVIOUS
<1>7. Walk(f, up, size) /\ Amending(up, size)
  BY <1>1, <1>3, <1>5, OlderWalks DEF OffersInv
<1>8. OffersInv' => Walk(Older, Amended, Len(offers))'
  BY OlderWalks, PTL
<1>9. Walk(g, on, larger)
  BY <1>2, <1>4, <1>6, <1>8
<1>10. size <= larger /\ \A o \in 1..size : on[o] = up[o]
  BY <1>1, <1>2, <1>5, <1>6 DEF OffersGo
<1>11. \A o \in 0..size : g[o] = f[o]
  BY <1>7, <1>9, <1>10, WalksAgree
<1> QED BY <1>1, <1>2, <1>3, <1>4, <1>10, <1>11

\* The activations stay as they are while offers are added.
LEMMA ActivationsStay ==
  ASSUME OffersInv, OffersInv', OffersGo, ActivationsInv, activations' = activations
  PROVE  ActivationsInv'
<1>1. PICK older : older = Older
  OBVIOUS
<1>2. PICK newer : newer = Older'
  OBVIOUS
<1>3. \A o \in Offers : o \in Offers' /\ newer[o] = older[o]
  BY <1>1, <1>2, OlderStays
<1>4. Activations' = Activations
  BY DEF Activations
<1>5. \A a \in Activations : activations[a].offer \in Offers /\ activations[a].offer \in Offers'
  BY <1>3 DEF ActivationsInv
<1>6. \A a, b \in Activations :
        (activations[a].offer \in newer[activations[b].offer])
          <=> activations[a].offer \in older[activations[b].offer]
  BY <1>3, <1>5
<1>7. \A a \in Activations : activations[a].supersedes # 0 =>
        activations[activations[a].supersedes].offer \in newer[activations[a].offer]
  BY <1>1, <1>3, <1>5 DEF ActivationsInv
<1> QED BY <1>1, <1>2, <1>4, <1>5, <1>6, <1>7 DEF ActivationsInv

\* The activation that a new one replaces: the nearest below.
LEMMA NearestIsNearest ==
  ASSUME AgreementsInv, NEW o \in Offers
  PROVE  LET old == NearestActivation(o)
         IN  \/ old = 0 /\ \A n \in Older[o] : ~Activated(n)
             \/ /\ old \in Activations
                /\ activations[old].offer \in Older[o]
                /\ \A n \in Older[o] : Activated(n) => n <= activations[old].offer
<1>1. PICK below : below = {n \in Older[o] : Activated(n)}
  OBVIOUS
<1>2. CASE below = {}
  BY <1>1, <1>2 DEF NearestActivation
<1>3. CASE below # {}
  <2>1. PICK size \in Nat : size = Len(offers) /\ Offers = 1..size
    BY DEF AgreementsInv, OffersInv, Offers
  <2>2. below \subseteq 1..size
    BY <1>1, <2>1, OlderFacts DEF AgreementsInv
  <2>3. PICK n \in below : \A m \in below : m <= n
    BY <1>3, <2>2, GreatestNumber
  <2>4. \A m, k \in below : m <= k /\ k <= m => m = k
    BY <2>2
  <2>5. PICK top : top = Max(below)
    OBVIOUS
  <2>6. \A m, k \in below : m >= k <=> k <= m
    BY <2>2
  <2>7. top \in below /\ \A m \in below : m <= top
    <3>1. n \in below /\ \A m \in below : n >= m
      BY <2>3, <2>6
    <3>2. top = CHOOSE x \in below : \A y \in below : x >= y
      BY <2>5 DEF Max
    <3>3. top \in below /\ \A m \in below : top >= m
      BY <3>1, <3>2
    <3> QED BY <2>6, <3>3
  <2>8. PICK old : old = CHOOSE a \in Activations : activations[a].offer = top
    OBVIOUS
  <2>9. \E a \in Activations : activations[a].offer = top
    BY <1>1, <2>7 DEF Activated
  <2>10. old \in Activations /\ activations[old].offer = top
    BY <2>8, <2>9
  <2>11. NearestActivation(o) = old
    BY <1>1, <1>3, <2>5, <2>8 DEF NearestActivation
  <2> QED BY <1>1, <2>7, <2>10, <2>11
<1> QED BY <1>2, <1>3

\* The activation of an offer that is offered: nothing above it was activated, and where
\* something below it was, the nearest is replaced and has replaced all below.
LEMMA CompileKeepsActivations ==
  ASSUME AgreementsInv, OffersInv', OffersGo, NEW o \in Offers, NEW old,
         old = NearestActivation(o), ~Activated(o), ~HasAcceptedSuccessor(o),
         activations' = Append(activations, [offer |-> o, supersedes |-> old])
  PROVE  ActivationsInv'
<1>1. PICK older : older = Older
  OBVIOUS
<1>2. PICK newer : newer = Older'
  OBVIOUS
<1>3. \A n \in Offers : n \in Offers' /\ newer[n] = older[n]
  BY <1>1, <1>2, OlderStays DEF AgreementsInv
<1>4. PICK size \in Nat : size = Len(activations) /\ Activations = 1..size
  BY DEF AgreementsInv, AgreementsTypeOK, Activations
<1>5. PICK new : new = size + 1
  OBVIOUS
<1>6. /\ Activations' = 1..new /\ new \in Nat
      /\ activations'[new] = [offer |-> o, supersedes |-> old]
      /\ \A a \in Activations : activations'[a] = activations[a]
  BY <1>4, <1>5 DEF AgreementsInv, AgreementsTypeOK, Activations
<1>7. \A a \in Activations' : a \in Activations \/ a = new
  BY <1>4, <1>5, <1>6
<1>8. activations'[new].offer = o /\ activations'[new].supersedes = old
  <2>1. PICK row : row = [offer |-> o, supersedes |-> old]
    OBVIOUS
  <2>2. row.offer = o /\ row.supersedes = old
    BY <2>1
  <2> QED BY <1>6, <2>1, <2>2
<1>9. \A a \in Activations : activations[a].offer \in Offers /\ activations[a].offer # o
  BY DEF Activated, AgreementsInv, ActivationsInv
<1>10. \A a \in Activations : o \notin older[activations[a].offer]
  BY <1>1, <1>9 DEF HasAcceptedSuccessor, Newer, Activated
<1>11. \/ old = 0 /\ \A a \in Activations : activations[a].offer \notin older[o]
       \/ /\ old \in Activations /\ activations[old].offer \in older[o]
          /\ \A a \in Activations : activations[a].offer \in older[o] =>
               activations[a].offer <= activations[old].offer
  BY <1>1, NearestIsNearest DEF Activated
<1>12. \A a \in Activations' : activations'[a].offer \in Offers'
  BY <1>3, <1>6, <1>7, <1>8, <1>9
<1>13. \A a, b \in Activations' : activations'[a].offer = activations'[b].offer => a = b
  <2>1. \A a, b \in Activations : activations'[a].offer = activations'[b].offer => a = b
    <3>1. \A a, b \in Activations : activations[a].offer = activations[b].offer => a = b
      BY DEF AgreementsInv, ActivationsInv
    <3>2. \A a \in Activations : activations'[a] = activations[a]
      BY <1>6
    <3>3. \A a \in Activations : activations'[a].offer = activations[a].offer
      BY <3>2
    <3> QED BY <3>1, <3>3
  <2>2. \A a \in Activations : activations'[a].offer # activations'[new].offer
    BY <1>6, <1>8, <1>9
  <2> QED BY <1>7, <2>1, <2>2
<1>14. ASSUME NEW a \in Activations'
       PROVE  /\ activations'[a].supersedes \in 0..(a - 1)
              /\ activations'[a].supersedes # 0 =>
                   activations'[activations'[a].supersedes].offer \in newer[activations'[a].offer]
  <2>1. CASE a = new
    <3>1. old \in 0..(new - 1)
      BY <1>4, <1>5, <1>11
    <3>2. old # 0 => old \in Activations /\ activations[old].offer \in older[o]
      BY <1>11
    <3> QED BY <1>3, <1>6, <1>8, <2>1, <3>1, <3>2
  <2>2. CASE a # new
    <3>1. a \in Activations /\ activations'[a] = activations[a]
      BY <1>6, <1>7, <2>2
    <3>2. PICK low : low = activations[a].supersedes
      OBVIOUS
    <3>3. low \in 0..(a - 1) /\ (low # 0 => activations[low].offer \in older[activations[a].offer])
      BY <1>1, <3>1, <3>2 DEF AgreementsInv, ActivationsInv
    <3>4. low # 0 => low \in Activations
      BY <1>4, <3>1, <3>3
    <3>5. low # 0 => activations'[low] = activations[low]
      BY <1>6, <3>4
    <3>6. newer[activations[a].offer] = older[activations[a].offer]
      BY <1>3, <1>9, <3>1
    <3> QED BY <3>1, <3>2, <3>3, <3>5, <3>6
  <2> QED BY <2>1, <2>2
<1>15. ASSUME NEW a \in Activations', NEW b \in Activations',
              activations'[a].offer \in newer[activations'[b].offer]
       PROVE  \E c \in Activations' : activations'[c].supersedes = a
  <2>1. \A c \in Activations : c \in Activations' /\ activations'[c].supersedes = activations[c].supersedes
    BY <1>4, <1>5, <1>6
  <2>2. ASSUME NEW low \in Activations, NEW high \in Activations,
               activations[low].offer \in older[activations[high].offer]
        PROVE  \E c \in Activations' : activations'[c].supersedes = low
    <3>1. PICK c \in Activations : activations[c].supersedes = low
      BY <1>1, <2>2 DEF AgreementsInv, ActivationsInv
    <3> QED BY <2>1, <3>1
  <2>3. a # new
    <3> SUFFICES ASSUME a = new
                 PROVE  FALSE
      OBVIOUS
    <3>1. CASE b = new
      <4>1. o \in older[o]
        BY <1>3, <1>8, <1>15, <3>1
      <4>2. older[o] \subseteq 1..(o - 1)
        BY <1>1, OlderFacts DEF AgreementsInv
      <4>3. o \in Nat
        BY DEF Offers, AgreementsInv, OffersInv
      <4> QED BY <4>1, <4>2, <4>3
    <3>2. CASE b # new
      BY <1>3, <1>6, <1>7, <1>8, <1>9, <1>10, <1>15, <3>2
    <3> QED BY <3>1, <3>2
  <2>4. a \in Activations /\ activations'[a] = activations[a]
    BY <1>6, <1>7, <2>3
  <2>5. CASE b = new
    <3>1. activations[a].offer \in older[o]
      BY <1>3, <1>8, <1>15, <2>4, <2>5
    <3>2. /\ old \in Activations /\ activations[old].offer \in older[o]
          /\ activations[a].offer <= activations[old].offer
      BY <1>11, <2>4, <3>1
    <3>3. CASE a = old
      BY <1>4, <1>5, <1>6, <1>8, <3>3
    <3>4. CASE a # old
      <4>1. activations[a].offer # activations[old].offer
        BY <2>4, <3>2, <3>4 DEF AgreementsInv, ActivationsInv
      <4>2. activations[a].offer \in Nat /\ activations[old].offer \in Nat
        BY <1>9, <2>4, <3>2 DEF Offers, AgreementsInv, OffersInv
      <4>3. activations[a].offer < activations[old].offer
        BY <3>2, <4>1, <4>2
      <4>4. activations[a].offer \in older[activations[old].offer]
        BY <1>1, <3>1, <3>2, <4>3, OlderFacts DEF AgreementsInv
      <4> QED BY <2>2, <2>4, <3>2, <4>4
    <3> QED BY <3>3, <3>4
  <2>6. CASE b # new
    <3>1. b \in Activations /\ activations'[b] = activations[b]
      BY <1>6, <1>7, <2>6
    <3>2. activations[a].offer \in older[activations[b].offer]
      BY <1>3, <1>9, <1>15, <2>4, <3>1
    <3> QED BY <2>2, <2>4, <3>1, <3>2
  <2> QED BY <2>5, <2>6
<1> QED BY <1>2, <1>12, <1>13, <1>14, <1>15 DEF ActivationsInv

-----------------------------------------------------------------------------
(* Agreements: the steps. *)

LEMMA AgreementsStart == AgreementsInit => AgreementsInv
<1> SUFFICES ASSUME AgreementsInit
             PROVE  AgreementsInv
  OBVIOUS
<1>1. PICK empty : empty = << >> /\ empty \in Seq({}) /\ Len(empty) = 0
  BY EmptySeq
<1>2. Offers = {} /\ Activations = {} /\ Len(offers) = 0 /\ Len(work) = Len(activations)
  BY <1>1 DEF AgreementsInit, Offers, Activations
<1>3. AgreementsTypeOK
  BY AgreementsAssumption DEF AgreementsInit, AgreementsTypeOK
<1>4. OffersInv
  BY <1>2, <1>3, AgreementsAssumption
  DEF OffersInv, Amending, OneSuccessor, AgreementsTypeOK, OfferRecord
<1>5. ActivationsInv
  BY <1>2 DEF ActivationsInv
<1>6. OnlyTheTermsInForceAreOwed
  BY <1>2 DEF OnlyTheTermsInForceAreOwed
<1> QED BY <1>2, <1>3, <1>4, <1>5, <1>6 DEF AgreementsInv

\* A change to a row that leaves what it amends.
LEMMA OffersKeepAmending ==
  ASSUME AgreementsInv, offers' \in Seq(OfferRecord), Len(offers') = Len(offers),
         \A o \in Offers : offers'[o].supersedes = offers[o].supersedes
  PROVE  OffersInv' /\ OffersGo
<1>1. Offers' = Offers
  BY DEF Offers, AgreementsInv, OffersInv
<1>2. Amended' = Amended
  BY <1>1 DEF Amended
<1>3. PICK up : up = Amended
  OBVIOUS
<1>4. PICK size \in Nat : size = Len(offers)
  BY DEF AgreementsInv, OffersInv
<1> QED BY <1>2, <1>4 DEF AgreementsInv, OffersInv, OffersGo

\* offerAgreement
LEMMA OfferKeeps ==
  ASSUME AgreementsInv, NEW amended \in {0} \cup Offers, NEW lifetime \in Lifetimes,
         NEW now \in Sampled, Offer(amended, lifetime, now)
  PROVE  AgreementsInv'
<1>1. PICK size \in Nat : size = Len(offers) /\ Offers = 1..size
  BY DEF AgreementsInv, OffersInv, Offers
<1>2. PICK row : row = [supersedes |-> amended, expiresAt |-> now + lifetime,
                        accepted |-> {}, ended |-> FALSE]
  OBVIOUS
<1>3. offers' = Append(offers, row) /\ size < MaxOffers
  BY <1>1, <1>2 DEF Offer
<1>4. amended \in 0..size /\ amended \in 0..MaxOffers
  BY <1>1, <1>3, AgreementsAssumption
<1>5. row \in OfferRecord
  <2>1. now + lifetime \in Nat
    BY AgreementsAssumption DEF Sampled, AgreementsInv, AgreementsTypeOK
  <2> QED BY <1>2, <1>4, <2>1 DEF OfferRecord
<1>6. PICK new : new = size + 1
  OBVIOUS
<1>7. /\ offers' \in Seq(OfferRecord) /\ Len(offers') = new /\ offers'[new] = row
      /\ \A o \in 1..size : offers'[o] = offers[o]
  BY <1>1, <1>3, <1>5, <1>6 DEF AgreementsInv, OffersInv
<1>8. Offers' = 1..new /\ new \in Nat
  BY <1>1, <1>6, <1>7 DEF Offers
<1>9. /\ \A o \in 1..size : Amended'[o] = Amended[o] /\ Amended[o] = offers[o].supersedes
      /\ Amended'[new] = amended
  <2>1. row.supersedes = amended
    BY <1>2
  <2>2. \A o \in 1..new : Amended'[o] = offers'[o].supersedes
    BY <1>8 DEF Amended
  <2>3. \A o \in 1..size : Amended[o] = offers[o].supersedes /\ o \in 1..new
    BY <1>1, <1>6 DEF Amended
  <2>4. new \in 1..new
    BY <1>1, <1>6
  <2> QED BY <1>7, <2>1, <2>2, <2>3, <2>4
<1>10. \A o \in 1..new : o \in 1..size \/ o = new
  BY <1>1, <1>6
<1>11. PICK up : up = Amended
  OBVIOUS
<1>12. PICK on : on = Amended'
  OBVIOUS
<1>13. Amending(on, new)
  <2>1. \A o \in 1..size : on[o] \in 0..(o - 1)
    BY <1>1, <1>9, <1>12 DEF AgreementsInv, OffersInv, Amending
  <2>2. on[new] \in 0..(new - 1)
    BY <1>1, <1>4, <1>6, <1>9, <1>12
  <2> QED BY <1>10, <2>1, <2>2 DEF Amending
<1>14. OneSuccessor(on, new)
  <2>1. \A o, n \in 1..size : (on[o] = on[n] /\ on[o] # 0) => o = n
    BY <1>1, <1>9, <1>12 DEF AgreementsInv, OffersInv, OneSuccessor
  <2>2. \A o \in 1..size : amended # 0 => on[o] # amended
    BY <1>1, <1>9, <1>12 DEF Offer
  <2>3. on[new] = amended
    BY <1>9, <1>12
  <2> QED BY <1>10, <2>1, <2>2, <2>3 DEF OneSuccessor
<1>15. OffersInv'
  <2>1. new <= MaxOffers
    BY <1>1, <1>3, <1>6, AgreementsAssumption
  <2> QED BY <1>7, <1>12, <1>13, <1>14, <2>1 DEF OffersInv
<1>16. OffersGo
  BY <1>1, <1>6, <1>7, <1>9 DEF OffersGo
<1>17. UNCHANGED <<clock, activations, work, held>>
  BY DEF Offer
<1>18. ActivationsInv'
  BY <1>15, <1>16, <1>17, ActivationsStay DEF AgreementsInv
<1>19. OnlyTheTermsInForceAreOwed' /\ Len(work)' = Len(activations)'
  BY <1>17 DEF AgreementsInv, OnlyTheTermsInForceAreOwed, Activations
<1>20. AgreementsTypeOK'
  BY <1>7, <1>17 DEF AgreementsInv, AgreementsTypeOK, OfferRecord
<1> QED BY <1>15, <1>18, <1>19, <1>20 DEF AgreementsInv

\* terminateAgreement, and an acceptance that is not the last one.
LEMMA OfferRowKeeps ==
  ASSUME AgreementsInv, offers' \in Seq(OfferRecord), Len(offers') = Len(offers),
         \A o \in Offers : offers'[o].supersedes = offers[o].supersedes,
         UNCHANGED <<clock, activations, work, held>>
  PROVE  AgreementsInv'
<1>1. OffersInv' /\ OffersGo
  BY OffersKeepAmending
<1>2. ActivationsInv'
  BY <1>1, ActivationsStay DEF AgreementsInv
<1>3. OnlyTheTermsInForceAreOwed' /\ Len(work)' = Len(activations)'
  BY DEF AgreementsInv, OnlyTheTermsInForceAreOwed, Activations
<1>4. AgreementsTypeOK'
  BY DEF AgreementsInv, AgreementsTypeOK, OfferRecord
<1> QED BY <1>1, <1>2, <1>3, <1>4 DEF AgreementsInv

LEMMA TerminateKeeps ==
  ASSUME AgreementsInv, NEW o \in Offers, NEW now \in Sampled, Terminate(o, now)
  PROVE  AgreementsInv'
<1>1. offers[o] \in OfferRecord
  BY DEF AgreementsInv, OffersInv, Offers
<1>2. PICK row : row = [offers[o] EXCEPT !.ended = TRUE]
  OBVIOUS
<1>3. row \in OfferRecord /\ row.supersedes = offers[o].supersedes
  BY <1>1, <1>2 DEF OfferRecord
<1>4. offers' = [offers EXCEPT ![o] = row]
  BY <1>2 DEF Terminate
<1>5. offers' \in Seq(OfferRecord) /\ Len(offers') = Len(offers)
  BY <1>3, <1>4 DEF AgreementsInv, OffersInv, Offers
<1>6. \A n \in Offers : offers'[n].supersedes = offers[n].supersedes
  BY <1>3, <1>4 DEF AgreementsInv, OffersInv, Offers
<1> QED BY <1>5, <1>6, OfferRowKeeps DEF Terminate

\* The commitments of an activation that nothing replaced may be in any state.
LEMMA WorkKeeps ==
  ASSUME AgreementsInv, UNCHANGED <<clock, offers, activations>>,
         held' \in SUBSET (Nat \X Parties),
         work' \in Seq([Parties -> {"open", "closed", "reopened"}]), Len(work') = Len(work),
         \A a \in Activations, p \in Parties : work'[a][p] = "open" => work[a][p] = "open"
  PROVE  AgreementsInv'
<1>1. OffersInv' /\ OffersGo
  BY OffersKeepAmending DEF AgreementsInv, OffersInv
<1>2. ActivationsInv'
  BY <1>1, ActivationsStay DEF AgreementsInv
<1>3. AgreementsTypeOK'
  BY DEF AgreementsInv, AgreementsTypeOK
<1>4. OnlyTheTermsInForceAreOwed'
  <2>1. Activations' = Activations
    BY DEF Activations
  <2>2. PICK size \in Nat : size = Len(activations) /\ Activations = 1..size
    BY DEF AgreementsInv, AgreementsTypeOK, Activations
  <2>3. ASSUME NEW b \in Activations, activations[b].supersedes # 0, NEW p \in Parties
        PROVE  work'[activations[b].supersedes][p] # "open"
    <3>1. activations[b].supersedes \in 0..(b - 1)
      BY DEF AgreementsInv, ActivationsInv
    <3>2. activations[b].supersedes \in Activations
      BY <2>2, <2>3, <3>1
    <3>3. work[activations[b].supersedes][p] # "open"
      BY <2>3 DEF AgreementsInv, OnlyTheTermsInForceAreOwed
    <3> QED BY <3>2, <3>3
  <2> QED BY <2>1, <2>3 DEF OnlyTheTermsInForceAreOwed
<1> QED BY <1>1, <1>2, <1>3, <1>4 DEF AgreementsInv

\* acceptAgreement
LEMMA AcceptKeeps ==
  ASSUME AgreementsInv, NEW o \in Offers, NEW p \in Parties, NEW now \in Sampled,
         Accept(o, p, now)
  PROVE  AgreementsInv'
<1>1. offers[o] \in OfferRecord
  BY DEF AgreementsInv, OffersInv, Offers
<1>2. PICK row : row = [offers[o] EXCEPT !.accepted = offers[o].accepted \cup {p}]
  OBVIOUS
<1>3. row \in OfferRecord /\ row.supersedes = offers[o].supersedes
  BY <1>1, <1>2 DEF OfferRecord
<1>4. offers' = [offers EXCEPT ![o] = row]
  BY <1>2 DEF Accept
<1>5. offers' \in Seq(OfferRecord) /\ Len(offers') = Len(offers)
  BY <1>3, <1>4 DEF AgreementsInv, OffersInv, Offers
<1>6. \A n \in Offers : offers'[n].supersedes = offers[n].supersedes
  BY <1>3, <1>4 DEF AgreementsInv, OffersInv, Offers
<1>7. CASE UNCHANGED <<activations, work, held>>
  BY <1>5, <1>6, <1>7, OfferRowKeeps DEF Accept
<1>8. CASE Compile(o)
  <2>1. OffersInv' /\ OffersGo
    BY <1>5, <1>6, OffersKeepAmending
  <2>2. PICK old : old = NearestActivation(o)
    OBVIOUS
  <2>3. activations' = Append(activations, [offer |-> o, supersedes |-> old])
    BY <1>8, <2>2 DEF Compile
  <2>4. ~Activated(o) /\ ~HasAcceptedSuccessor(o)
    BY DEF Accept, View
  <2>5. ActivationsInv'
    BY <2>1, <2>2, <2>3, <2>4, CompileKeepsActivations
  <2>6. PICK size \in Nat : /\ size = Len(activations) /\ Activations = 1..size
                            /\ size = Len(work) /\ DOMAIN work = 1..size
    BY DEF AgreementsInv, AgreementsTypeOK, Activations
  <2>7. old = 0 \/ old \in Activations
    BY <2>2, NearestIsNearest
  <2>8. old \in Nat /\ o \in 1..MaxOffers
    BY <2>6, <2>7, AgreementsAssumption DEF AgreementsInv, OffersInv, Offers
  <2>9. [offer |-> o, supersedes |-> old] \in [offer : 1..MaxOffers, supersedes : Nat]
    BY <2>8
  <2>10. PICK new : new = size + 1
    OBVIOUS
  <2>11. PICK owed : owed = {q \in Parties : old # 0 /\ work[old][q] \in Outstanding}
    OBVIOUS
  <2>12. PICK after : after = [a \in DOMAIN work |-> [q \in Parties |->
                                 IF a = old /\ q \in owed THEN "closed" ELSE work[a][q]]]
    OBVIOUS
  <2>13. PICK fresh : fresh = [q \in Parties |-> "open"]
    OBVIOUS
  <2>14. work' = Append(after, fresh) /\ UNCHANGED held /\ UNCHANGED clock
    BY <1>8, <2>2, <2>11, <2>12, <2>13 DEF Accept, Compile
  <2>15. PICK States : States = [Parties -> {"open", "closed", "reopened"}]
    OBVIOUS
  <2>16. work \in Seq(States)
    BY <2>15 DEF AgreementsInv, AgreementsTypeOK
  <2>17. \A a \in 1..size : after[a] \in States
    <3>1. \A a \in 1..size : work[a] \in States
      BY <2>6, <2>16
    <3> QED BY <2>6, <2>12, <2>15, <3>1
  <2>18. after \in Seq(States) /\ Len(after) = size
    <3>1. after = [a \in 1..size |-> after[a]]
      BY <2>6, <2>12
    <3> QED BY <2>6, <2>17, <3>1
  <2>19. fresh \in States
    BY <2>13, <2>15
  <2>20. /\ work' \in Seq(States) /\ Len(work') = new
         /\ \A a \in 1..size : work'[a] = after[a]
    BY <2>6, <2>10, <2>14, <2>18, <2>19
  <2>21. /\ activations' \in Seq([offer : 1..MaxOffers, supersedes : Nat])
         /\ Len(activations') = new /\ activations'[new].supersedes = old
         /\ \A a \in 1..size : activations'[a] = activations[a]
    <3>1. activations \in Seq([offer : 1..MaxOffers, supersedes : Nat])
      BY DEF AgreementsInv, AgreementsTypeOK
    <3>2. PICK last : last = [offer |-> o, supersedes |-> old]
      OBVIOUS
    <3>3. last.supersedes = old
      BY <3>2
    <3>4. PICK Rows : Rows = [offer : 1..MaxOffers, supersedes : Nat]
      OBVIOUS
    <3>5. activations \in Seq(Rows) /\ last \in Rows /\ activations' = Append(activations, last)
      BY <2>3, <2>9, <3>1, <3>2, <3>4
    <3>6. /\ activations' \in Seq(Rows) /\ Len(activations') = new /\ activations'[new] = last
          /\ \A a \in 1..size : activations'[a] = activations[a]
      <4>1. PICK rows \in Seq(Rows) : rows = activations
        BY <3>5
      <4>2. PICK more : more = Append(rows, last)
        OBVIOUS
      <4>3. /\ more \in Seq(Rows) /\ Len(more) = Len(rows) + 1 /\ more[Len(rows) + 1] = last
            /\ \A a \in 1..Len(rows) : more[a] = rows[a]
        BY <3>5, <4>2, AppendProperties
      <4> QED BY <2>6, <2>10, <3>5, <4>1, <4>2, <4>3
    <3> QED BY <3>3, <3>4, <3>6
  <2>22. AgreementsTypeOK'
    <3>1. offers' \in Seq([supersedes : 0..MaxOffers, expiresAt : Nat,
                           accepted : SUBSET Parties, ended : BOOLEAN])
      BY <1>5 DEF OfferRecord
    <3>2. clock' \in 0..MaxClock /\ held' \in SUBSET (Nat \X Parties)
      BY <2>14 DEF AgreementsInv, AgreementsTypeOK
    <3> QED BY <2>15, <2>20, <2>21, <3>1, <3>2 DEF AgreementsTypeOK
  <2>23. OnlyTheTermsInForceAreOwed'
    <3>1. Activations' = 1..new
      BY <2>6, <2>10, <2>21 DEF Activations
    <3>2. ASSUME NEW b \in 1..new, activations'[b].supersedes # 0, NEW q \in Parties
          PROVE  work'[activations'[b].supersedes][q] # "open"
      <4>1. CASE b = new
        <5>1. old # 0 /\ old \in 1..size /\ activations'[b].supersedes = old
          BY <2>6, <2>7, <2>21, <3>2, <4>1
        <5>2. work'[old][q] = IF q \in owed THEN "closed" ELSE work[old][q]
          BY <2>6, <2>12, <2>20, <5>1
        <5>3. q \notin owed => work[old][q] # "open"
          BY <2>11, <5>1 DEF Outstanding
        <5> QED BY <5>1, <5>2, <5>3
      <4>2. CASE b # new
        <5>1. b \in Activations /\ activations'[b] = activations[b]
          BY <2>6, <2>10, <2>21, <4>2
        <5>2. PICK low : low = activations[b].supersedes
          OBVIOUS
        <5>3. low \in 0..(b - 1) /\ low # 0
          BY <3>2, <5>1, <5>2 DEF AgreementsInv, ActivationsInv
        <5>4. low \in 1..size
          BY <2>6, <5>1, <5>3
        <5>5. work[low][q] # "open"
          BY <5>1, <5>2, <5>3 DEF AgreementsInv, OnlyTheTermsInForceAreOwed
        <5>6. work'[low][q] = "closed" \/ work'[low][q] = work[low][q]
          BY <2>6, <2>12, <2>20, <5>4
        <5> QED BY <5>1, <5>2, <5>5, <5>6
      <4> QED BY <4>1, <4>2
    <3> QED BY <3>1, <3>2 DEF OnlyTheTermsInForceAreOwed
  <2> QED BY <2>1, <2>5, <2>20, <2>21, <2>22, <2>23 DEF AgreementsInv
<1> QED BY <1>7, <1>8 DEF Accept

LEMMA AgreementsStep == AgreementsInv /\ [AgreementsNext]_agreementVars => AgreementsInv'
<1> SUFFICES ASSUME AgreementsInv, [AgreementsNext]_agreementVars
             PROVE  AgreementsInv'
  OBVIOUS
<1>1. /\ work \in Seq([Parties -> {"open", "closed", "reopened"}])
      /\ held \in SUBSET (Nat \X Parties) /\ clock \in 0..MaxClock
      /\ offers \in Seq(OfferRecord)
  BY DEF AgreementsInv, AgreementsTypeOK, OffersInv
<1>2. Activations = DOMAIN work /\ Activations \subseteq Nat
  BY DEF AgreementsInv, AgreementsTypeOK, Activations
<1>3. CASE UNCHANGED agreementVars
  BY <1>1, <1>3, WorkKeeps DEF agreementVars
<1>4. CASE Tick
  <2>1. OffersInv' /\ OffersGo
    BY <1>1, <1>4, OffersKeepAmending DEF Tick
  <2>2. ActivationsInv'
    BY <1>4, <2>1, ActivationsStay DEF Tick, AgreementsInv
  <2>3. clock' \in 0..MaxClock
    BY <1>1, <1>4, AgreementsAssumption DEF Tick
  <2>4. AgreementsTypeOK'
    BY <1>4, <2>3 DEF Tick, AgreementsInv, AgreementsTypeOK
  <2>5. OnlyTheTermsInForceAreOwed' /\ Len(work)' = Len(activations)'
    BY <1>4 DEF Tick, AgreementsInv, OnlyTheTermsInForceAreOwed, Activations
  <2> QED BY <2>1, <2>2, <2>4, <2>5 DEF AgreementsInv
<1>5. ASSUME NEW now \in Sampled, NEW amended \in {0} \cup Offers, NEW lifetime \in Lifetimes,
             Offer(amended, lifetime, now)
      PROVE  AgreementsInv'
  BY <1>5, OfferKeeps
<1>6. ASSUME NEW now \in Sampled, NEW o \in Offers, Terminate(o, now)
      PROVE  AgreementsInv'
  BY <1>6, TerminateKeeps
<1>7. ASSUME NEW now \in Sampled, NEW o \in Offers, NEW p \in Parties, Accept(o, p, now)
      PROVE  AgreementsInv'
  BY <1>7, AcceptKeeps
<1>8. ASSUME NEW a \in Activations, NEW p \in Parties, Close(a, p) \/ Reopen(a, p)
      PROVE  AgreementsInv'
  <2>1. PICK state \in {"closed", "reopened"} :
          /\ work' = [work EXCEPT ![a][p] = state]
          /\ UNCHANGED <<clock, offers, activations, held>>
    BY <1>8 DEF Close, Reopen
  <2>2. PICK States : States = [Parties -> {"open", "closed", "reopened"}]
    OBVIOUS
  <2>3. work[a] \in States
    BY <1>1, <1>2, <2>2
  <2>4. PICK after : after = [work[a] EXCEPT ![p] = state]
    OBVIOUS
  <2>5. after \in States
    BY <2>1, <2>2, <2>3, <2>4
  <2>6. work' = [work EXCEPT ![a] = after]
    BY <2>1, <2>4
  <2>7. work' \in Seq(States) /\ Len(work') = Len(work)
    BY <1>1, <1>2, <2>2, <2>5, <2>6
  <2>8. \A b \in Activations, q \in Parties : work'[b][q] = "open" => work[b][q] = "open"
    BY <1>2, <2>1, <2>2, <2>3, <2>4, <2>6
  <2> QED BY <1>1, <2>1, <2>2, <2>7, <2>8, WorkKeeps
<1>9. ASSUME NEW a \in Activations, NEW p \in Parties, Hold(a, p) \/ LetGo(a, p)
      PROVE  AgreementsInv'
  <2>1. held' \in SUBSET (Nat \X Parties) /\ UNCHANGED <<clock, offers, activations, work>>
    BY <1>1, <1>2, <1>9 DEF Hold, LetGo
  <2> QED BY <1>1, <2>1, WorkKeeps
<1> QED BY <1>3, <1>4, <1>5, <1>6, <1>7, <1>8, <1>9 DEF AgreementsNext

LEMMA AgreementsInvariant == AgreementsSpec => []AgreementsInv
BY AgreementsStart, AgreementsStep, PTL DEF AgreementsSpec

-----------------------------------------------------------------------------
(* Agreements: the theorems. *)

\* The tables of agreements keep their types, for any parties and any lag (agreements.ts).
THEOREM AgreementsTypes == AgreementsSpec => []AgreementsTypeOK
<1>1. AgreementsInv => AgreementsTypeOK
  BY DEF AgreementsInv
<1> QED BY <1>1, AgreementsInvariant, PTL

\* The walk down the amendments and the walk up them agree on the terms in force, and of
\* one agreement with its amendments one set of terms at most is in force
\* (getAgreementView, compileActivation).
THEOREM OneSetOfTerms == AgreementsSpec => []OneSetOfTermsInForce
<1>1. ASSUME AgreementsInv
      PROVE  OneSetOfTermsInForce
  <2>1. \A a \in Activations : activations[a].offer \in Offers
    BY <1>1 DEF AgreementsInv, ActivationsInv
  <2>2. ASSUME NEW a \in Activations
        PROVE  View(activations[a].offer, clock) = "accepted"
                 <=> \A b \in Activations : activations[b].supersedes # a
    <3>1. Activated(activations[a].offer)
      BY DEF Activated
    <3>2. View(activations[a].offer, clock) = "accepted"
            <=> ~HasAcceptedSuccessor(activations[a].offer)
      BY <3>1 DEF View
    <3>3. HasAcceptedSuccessor(activations[a].offer)
            => \E b \in Activations : activations[b].supersedes = a
      BY <1>1 DEF HasAcceptedSuccessor, Newer, Activated, AgreementsInv, ActivationsInv
    <3>4. ASSUME NEW b \in Activations, activations[b].supersedes = a
          PROVE  HasAcceptedSuccessor(activations[a].offer)
      <4>1. a # 0
        BY <1>1 DEF AgreementsInv, AgreementsTypeOK, Activations
      <4>2. activations[a].offer \in Older[activations[b].offer]
        BY <1>1, <3>4, <4>1 DEF AgreementsInv, ActivationsInv
      <4> QED BY <2>1, <4>2 DEF HasAcceptedSuccessor, Newer, Activated
    <3> QED BY <3>2, <3>3, <3>4
  <2>3. ASSUME NEW a \in Activations, NEW b \in Activations, a # b,
               \A c \in Activations : activations[c].supersedes # a,
               \A c \in Activations : activations[c].supersedes # b
        PROVE  /\ activations[a].offer \notin Older[activations[b].offer]
               /\ Older[activations[a].offer] \cap Older[activations[b].offer] = {}
    <3>1. /\ activations[a].offer \notin Older[activations[b].offer]
          /\ activations[b].offer \notin Older[activations[a].offer]
          /\ activations[a].offer # activations[b].offer
      BY <1>1, <2>3 DEF AgreementsInv, ActivationsInv
    <3>2. \A k \in Older[activations[a].offer] : k \notin Older[activations[b].offer]
      BY <1>1, <2>1, <3>1, OlderFacts DEF AgreementsInv
    <3> QED BY <3>1, <3>2
  <2> QED BY <2>2, <2>3 DEF OneSetOfTermsInForce
<1>2. AgreementsInv => OneSetOfTermsInForce
  BY <1>1
<1> QED BY <1>2, AgreementsInvariant, PTL

\* Whatever replaced terms owed is settled when the newer ones take over, or somebody
\* reopened it (compileActivation).
THEOREM ReplacedTermsAreSettled == AgreementsSpec => []OnlyTheTermsInForceAreOwed
<1>1. AgreementsInv => OnlyTheTermsInForceAreOwed
  BY DEF AgreementsInv
<1> QED BY <1>1, AgreementsInvariant, PTL

-----------------------------------------------------------------------------
(* Settlement: the invariant. *)

Settles(d) == decisions[d].kind = "settlement"

\* A decision supersedes an older one, a settlement has no prior decision, and a
\* commitment exists with an entitlement.
RowsAreWhole ==
  \A d \in Decisions :
    /\ decisions[d].supersedes \in 0..Len(decisions)
    /\ Settles(d) => decisions[d].prior = 0
    /\ ~decisions[d].entitled => task[d] = "none"

\* Whoever settles after another one finds the root of the chain.
RootIsThere ==
  (\E d \in Decisions : Settles(d)) =>
    \E r \in Decisions : Settles(r) /\ decisions[r].supersedes = 0

SupersededIsClosed ==
  \A d \in Decisions :
    Superseded(d) => task[d] \in Closed \cup {"none"} \/ d \in revived

OneStands ==
  \A d, other \in Decisions :
    d # other /\ Settles(d) /\ Settles(other) => Superseded(d) \/ Superseded(other)

SettlementInv == SettlementTypeOK /\ RowsAreWhole /\ RootIsThere /\ SupersededIsClosed /\ OneStands

-----------------------------------------------------------------------------
LEMMA SettlementStart == SettlementInit => SettlementInv
<1> SUFFICES ASSUME SettlementInit PROVE SettlementInv
  OBVIOUS
<1>1. SettlementTypeOK
  BY DEF SettlementInit, SettlementTypeOK
<1>2. Decisions = {}
  BY DEF SettlementInit, Decisions
<1> QED
  BY <1>1, <1>2 DEF SettlementInv, RowsAreWhole, RootIsThere, SupersededIsClosed, OneStands

\* An effect that is withdrawn, or whose status changes, is an effect.
LEMMA EffectRowTypes ==
  ASSUME NEW effect \in EffectRecord
  PROVE  /\ Withdrawn(effect) \in EffectRecord
         /\ \A status \in {"authorized", "executing", "indeterminate", "committed", "failed",
                           "cancelled"} : [effect EXCEPT !.status = status] \in EffectRecord
BY DEF Withdrawn, EffectRecord

\* The rows before and after the decision new.
Added(new, prior, supersedes, entitled) ==
  /\ SettlementTypeOK'
  /\ Decisions' = Decisions \cup {new} /\ new \notin Decisions /\ 0 \notin Decisions
  /\ new = Len(decisions) + 1 /\ new = Len(decisions)'
  /\ \A d \in Decisions : decisions'[d] = decisions[d]
  /\ decisions'[new].kind = KindOf(prior) /\ decisions'[new].prior = prior
  /\ decisions'[new].supersedes = supersedes /\ decisions'[new].entitled = entitled
  /\ \A d \in Decisions : task'[d] = IF d = supersedes /\ decisions[d].entitled
                                     THEN "cancelled" ELSE task[d]
  /\ task'[new] = IF entitled THEN "open" ELSE "none"
  /\ revived' = revived \ {supersedes}

\* What becomes of the rows when a decision is added.
LEMMA EvaluateRows ==
  ASSUME SettlementTypeOK,
         NEW prior \in {0} \cup Decisions, NEW supersedes \in {0} \cup Decisions,
         NEW entitled \in BOOLEAN, NEW proposes \in BOOLEAN,
         Evaluate(prior, supersedes, entitled, proposes)
  PROVE  \E new \in Nat : Added(new, prior, supersedes, entitled)
<1> DEFINE new == Len(decisions) + 1
           effect == IF proposes THEN Len(effects) + 1 ELSE 0
           row == [kind |-> KindOf(prior), prior |-> prior, supersedes |-> supersedes,
                   entitled |-> entitled, effect |-> effect]
           status == IF entitled THEN "open" ELSE "none"
<1>1. /\ decisions' = Append(decisions, row)
      /\ task' = Append(TasksAfter(supersedes), status)
      /\ revived' = revived \ {supersedes}
      /\ attempt' = Append(attempt, "none")
      /\ effects' = EffectsAfter(supersedes) \o Materialized(new, proposes)
  BY DEF Evaluate
<1>2. /\ Decisions = 1..Len(decisions) /\ Len(decisions) \in Nat
      /\ EffectRows = 1..Len(effects) /\ Len(effects) \in Nat
  BY DEF Decisions, EffectRows, SettlementTypeOK
<1>3. row \in DecisionRecord
  BY <1>2 DEF DecisionRecord, KindOf
<1>4. decisions' \in Seq(DecisionRecord) /\ Len(decisions') = new
      /\ decisions'[new] = row /\ \A d \in Decisions : decisions'[d] = decisions[d]
  BY <1>1, <1>2, <1>3 DEF SettlementTypeOK
<1>5. TasksAfter(supersedes) \in Seq(Statuses) /\ Len(TasksAfter(supersedes)) = Len(decisions)
  BY <1>2 DEF SettlementTypeOK, TasksAfter, Statuses
<1>6. /\ task' \in Seq(Statuses) /\ Len(task') = new /\ task'[new] = status
      /\ \A d \in Decisions : task'[d] = TasksAfter(supersedes)[d]
  BY <1>1, <1>2, <1>5 DEF Statuses
<1>7. attempt' \in Seq({"none", "running", "ended"}) /\ Len(attempt') = new
  BY <1>1, <1>2 DEF SettlementTypeOK
<1>8. EffectsAfter(supersedes) \in Seq(EffectRecord)
  <2>1. \A e \in EffectRows : effects[e] \in EffectRecord
    BY <1>2 DEF SettlementTypeOK
  <2>2. \A e \in EffectRows : Withdrawn(effects[e]) \in EffectRecord
    BY <2>1, EffectRowTypes
  <2>3. \A e \in EffectRows : EffectsAfter(supersedes)[e] \in EffectRecord
    BY <2>1, <2>2 DEF EffectsAfter
  <2>4. DOMAIN EffectsAfter(supersedes) = 1..Len(effects)
        /\ EffectsAfter(supersedes) = [e \in 1..Len(effects) |-> EffectsAfter(supersedes)[e]]
    BY <1>2 DEF EffectsAfter
  <2> QED
    BY <1>2, <2>3, <2>4, IsASeq
<1>9. Materialized(new, proposes) \in Seq(EffectRecord)
  <2>1. [for |-> new, attached |-> FALSE, status |-> "proposed"] \in EffectRecord
    BY <1>2 DEF EffectRecord
  <2>2. \A e \in EffectRecord : <<e>> \in Seq(EffectRecord)
    OBVIOUS
  <2>3. << >> \in Seq(EffectRecord)
    OBVIOUS
  <2> QED
    BY <2>1, <2>2, <2>3 DEF Materialized
<1>10. effects' \in Seq(EffectRecord)
  BY <1>1, <1>8, <1>9, ConcatProperties
<1>11. SettlementTypeOK'
  BY <1>1, <1>4, <1>6, <1>7, <1>10 DEF SettlementTypeOK
<1>12. Decisions' = Decisions \cup {new} /\ new \notin Decisions /\ 0 \notin Decisions
  BY <1>2, <1>4 DEF Decisions
<1> QED
  <2>1. Added(new, prior, supersedes, entitled)
    BY <1>1, <1>2, <1>4, <1>6, <1>11, <1>12 DEF TasksAfter, Added
  <2> QED
    BY <1>2, <2>1

\* Adding a decision: a root is the first settlement, and any other settlement
\* supersedes the one that stands.
LEMMA EvaluateKeepsInv ==
  ASSUME SettlementInv,
         NEW prior \in {0} \cup Decisions, NEW supersedes \in {0} \cup Decisions,
         NEW entitled \in BOOLEAN, NEW proposes \in BOOLEAN,
         Evaluate(prior, supersedes, entitled, proposes)
  PROVE  SettlementInv'
<1>1. PICK new \in Nat : Added(new, prior, supersedes, entitled)
  <2>1. SettlementTypeOK
    BY DEF SettlementInv
  <2> QED
    BY <2>1, EvaluateRows
<1>0. Len(decisions) \in Nat /\ Decisions = 1..Len(decisions)
  BY DEF Decisions, SettlementInv, SettlementTypeOK
<1>2. /\ supersedes # 0 => decisions[supersedes].kind = KindOf(prior)
      /\ IndexesAllow(KindOf(prior), prior, supersedes)
  BY DEF Evaluate
<1>3. \A d \in Decisions : (Settles(d)' <=> Settles(d)) /\ (Superseded(d) => Superseded(d)')
  BY <1>1 DEF Settles, Superseded, Added
<1>4. \A d \in Decisions : Superseded(d)' => Superseded(d) \/ d = supersedes
  BY <1>1 DEF Superseded, Added
<1>5. Settles(new)' <=> prior = 0
  BY <1>1 DEF Settles, KindOf, Added
<1>6. ~Superseded(new)'
  <2>1. supersedes # new
    BY <1>0, <1>1 DEF Added
  <2>2. \A d \in Decisions : decisions[d].supersedes # new
    BY <1>0, <1>1 DEF SettlementInv, RowsAreWhole, Added
  <2> QED
    BY <1>1, <2>1, <2>2 DEF Superseded, Added
<1>7. RowsAreWhole'
  <2>1. ASSUME NEW d \in Decisions
        PROVE  /\ decisions'[d].supersedes \in 0..Len(decisions)'
               /\ Settles(d)' => decisions'[d].prior = 0
               /\ ~decisions'[d].entitled => task'[d] = "none"
    BY <1>0, <1>1, <1>3 DEF SettlementInv, RowsAreWhole, Added
  <2>2. /\ decisions'[new].supersedes \in 0..Len(decisions)'
        /\ Settles(new)' => decisions'[new].prior = 0
        /\ ~decisions'[new].entitled => task'[new] = "none"
    BY <1>0, <1>1, <1>5 DEF Added
  <2> QED
    BY <1>1, <2>1, <2>2 DEF RowsAreWhole, Added
<1>8. RootIsThere'
  BY <1>1, <1>2, <1>3, <1>5 DEF SettlementInv, RootIsThere, Settles, Added
<1>9. SupersededIsClosed'
  <2> SUFFICES ASSUME NEW d \in Decisions', Superseded(d)'
               PROVE  task'[d] \in Closed \cup {"none"} \/ d \in revived'
    BY DEF SupersededIsClosed
  <2>1. d \in Decisions
    BY <1>1, <1>6 DEF Added
  <2>2. CASE d = supersedes
    BY <1>1, <2>1, <2>2 DEF SettlementInv, RowsAreWhole, Closed, Added
  <2>3. CASE d # supersedes
    BY <1>1, <1>4, <2>1, <2>3 DEF SettlementInv, SupersededIsClosed, Added
  <2> QED
    BY <2>2, <2>3
<1>10. OneStands'
  <2>1. supersedes = 0 /\ prior = 0 => \A d \in Decisions : ~Settles(d)
    BY <1>2 DEF IndexesAllow, KindOf, SettlementInv, RowsAreWhole, RootIsThere, Settles
  <2>2. supersedes # 0 /\ prior = 0 =>
          /\ supersedes \in Decisions /\ Settles(supersedes) /\ ~Superseded(supersedes)
          /\ Superseded(supersedes)'
    BY <1>1, <1>2 DEF IndexesAllow, KindOf, Settles, Superseded, Added
  <2>3. ASSUME prior = 0, NEW d \in Decisions, Settles(d) PROVE Superseded(d)'
    BY <1>3, <2>1, <2>2, <2>3 DEF SettlementInv, OneStands
  <2>4. ASSUME NEW d \in Decisions', NEW other \in Decisions', d # other,
               Settles(d)', Settles(other)'
        PROVE  Superseded(d)' \/ Superseded(other)'
    BY <1>1, <1>3, <1>5, <2>3, <2>4 DEF SettlementInv, OneStands, Added
  <2> QED
    BY <2>4 DEF OneStands
<1> QED
  BY <1>1, <1>7, <1>8, <1>9, <1>10 DEF SettlementInv, Added

\* Work on a commitment: closing it takes it out of the reopened ones.
LEMMA TransitionKeepsInv ==
  ASSUME SettlementInv, NEW d \in Decisions, NEW to \in Statuses \ {"none"}, Transition(d, to)
  PROVE  SettlementInv'
<1>1. /\ task' = [task EXCEPT ![d] = to] /\ task[d] # "none"
      /\ revived' = IF task[d] \in Closed THEN revived \cup {d}
                    ELSE IF to \in Closed THEN revived \ {d} ELSE revived
      /\ UNCHANGED <<decisions, attempt, effects>>
  BY DEF Transition
<1>2. Decisions = 1..Len(decisions) /\ DOMAIN task = 1..Len(decisions)
  BY DEF Decisions, SettlementInv, SettlementTypeOK
<1>3. SettlementTypeOK'
  BY <1>1, <1>2 DEF SettlementInv, SettlementTypeOK
<1>4. \A other \in Decisions : task'[other] = IF other = d THEN to ELSE task[other]
  BY <1>1, <1>2
<1>5. /\ Decisions' = Decisions
      /\ \A other : (Settles(other)' <=> Settles(other)) /\ (Superseded(other)' <=> Superseded(other))
  BY <1>1 DEF Decisions, Settles, Superseded
<1>6. RowsAreWhole' /\ RootIsThere' /\ OneStands'
  BY <1>1, <1>4, <1>5 DEF SettlementInv, RowsAreWhole, RootIsThere, OneStands
<1>7. SupersededIsClosed'
  BY <1>1, <1>4, <1>5 DEF SettlementInv, SupersededIsClosed, Closed
<1> QED
  BY <1>3, <1>6, <1>7 DEF SettlementInv

\* Attempts and effects leave the decisions and their commitments alone.
LEMMA OthersKeepInv ==
  ASSUME SettlementInv, SettlementTypeOK', UNCHANGED <<decisions, task, revived>>
  PROVE  SettlementInv'
BY DEF SettlementInv, RowsAreWhole, RootIsThere, SupersededIsClosed, OneStands,
       Settles, Superseded, Decisions

LEMMA BecomesKeepsInv ==
  ASSUME SettlementInv, NEW e \in EffectRows,
         NEW status \in {"authorized", "executing", "indeterminate", "committed", "failed",
                         "cancelled"},
         Becomes(e, status)
  PROVE  SettlementInv'
<1>1. effects[e] \in EffectRecord
  BY DEF EffectRows, SettlementInv, SettlementTypeOK
<1>2. effects' = [effects EXCEPT ![e] = [effects[e] EXCEPT !.status = status]]
      /\ UNCHANGED <<decisions, task, revived, attempt>>
  BY DEF Becomes
<1>3. [effects[e] EXCEPT !.status = status] \in EffectRecord
  BY <1>1, EffectRowTypes
<1>4. effects' \in Seq(EffectRecord)
  BY <1>2, <1>3, ExceptSeq DEF EffectRows, SettlementInv, SettlementTypeOK
<1> QED
  BY <1>2, <1>4, OthersKeepInv DEF SettlementInv, SettlementTypeOK

LEMMA SettlementStep == SettlementInv /\ [SettlementNext]_settlementVars => SettlementInv'
<1> SUFFICES ASSUME SettlementInv, [SettlementNext]_settlementVars PROVE SettlementInv'
  OBVIOUS
<1>1. CASE UNCHANGED settlementVars
  BY <1>1, OthersKeepInv DEF settlementVars, SettlementInv, SettlementTypeOK
<1>2. ASSUME NEW prior \in {0} \cup Decisions, NEW supersedes \in {0} \cup Decisions,
             NEW entitled \in BOOLEAN, NEW proposes \in BOOLEAN,
             Evaluate(prior, supersedes, entitled, proposes)
      PROVE  SettlementInv'
  BY <1>2, EvaluateKeepsInv
<1>3. ASSUME NEW d \in Decisions, NEW to \in Statuses \ {"none"}, Transition(d, to)
      PROVE  SettlementInv'
  BY <1>3, TransitionKeepsInv
<1>4. ASSUME NEW d \in Decisions, StartAttempt(d) \/ EndAttempt(d) PROVE SettlementInv'
  <2>1. SettlementTypeOK'
    <3>1. attempt \in Seq({"none", "running", "ended"}) /\ d \in 1..Len(attempt)
      BY DEF Decisions, SettlementInv, SettlementTypeOK
    <3>2. \A to \in {"running", "ended"} :
            /\ [attempt EXCEPT ![d] = to] \in Seq({"none", "running", "ended"})
            /\ Len([attempt EXCEPT ![d] = to]) = Len(attempt)
      BY <3>1
    <3> QED
      BY <1>4, <3>2 DEF StartAttempt, EndAttempt, SettlementInv, SettlementTypeOK
  <2> QED
    BY <1>4, <2>1, OthersKeepInv DEF StartAttempt, EndAttempt
<1>5. ASSUME NEW d \in Decisions, NEW attached \in BOOLEAN, Propose(d, attached)
      PROVE  SettlementInv'
  <2>1. [for |-> d, attached |-> attached, status |-> "proposed"] \in EffectRecord
    BY DEF Decisions, EffectRecord, SettlementInv, SettlementTypeOK
  <2>2. effects' \in Seq(EffectRecord)
    BY <1>5, <2>1 DEF Propose, SettlementInv, SettlementTypeOK
  <2>3. SettlementTypeOK'
    BY <1>5, <2>2 DEF Propose, SettlementInv, SettlementTypeOK
  <2> QED
    BY <1>5, <2>3, OthersKeepInv DEF Propose
<1>6. ASSUME NEW e \in EffectRows,
             Cancel(e) \/ Authorize(e) \/ Begin(e)
               \/ \E outcome \in {"indeterminate", "committed", "failed"} : Receive(e, outcome)
      PROVE  SettlementInv'
  BY <1>6, BecomesKeepsInv DEF Cancel, Authorize, Begin, Receive
<1> QED
  BY <1>1, <1>2, <1>3, <1>4, <1>5, <1>6 DEF SettlementNext

\* Types, and what the indexes leave of the decisions, hold in every reachable state
\* (settlement.ts, migrations/0032_settlement_recourse.sql).
THEOREM SettlementInvariant == SettlementSpec => []SettlementInv
<1>1. SettlementInv /\ UNCHANGED settlementVars => SettlementInv'
  BY SettlementStep
<1> QED
  BY SettlementStart, SettlementStep, PTL DEF SettlementSpec

\* One settlement of the obligation stands and no other is owed, for any number of
\* decisions and effects (evaluateSettlementOrRecourse).
THEOREM OneSettlementIsAlwaysOwed == SettlementSpec => []OneSettlementIsOwed
<1>1. SettlementInv => OneSettlementIsOwed
  BY DEF SettlementInv, OneSettlementIsOwed, SupersededIsClosed, OneStands, Settles
<1> QED
  BY <1>1, SettlementInvariant, PTL
=============================================================================
