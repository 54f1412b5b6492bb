----------------------------- MODULE Agreements -----------------------------
(***************************************************************************)
(* Agreements between several parties (agreements.ts): offers, amendments  *)
(* of offers, the unanimous acceptance that compiles the terms into        *)
(* commitments, and the amendment that cancels what the older terms owe.   *)
(*                                                                         *)
(* Each operation is one transaction; `now` is sampled before it.  What an *)
(* offer is in is not stored: the code derives it by walking down the      *)
(* chain of amendments (acceptedSuccessorOfferId), and finds what an       *)
(* amendment replaces by walking up (nearestAncestorActivation).           *)
(***************************************************************************)
EXTENDS Naturals, Sequences, FiniteSetsExt

CONSTANTS
  Parties,      \* the parties of the agreement and of its amendments
  Lag,          \* how old the sample of `now` may be when its transaction runs
  Lifetimes,    \* how long after `now` an offer expires
  MaxClock,     \* bound: time
  MaxOffers     \* bound: rows of agreement_offer

ASSUME AgreementsAssumption ==
  Lag \in Nat /\ Lifetimes \subseteq Nat \ {0} /\ MaxClock \in Nat /\ MaxOffers \in Nat

VARIABLES
  clock,
  offers,       \* agreement_offer with its acceptances and its termination
  activations,  \* agreement_activation, oldest first
  work,         \* work[a][p]: the commitment compiled for the obligation of p
  held          \* <<a, p>>: open, but cannot be closed now: it is deleted, has a running
                \* attempt or a claim of another principal

agreementVars == <<clock, offers, activations, work, held>>

Offers == DOMAIN offers
Activations == DOMAIN activations

AgreementsTypeOK ==
  /\ clock \in 0..MaxClock
  /\ offers \in Seq([supersedes : 0..MaxOffers, expiresAt : Nat,
                     accepted : SUBSET Parties, ended : BOOLEAN])
  /\ activations \in Seq([offer : 1..MaxOffers, supersedes : Nat])
  \* closed is done or cancelled; one that was reopened is told from one never closed
  /\ work \in Seq([Parties -> {"open", "closed", "reopened"}])
  /\ held \in SUBSET (Nat \X Parties)

AgreementsInit ==
  /\ clock = 0
  /\ offers = <<>> /\ activations = <<>> /\ work = <<>>
  /\ held = {}

Sampled == {now \in 0..clock : now + Lag >= clock}

-----------------------------------------------------------------------------
(* Queries. *)

Activated(o) == \E a \in Activations : activations[a].offer = o

\* The offers that the offer amends, directly or not, and those that amend it.  Both
\* walks give up after a hundred offers, which refuses the operation: left out.
Older ==
  LET older[o \in 0..Len(offers)] ==
        IF o = 0 \/ offers[o].supersedes = 0 THEN {}
        ELSE {offers[o].supersedes} \cup older[offers[o].supersedes]
  IN older
Newer(o) == {n \in Offers : o \in Older[n]}

\* acceptedSuccessorOfferId
HasAcceptedSuccessor(o) == \E n \in Newer(o) : Activated(n)

\* The state in getAgreementView; "ended" is withdrawn or rejected.
View(o, now) ==
  IF HasAcceptedSuccessor(o) THEN "superseded"
  ELSE IF Activated(o) THEN "accepted"
  ELSE IF offers[o].ended THEN "ended"
  ELSE IF now >= offers[o].expiresAt THEN "expired"
  ELSE "offered"

\* Wrong on purpose: does not look past an amendment that was withdrawn or rejected.
DirectActivation(o) ==
  LET direct == {a \in Activations : activations[a].offer = offers[o].supersedes}
  IN IF direct = {} THEN 0 ELSE CHOOSE a \in direct : TRUE

\* nearestAncestorActivation: 0 when nothing older was activated.
NearestActivation(o) ==
  LET older == {n \in Older[o] : Activated(n)}
  IN IF older = {} THEN 0
     ELSE CHOOSE a \in Activations : activations[a].offer = Max(older)

-----------------------------------------------------------------------------
(* Operations. *)

\* offerAgreement.  A second amendment of the same offer breaks
\* uniq_agreement_offer_successor.
Offer(amended, lifetime, now) ==
  /\ Len(offers) < MaxOffers
  /\ amended # 0 => /\ View(amended, now) # "superseded"
                    /\ \A o \in Offers : offers[o].supersedes # amended
  /\ offers' = Append(offers, [supersedes |-> amended, expiresAt |-> now + lifetime,
                               accepted |-> {}, ended |-> FALSE])
  /\ UNCHANGED <<clock, activations, work, held>>

Outstanding == {"open", "reopened"}

\* Wrong on purpose: what cannot be cancelled is left running.
CompileAnyway(o) ==
  LET old == NearestActivation(o)
      owed == {p \in Parties : old # 0 /\ work[old][p] \in Outstanding /\ <<old, p>> \notin held}
      after == [a \in DOMAIN work |-> [p \in Parties |->
                  IF a = old /\ p \in owed THEN "closed" ELSE work[a][p]]]
  IN /\ work' = Append(after, [p \in Parties |-> "open"])
     /\ activations' = Append(activations, [offer |-> o, supersedes |-> old])
     /\ UNCHANGED held

\* compileActivation: cancels what the activation it replaces still owes, and is
\* refused when one of these commitments cannot be cancelled.
Compile(o) ==
  LET old == NearestActivation(o)
      owed == {p \in Parties : old # 0 /\ work[old][p] \in Outstanding}
      after == [a \in DOMAIN work |-> [p \in Parties |->
                  IF a = old /\ p \in owed THEN "closed" ELSE work[a][p]]]
  IN /\ \A p \in owed : <<old, p>> \notin held
     /\ work' = Append(after, [p \in Parties |-> "open"])
     /\ activations' = Append(activations, [offer |-> o, supersedes |-> old])
     /\ UNCHANGED held

\* acceptAgreement: the last party's acceptance activates.
Accept(o, p, now) ==
  /\ View(o, now) = "offered"
  /\ p \notin offers[o].accepted
  /\ offers' = [offers EXCEPT ![o].accepted = @ \cup {p}]
  /\ IF offers[o].accepted \cup {p} = Parties
     THEN Compile(o)
     ELSE UNCHANGED <<activations, work, held>>
  /\ UNCHANGED clock

\* terminateAgreement: the offeror withdraws, or a party rejects, the offeror too.
Terminate(o, now) ==
  /\ View(o, now) = "offered"
  /\ offers' = [offers EXCEPT ![o].ended = TRUE]
  /\ UNCHANGED <<clock, activations, work, held>>

\* What others do with a compiled commitment.
Close(a, p) ==
  /\ work[a][p] \in Outstanding /\ <<a, p>> \notin held
  /\ work' = [work EXCEPT ![a][p] = "closed"]
  /\ UNCHANGED <<clock, offers, activations, held>>

Reopen(a, p) ==
  /\ work[a][p] = "closed"
  /\ work' = [work EXCEPT ![a][p] = "reopened"]
  /\ UNCHANGED <<clock, offers, activations, held>>

\* It is deleted, or someone starts to work on it; and the reverse.
Hold(a, p) ==
  /\ work[a][p] \in Outstanding /\ <<a, p>> \notin held
  /\ held' = held \cup {<<a, p>>}
  /\ UNCHANGED <<clock, offers, activations, work>>

LetGo(a, p) ==
  /\ <<a, p>> \in held
  /\ held' = held \ {<<a, p>>}
  /\ UNCHANGED <<clock, offers, activations, work>>

Tick ==
  /\ clock < MaxClock
  /\ clock' = clock + 1
  /\ UNCHANGED <<offers, activations, work, held>>

AgreementsNext ==
  \/ Tick
  \/ \E now \in Sampled :
       \/ \E amended \in {0} \cup Offers, lifetime \in Lifetimes : Offer(amended, lifetime, now)
       \/ \E o \in Offers : Terminate(o, now) \/ \E p \in Parties : Accept(o, p, now)
  \/ \E a \in Activations, p \in Parties :
       Close(a, p) \/ Reopen(a, p) \/ Hold(a, p) \/ LetGo(a, p)

AgreementsSpec == AgreementsInit /\ [][AgreementsNext]_agreementVars

-----------------------------------------------------------------------------
(* Properties. *)

\* The two walks over the chain agree: the offers the view calls accepted are those
\* whose activation no activation replaced, and of one agreement with all its
\* amendments there is at most one (getAgreementView, compileActivation).
OneSetOfTermsInForce ==
  LET inForce == {a \in Activations : \A b \in Activations : activations[b].supersedes # a}
      related(o, n) == o \in Older[n] \/ (Older[o] \cap Older[n]) # {}
  IN /\ \A a \in Activations : (View(activations[a].offer, clock) = "accepted") <=> a \in inForce
     /\ \A a, b \in inForce : a # b => ~related(activations[a].offer, activations[b].offer)

\* Whatever the older terms owed is settled when the newer ones take over: nothing of
\* them is open that nobody reopened (compileActivation, and its refusals).
OnlyTheTermsInForceAreOwed ==
  \A b \in Activations : activations[b].supersedes # 0 =>
    \A p \in Parties : work[activations[b].supersedes][p] # "open"
=============================================================================
