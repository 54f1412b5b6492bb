--------------------------- MODULE OrderedDelivery ---------------------------
(***************************************************************************)
(* What a transactional outbox with one journal promises, whoever drains   *)
(* it: events become owed one after another; what the journal accounts for *)
(* is always all that is owed up to some event, and is never forgotten;    *)
(* only what it accounts for is acknowledged to the ledger.  An            *)
(* acknowledgement may be taken back (the event is delivered again): what  *)
(* is accounted for stays so.  Outbox implements it.                       *)
(***************************************************************************)
EXTENDS Naturals

VARIABLES
  owed,         \* the events that are to reach the journal, by number
  accounted,    \* those the journal accounts for
  acknowledged  \* those the ledger takes for delivered

deliveryVars == <<owed, accounted, acknowledged>>

DeliveryTypeOK ==
  /\ owed \subseteq Nat
  /\ accounted \subseteq owed
  /\ acknowledged \subseteq accounted

DeliveryInit == owed = {} /\ accounted = {} /\ acknowledged = {}

\* A later event than all before is owed; nobody accounts for it yet.
Owe ==
  /\ \E e \in owed' \ owed : owed' = owed \cup {e} /\ \A d \in owed : d < e
  /\ UNCHANGED <<accounted, acknowledged>>

\* The journal takes the next events: one, or all a checkpoint covers.
Account ==
  /\ accounted \subseteq accounted' /\ accounted' \subseteq owed
  /\ \A e \in accounted', d \in owed : d < e => d \in accounted'
  /\ UNCHANGED <<owed, acknowledged>>

\* The acknowledgement of one event, or its withdrawal.
Settle ==
  /\ \E e \in accounted : acknowledged' \in {acknowledged \cup {e}, acknowledged \ {e}}
  /\ UNCHANGED <<owed, accounted>>

DeliveryNext == Owe \/ Account \/ Settle

DeliverySpec == DeliveryInit /\ [][DeliveryNext]_deliveryVars

-----------------------------------------------------------------------------
(* The promises, as properties of the abstract delivery. *)

\* The journal receives in order: what it comes to account for is later than all
\* it has accounted for, and what it has is never lost.
InOrder ==
  [][/\ accounted \subseteq accounted'
     /\ \A e \in accounted' \ accounted, d \in accounted : d < e]_deliveryVars

\* A receiver that reads the journal to its end knows of every owed event up to
\* the last it finds, and the ledger believes nothing delivered that is not there.
NothingSkipped ==
  /\ \A e \in accounted, d \in owed : d < e => d \in accounted
  /\ acknowledged \subseteq accounted
=============================================================================
