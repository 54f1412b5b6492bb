----------------------------- MODULE FencedLease -----------------------------
(***************************************************************************)
(* What an exclusive expiring lease with a fence promises, whoever         *)
(* implements it: at any time a resource has one holder or none, a lease   *)
(* is granted only where none is in force, and every grant carries a fence *)
(* larger than all before it.  TaskLedger (claims on commitments) and      *)
(* ResourceLeases (leases on opaque resource keys) implement it.           *)
(*                                                                         *)
(* The clock may move either way: that a lease outlives a clock that is    *)
(* set back is part of the promise, not an assumption.                     *)
(***************************************************************************)
EXTENDS Naturals

CONSTANTS Resources, Holders, Nobody

VARIABLES
  time,
  lease    \* lease[r]: who holds r, until when, and the last fence granted on it

leaseVars == <<time, lease>>

Lease == [holder : Holders \cup {Nobody}, fence : Nat, until : Nat]

LeaseTypeOK == time \in Nat /\ lease \in [Resources -> Lease]

LeaseInit ==
  /\ time = 0
  /\ lease = [r \in Resources |-> [holder |-> Nobody, fence |-> 0, until |-> 0]]

InForce(r) == lease[r].holder # Nobody /\ time < lease[r].until

Others(r) == \A s \in Resources \ {r} : lease'[s] = lease[s]

\* r passes to somebody, with a fresh fence and some expiry.
Grant(r) ==
  /\ ~InForce(r)
  /\ lease'[r].holder \in Holders
  /\ lease'[r].fence = lease[r].fence + 1
  /\ Others(r)

\* The holder of r keeps it under the same fence and another expiry.
Extend(r) ==
  /\ lease[r].holder # Nobody
  /\ lease'[r].holder = lease[r].holder
  /\ lease'[r].fence = lease[r].fence
  /\ Others(r)

\* Some leases end, together; the fences stay.
End ==
  \A r \in Resources :
    \/ lease'[r] = lease[r]
    \/ lease'[r] = [holder |-> Nobody, fence |-> lease[r].fence, until |-> 0]

Clock == time' \in Nat /\ UNCHANGED lease

LeaseNext ==
  \/ Clock
  \/ /\ UNCHANGED time
     /\ lease' \in [Resources -> Lease]
     /\ End \/ \E r \in Resources : Extend(r) \/ Grant(r)

LeaseSpec == LeaseInit /\ [][LeaseNext]_leaseVars

-----------------------------------------------------------------------------
(* The promises, as properties of the abstract lease. *)

\* A resource changes hands only with a larger fence, so two holders of one
\* resource never share a fence, and a fence never comes back.
NewHolderNewFence ==
  [][\A r \in Resources :
       /\ lease'[r].fence >= lease[r].fence
       /\ (lease'[r].holder # lease[r].holder /\ lease'[r].holder # Nobody) =>
             lease'[r].fence > lease[r].fence]_leaseVars

\* A lease in force passes to nobody else: it first ends.
NoStealing ==
  [][\A r \in Resources :
       InForce(r) => lease'[r].holder \in {lease[r].holder, Nobody}]_leaseVars
=============================================================================
