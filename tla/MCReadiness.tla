---------------------------- MODULE MCReadiness ----------------------------
(* Instance of Readiness for TLC: commitments without a premise and without *)
(* assumptions are interchangeable.                                         *)
EXTENDS Readiness, TLC

PlainSymmetry == Permutations(Tasks \ (Resting \cup Premised))
=============================================================================
