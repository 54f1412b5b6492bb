---------------------------- MODULE MCAgreements ----------------------------
(* Definitions for the model checker: the parties play the same part. *)
EXTENDS Agreements, TLC

PartySymmetry == Permutations(Parties)
=============================================================================
