---------------------------- MODULE MCTaskLedger ----------------------------
(* Instance of TaskLedger for TLC: task rows are interchangeable. *)
EXTENDS TaskLedger, TLC

TaskSymmetry == Permutations(Tasks)
=============================================================================
