------------------------------ MODULE MCOutbox ------------------------------
(* Instance of Outbox for TLC: how the runs of the drain loop name themselves, *)
(* and that they are interchangeable.                                          *)
EXTENDS Outbox, TLC

\* tasq-cli: a fresh random owner per process (runtime.ts:242).
OwnName == [w \in Workers |-> w]

WorkerSymmetry == Permutations(Workers)
=============================================================================
