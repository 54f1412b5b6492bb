--------------------------- MODULE MCReplication ---------------------------
EXTENDS Replication, TLC

\* Replicas and bodies are interchangeable.
ReplicaSymmetry == Permutations(Replicas)
=============================================================================
