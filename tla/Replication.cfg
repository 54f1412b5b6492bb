\* Two replicas that create and delete one commitment, next to one incident of the
\* authority: a write of its own, a generation that goes silent, a pruning or a
\* recovery from any backup.
\* The instance stops when its counters are used up: no deadlock check.
CONSTANTS
  Replicas = {r1, r2}
  Records = {x}
  Bodies = {a}
  Kinds = {"create", "delete"}
  MaxOperations = 2
  MaxIncidents = 1
  MaxPushes = 1
SPECIFICATION ReplicationSpec
CHECK_DEADLOCK FALSE
SYMMETRY ReplicaSymmetry
INVARIANTS
  EachDotOnceInOrder
  DecisionsAgreeWithTheLog
  QueueIsOneChain
  DeclaredOutcomesHold
  RetiredStaysRetired
  QuietReplicasAgree
PROPERTIES
  DecisionsAreFinal
  CurrentSnapshotIsShown
