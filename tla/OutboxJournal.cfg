\* Two drain loops that die and outlive their leases, next to a repairing doctor
\* and a checkpoint of the journal; a row is quarantined at its first failure.
\* The instance stops when its counters are used up: no deadlock check.
CONSTANTS
  Workers = {w1, w2}
  OwnerOf <- OwnName
  None = None
  LeaseTicks = 1
  MaxLag = 0
  MaxAttempts = 1
  BaseBackoff = 1
  MaxBackoff = 1
  Maintenance = {"doctor", "checkpoint"}
  SinkToggles = FALSE
  MaxEvents = 2
SPECIFICATION OutboxSpec
CHECK_DEADLOCK FALSE
SYMMETRY WorkerSymmetry
PROPERTIES
  ImplementsOrderedDelivery
