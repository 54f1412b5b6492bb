\* Two drain loops under the fairness of DrainFairness, while processes switch the
\* sink off and on; no maintenance command.
\* The instance stops when its counters are used up: no deadlock check.
CONSTANTS
  Workers = {w1, w2}
  OwnerOf <- OwnName
  None = None
  LeaseTicks = 1
  MaxLag = 0
  MaxAttempts = 2
  BaseBackoff = 1
  MaxBackoff = 1
  Maintenance = {}
  SinkToggles = TRUE
  MaxEvents = 2
SPECIFICATION FairOutboxSpec
CHECK_DEADLOCK FALSE
PROPERTY EveryEventSettles
