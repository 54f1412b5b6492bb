\* Three settlement decisions on one obligation and an effect of an entitlement.
\* The instance stops when its counters are used up: no deadlock check.
CONSTANTS
  MaxDecisions = 3
  MaxEffects = 1
SPECIFICATION SettlementSpec
CHECK_DEADLOCK FALSE
INVARIANT OneSettlementIsOwed
