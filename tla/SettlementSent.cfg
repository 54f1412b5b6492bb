\* Finding: two settlement decisions and an effect of an entitlement.
\* The instance stops when its counters are used up: no deadlock check.
CONSTANTS
  MaxDecisions = 2
  MaxEffects = 1
SPECIFICATION SettlementSpec
CHECK_DEADLOCK FALSE
PROPERTY NothingSentIsSuperseded
