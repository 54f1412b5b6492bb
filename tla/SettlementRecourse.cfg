\* Finding: two settlements, and a recourse for each of them.
\* The instance stops when its counters are used up: no deadlock check.
CONSTANTS
  MaxDecisions = 4
  MaxEffects = 0
SPECIFICATION SettlementSpec
CHECK_DEADLOCK FALSE
INVARIANT OneRecoursePerDecision
