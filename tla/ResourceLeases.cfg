\* Two keys and two principals, one of whom also verifies its fence, under a
\* clock that may be set back.
\* The instance stops when its counters are used up: no deadlock check.
CONSTANTS
  Keys = {1, 2}
  Principals = {alice, bob}
  None = None
  Verifiers = {alice}
  Durations = {2}
  SweepLimits = {1, 5}
  ClockStepsBack = TRUE
  MaxClock = 2
  MaxLeases = 3
  MaxRev = 2
SPECIFICATION ResourceSpec
CHECK_DEADLOCK FALSE
INVARIANT ValidVerdictIsTheHolders
PROPERTY ImplementsFencedLease
