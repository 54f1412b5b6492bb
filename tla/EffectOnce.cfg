\* Finding: the instance of EffectRace, asked for the second dispatch.
\* The instance stops when its counters are used up: no deadlock check.
CONSTANTS
  Runners = {r1, r2}
  Unknown = Unknown
  Windows <- TwoWindows
  MaxLag = 1
  Lease = 2
  MaxClock = 2
  MaxApprovals = 2
  MaxSent = 2
SPECIFICATION EffectSpec
CHECK_DEADLOCK FALSE
SYMMETRY RunnerSymmetry
INVARIANT DispatchedOnce
