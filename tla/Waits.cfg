\* Two kinds of wait on one commitment, a sweeper that may die, clock samples up to
\* a tick old, and up to three rows: waits, facts or some of each.
\* The instance stops when its counters are used up: no deadlock check.
CONSTANTS
  t1 = t1
  t2 = t2
  Tasks = {t1, t2}
  Plans <- TwoPlans
  Occurrences = {0, 1}
  Sweepers = {s1}
  SweepLimit = 2
  MaxLag = 1
  MaxClock = 2
  MaxRows = 3
SPECIFICATION FairWaitsSpec
CHECK_DEADLOCK FALSE
INVARIANTS
  OneFactDecides
  TimelyFactIsHeard
  FallbackIsTheExpirys
PROPERTY EveryDueWaitIsDecided
