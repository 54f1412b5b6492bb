\* A commitment and a sub-commitment whose completion mode may be switched around
\* a completion, two pieces of evidence, one of which may supersede the other, an
\* attempt and a wait, while either commitment is closed, moved, deleted or restored.
\* The instance stops when its counters are used up: no deadlock check.
CONSTANTS
  Tasks = {t1, t2}
  NoTask = NoTask
  None = None
  Principals = {alice}
  Forcers = {}
  Deciders = {}
  LeaseLengths = {1}
  Modes = {"assertion", "evidence"}
  MaxDepth = 2
  MaxLag = 0
  MaxClock = 0
  MaxTaskRev = 3
  MaxRev = 2
  MaxClaims = 0
  MaxAttempts = 1
  MaxEvidence = 2
  MaxWaits = 1
SPECIFICATION LedgerSpec
CHECK_DEADLOCK FALSE
SYMMETRY TaskSymmetry
INVARIANTS
  LiveChildHasLiveParent
  Acyclic
  ClosedIsQuiet
  DoneOnEvidence
