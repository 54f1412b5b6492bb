\* Claims on one commitment: two callers, one of whom may force, and clock
\* samples that may be a tick old when their transaction commits; the other
\* may refute the premise of the commitment.
\* The instance stops when its counters are used up: no deadlock check.
CONSTANTS
  Tasks = {t1}
  NoTask = NoTask
  None = None
  Principals = {alice, bob}
  Forcers = {bob}
  Deciders = {alice}
  LeaseLengths = {2}
  Modes = {"assertion"}
  MaxDepth = 1
  MaxLag = 1
  MaxClock = 3
  MaxTaskRev = 3
  MaxRev = 3
  MaxClaims = 2
  MaxAttempts = 0
  MaxEvidence = 0
  MaxWaits = 0
SPECIFICATION LedgerSpec
CHECK_DEADLOCK FALSE
INVARIANTS
  ClaimsTakeTurns
  ExpiryFreesTheTask
PROPERTIES
  NoSilentTakeover
  RevisionNamesTheContent
  HistoryIsImmutable
  ImplementsFencedLease
