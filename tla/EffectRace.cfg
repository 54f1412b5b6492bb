\* Two runners of one effect next to an approver who changes their mind, a claim
\* that is renewed, expires or is taken, and a provider that answers late.
\* The instance stops when its counters are used up: no deadlock check.
CONSTANTS
  Runners = {r1, r2}
  Unknown = Unknown
  Windows <- TwoWindows
  MaxLag = 1
  Lease = 2
  MaxClock = 2
  MaxApprovals = 2
  MaxSent = 2
SPECIFICATION EffectSpec
CHECK_DEADLOCK FALSE
SYMMETRY RunnerSymmetry
INVARIANTS
  AuthorityIsCurrent
  CancelledIsNeverSent
  OutcomeIsProven
  ReceiptsTellOneStory
  RecoveryRebuildsTheBegin
