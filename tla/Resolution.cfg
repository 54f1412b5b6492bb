\* One proposal under a contract of any policy, two calls that decide on it at once,
\* clock samples up to a tick old, and evidence and criteria that change meanwhile.
\* The instance stops when its counters are used up: no deadlock check.
CONSTANTS
  Evidence = {e1}
  Criteria = {a, b}
  Principals = {alice, bob}
  Validators = {alice, bob}
  Policies = {"deterministic", "attestation", "optimistic", "adjudicated"}
  Callers = {c1, c2}
  Window = 2
  MaxLag = 1
  MaxClock = 2
  MaxContracts = 1
  MaxProposals = 1
  MaxDecisions = 3
  MaxCompletions = 1
SPECIFICATION ResolutionSpec
CHECK_DEADLOCK FALSE
SYMMETRY ResolutionSymmetry
INVARIANTS
  DecisionsFormOneChain
  AcceptanceIsEarned
  DoneOnItsCriteria
  TimelyChallengeIsHeard
