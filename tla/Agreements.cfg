\* Two interchangeable parties and a chain of up to three offers, clock samples up
\* to a tick old.
\* The instance stops when its counters are used up: no deadlock check.
CONSTANTS
  Parties = {buyer, worker}
  Lag = 1
  Lifetimes = {1}
  MaxClock = 1
  MaxOffers = 3
SPECIFICATION AgreementsSpec
CHECK_DEADLOCK FALSE
SYMMETRY PartySymmetry
INVARIANTS
  OneSetOfTermsInForce
  OnlyTheTermsInForceAreOwed
