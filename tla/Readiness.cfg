\* Every dependency graph over three commitments that the two interfaces can build
\* between them, while the commitments are closed, reopened, deleted and restored;
\* one of them has a premise and may rest on an assumption.
CONSTANTS
  Tasks = {t1, t2, t3}
  Texts = {x}
  Resting = {t1}
  Premised = {t1}
SPECIFICATION ReadinessSpec
SYMMETRY PlainSymmetry
INVARIANTS
  SomebodyCanMove
  OfferedIsClaimable
