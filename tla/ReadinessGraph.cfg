\* Finding: two commitments and the two interfaces to their dependencies.
CONSTANTS
  Tasks = {t1, t2}
  Texts = {}
  Resting = {}
  Premised = {}
SPECIFICATION ReadinessSpec
INVARIANT NoSecondGraph
