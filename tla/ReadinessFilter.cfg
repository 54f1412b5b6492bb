\* Finding: two commitments, and a queue that is asked for some of them only.
CONSTANTS
  Tasks = {t1, t2}
  Texts = {}
  Resting = {}
  Premised = {}
SPECIFICATION ReadinessSpec
INVARIANT FilteredOfferIsClaimable
