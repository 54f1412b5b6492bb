---------------------------- MODULE MCResolution ----------------------------
EXTENDS Resolution, TLC

\* Callers, principals and criteria are interchangeable.
ResolutionSymmetry ==
  Permutations(Callers) \cup Permutations(Principals) \cup Permutations(Criteria)
=============================================================================
