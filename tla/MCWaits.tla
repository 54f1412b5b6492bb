------------------------------ MODULE MCWaits -------------------------------
EXTENDS Waits

CONSTANTS t1, t2

\* An early wait that would activate another commitment, and a later one that would
\* create one under it and does not count what occurred before instant 1.
TwoPlans ==
  {[task |-> t1, notBefore |-> 0, deadline |-> 1, fallback |-> "activate", target |-> t2],
   [task |-> t1, notBefore |-> 1, deadline |-> 2, fallback |-> "create", target |-> t2]}
=============================================================================
