\* A resumed run that need not ask again.
CONSTANTS
  Request = {m1, m2}
  Checkpointed = TRUE
  Faults <- NoFault
  MaxSends = 2
SPECIFICATION Spec
INVARIANTS
  ClarificationIsHeard
CHECK_DEADLOCK FALSE
