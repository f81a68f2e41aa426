\* A provider call raises.
CONSTANTS
  Request = {m1, m2}
  Checkpointed = TRUE
  Faults <- OnlyFailure
  MaxSends = 2
SPECIFICATION Spec
PROPERTIES
  ResumesOnlyPauses
CHECK_DEADLOCK FALSE
