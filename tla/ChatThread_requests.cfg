\* Three arrivals of up to three messages, and everything that may go wrong.
CONSTANTS
  Request = {m1, m2, m3}
  Checkpointed = TRUE
  Faults <- AllFaults
  MaxSends = 3
SPECIFICATION Spec
INVARIANTS
  TypeOK
  OwnAnswer
  NoneFallsThrough
  ClarificationsComplete
PROPERTIES
  Served
  ClarificationsKept
  PendingMeansPaused
CHECK_DEADLOCK FALSE
