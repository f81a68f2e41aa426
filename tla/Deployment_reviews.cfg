SPECIFICATION Spec
CONSTANTS
  r1 = r1
  r2 = r2
  v1 = v1
  Replicas <- MCReplicas
  Leavers <- MCLeavers
  Visits <- MCVisits
  Rounds = 2
  Attempts = 2
  AutoCreate = TRUE
  MaxFaults = 1
CHECK_DEADLOCK FALSE
INVARIANTS ReviewsAreListed
