\* Three calls in progress at once.
CONSTANTS
  Call = {c1, c2, c3}
SPECIFICATION Spec
INVARIANTS
  TypeOK
  UsageIsOwn
  CausesAreKept
CHECK_DEADLOCK FALSE
