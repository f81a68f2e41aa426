\* Plans that ask Aragorn more than once.
CONSTANTS
  MaxPlan = 3
  Plans <- AllPlans
  Stray <- NoStray
SPECIFICATION Spec
PROPERTIES
  BlockedReadsNothing
