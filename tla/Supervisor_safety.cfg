\* Every plan of at most four agents.
CONSTANTS
  MaxPlan = 4
  Plans <- AllPlans
  Stray <- HarmlessStray
SPECIFICATION Spec
INVARIANTS
  TypeOK
  ReviewedAnswer
  GroundedAnswer
  BoundedCalls
  RefusalIsEarned
  QuestionEndsRun
PROPERTIES
  ClearedReads
  KeepsPromise
  Terminates
