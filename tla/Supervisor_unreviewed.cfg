\* All plans, the ones that draft after the last review included.
CONSTANTS
  MaxPlan = 4
  Plans <- AllPlans
  Stray <- NoStray
SPECIFICATION Spec
INVARIANTS
  AnswerIsReviewed
