\* Streams of up to five labels and one repeated update.
CONSTANTS
  plan = plan
  check = check
  recheck = recheck
  draft = draft
  Label = {plan, check, recheck, draft}
  AgentOf <- Agents
  MaxLabels = 5
  MaxUpdates = 2
SPECIFICATION Spec
INVARIANTS
  TypeOK
  StepsAreComplete
  ActiveIsLatest
  AnswerEndsSteps
  ShownOnce
PROPERTIES
  Closes
CHECK_DEADLOCK FALSE
