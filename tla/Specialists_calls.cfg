\* Three calls at once, two of them of users without an id.
CONSTANTS
  c1 = c1
  c2 = c2
  c3 = c3
  Callers = {c1, c2, c3}
  Named = {c1, c2, c3}
  User <- MCUser
  Team <- MCTeam
  Tools = {"metrics", "trend"}
  Answers <- MCAnswers
  Stray <- MCStray
SPECIFICATION Spec
CHECK_DEADLOCK FALSE
INVARIANTS
  TypeOK
  ReplyAsSupervised
  FailsClosed
  QuestionOrEvidence
  NameIsFound
PROPERTIES
  CallsEnd
