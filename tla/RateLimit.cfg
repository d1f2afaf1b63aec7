SPECIFICATION Spec
CONSTANTS
  Config <- MCConfig
  Lists <- MCLists
  TicksPerSec = 2
  Parts = 2
  Horizon = 7
INVARIANTS
  TypeOK
  NeverOverLimit
PROPERTY
  AnswersExact
