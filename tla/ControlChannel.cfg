CONSTANT MaxBehind = 3
SPECIFICATION FairSpec
INVARIANTS
  TypeOK
  Backlog
  InStep
  OrderlyLeavesServer
PROPERTIES
  AnswerComes
  DeathEndsServer
CHECK_DEADLOCK FALSE
