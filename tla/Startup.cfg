CONSTANTS
  r1 = r1
  r2 = r2
  r3 = r3
  A = A
  B = B
  Null = Null
  Conf <- MCConf
  Files = {A, B}
  Answers <- MCAnswers
SPECIFICATION FairSpec
INVARIANTS
  TypeOK
  ListIsOnline
  OneFileKnown
PROPERTY StartProceeds
CHECK_DEADLOCK FALSE
