CONSTANTS
  Threads = {t1, t2}
  Main = Main
  Blocks = {b1, b2}
  Size = 2
SPECIFICATION FairSpec
INVARIANTS
  TypeOK
  TruncatedExplained
PROPERTIES
  GetIsNeverAnswered
  TransferEnds
CHECK_DEADLOCK FALSE
