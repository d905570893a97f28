CONSTANTS
  Word = 64
  Byte = 8
  Lists <- MCLists
  Sizes <- MCSizes
SPECIFICATION Spec
INVARIANTS
  TypeOK
  NoOverlap
  LostBytes
  EndlessTransfers
  PutAsks
  GetAsks
CHECK_DEADLOCK FALSE
