CONSTANTS
  Threads = {t1, t2}
  Files = {A}
  Repos = 2
  Elsewhere = Elsewhere
  MaxFiles = 2
SPECIFICATION MCSpec
SYMMETRY Symmetry
VIEW Alive
INVARIANTS
  OneEntryPerBuffer
  BlocksBeforeRecord
PROPERTIES
  FilesAppendOnly
  PermitLossIsFinal
  RegistrySpec
CHECK_DEADLOCK FALSE
