CONSTANTS
  Threads = {t1}
  Files = {A, B}
  Repos = 1
  Elsewhere = Elsewhere
  MaxFiles = 2
SPECIFICATION MCSpec
INVARIANT RemoveNamesItsFile
CHECK_DEADLOCK FALSE
