CONSTANTS
  Threads = {t1}
  Files = {A, B}
  Repos = 1
  Elsewhere = Elsewhere
  MaxFiles = 2
SPECIFICATION MCSpec
INVARIANT PermitNeverLost
CHECK_DEADLOCK FALSE
