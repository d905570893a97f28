CONSTANTS
  Threads = {t1, t2}
  Files = {A}
  Repos = 1
  Elsewhere = Elsewhere
  MaxFiles = 2
SPECIFICATION MCFairSpec
VIEW Alive
PROPERTY PermitReturns
CHECK_DEADLOCK FALSE
