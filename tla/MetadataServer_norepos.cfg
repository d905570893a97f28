CONSTANTS
  Threads = {t1, t2}
  Files = {A, B}
  Repos = 0
  Elsewhere = Elsewhere
  MaxFiles = 2
SPECIFICATION MCFairSpec
PROPERTY WaitersAreServed
CHECK_DEADLOCK FALSE
