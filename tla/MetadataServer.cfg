CONSTANTS
  Threads = {t1, t2}
  Files = {A, B}
  Repos = 1
  Elsewhere = Elsewhere
  MaxFiles = 1
SPECIFICATION MCSpec
SYMMETRY Symmetry
VIEW Alive
INVARIANTS
  TypeOK
  MutualExclusion
  TokensAreCurrent
  NamesFade
PROPERTY HitExplained
CHECK_DEADLOCK FALSE
