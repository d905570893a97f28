CONSTANTS
  a1 = a1
  a2 = a2
  b1 = b1
  h1 = h1
  A = A
  B = B
  H = H
  Threads = {t1, t2}
  Blocks = {a1, a2, b1, h1}
  Names = {A, B, H}
  NameOf <- MCNameOf
  Hidden = {H}
  Local = Local
  NoBlock = NoBlock
SPECIFICATION Spec
SYMMETRY Symmetry
CONSTRAINT DiskBound
INVARIANTS
  TypeOK
  FirstRunStoresNothing
  OneStorePerRun
  OneRangeKnown
  JamExplained
  ListCoversDirectory
  ListedHasFile
PROPERTY StoreSpec
CHECK_DEADLOCK FALSE
