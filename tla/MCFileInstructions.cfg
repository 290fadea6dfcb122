SPECIFICATION Spec
CONSTANTS
  Threads = {t1, t2}
  Paths = {p1, p2}
  Sizes = {3, 4}
  Transfers <- MCTransfers
  MaxInstructions = 4
  MaxFd = 3
SYMMETRY Symmetry
INVARIANTS
  DescriptorsOwned
  UnitsInside
  WholeFileOnce
  ShortOnlyIfCut
CHECK_DEADLOCK FALSE
