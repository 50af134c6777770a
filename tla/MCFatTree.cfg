SPECIFICATION Spec
CONSTANTS
  a = a
  b = b
  root = root
  none = none
  c1 = c1
  c2 = c2
  c3 = c3
  c4 = c4
  Cell <- TreeCells
  SectorOf <- TreeSectors
  Names <- MCNames
  MaxDepth = 2
  Clusters <- MCClusters
  Root <- root
  NoClust <- none
  PerClust = 3
  Initial <- MCInitial
  MaxChanges = 4
  MaxCrashes = 1
INVARIANTS TreeIntact LostBounded CallTells
PROPERTIES IsNameTree
SYMMETRY MCSymmetry
CHECK_DEADLOCK FALSE
