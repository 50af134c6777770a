SPECIFICATION Spec
CONSTANTS
  a = a
  b = b
  Cell <- VolumeCells
  SectorOf <- VolumeSectors
  Names <- MCNames
  DirSector <- OneSector
  ClustCnt = 7
  PerSector = 4
  Mirroring = TRUE
  BadClusters = {4}
  Wrap = 16
  MaxCrashes = 1
INVARIANTS TypeOK ChainsIntact LeakBounded FreeCountBounded MirrorLagBounded SyncedOnReturn Durable
PROPERTIES FullOnlyIfFull CallsReturn
CHECK_DEADLOCK FALSE
