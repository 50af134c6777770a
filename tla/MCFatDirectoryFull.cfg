SPECIFICATION Spec
CONSTANTS
  a = a
  b = b
  c = c
  Cell <- Slots
  SectorOf <- SlotSectors
  Names <- MCNames
  Lfns <- MCLfns
  Short <- MCShort
  PerSector = 3
  K = 1
  MaxClust = 3
  Initial <- FullClusters
  Listing = TRUE
  MaxCrashes = 0
INVARIANTS ListsEntries
