SPECIFICATION Spec
CONSTANTS
  a = a
  b = b
  c = c
  Cell <- Slots
  SectorOf <- SlotSectors
  Names <- MCNames
  Lfns <- MCLfns
  Short <- MCShort
  PerSector = 3
  K = 1
  MaxClust = 3
  Initial <- AnyDirectory
  Listing = TRUE
  MaxCrashes = 1
INVARIANTS TypeOK EntriesWhole CallEffect PromisedStay ListsMarked
PROPERTIES CallsReturn
