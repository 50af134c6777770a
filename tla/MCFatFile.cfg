SPECIFICATION Spec
CONSTANTS
  Byte <- MCByte
  S = 2
  K = 2
  Room = 2
  Garbage = 0
  Sizes <- MCSizes
  Modes <- AllModes
  Data <- MCData
  Lengths <- MCLengths
  Offsets <- MCOffsets
INVARIANTS TypeOK SectorAtOffset ReadDelivers WriteStoresWithRoom
PROPERTIES IsByteFile
