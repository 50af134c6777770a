SPECIFICATION Spec
CONSTANTS
  Byte <- MCByte
  S = 2
  K = 2
  Room = 2
  Garbage = 0
  Sizes <- EmptySize
  Modes <- ReadWrite
  Data <- MCData
  Lengths <- MCLengths
  Offsets <- MCOffsets
INVARIANTS WriteStores
