SPECIFICATION HeapSpec
CONSTANTS
  HEAP_SIZE = 92
  HEADER = 12
  Word = 512
  Requests <- MCRequests
INVARIANTS Tiled
PROPERTIES IsAllocator FailsOnlyIfFull
