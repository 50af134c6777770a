SPECIFICATION Spec
CONSTANTS
  k = k
  Keys <- MCKeys
  Size = 3
  MaxTyped = 7
INVARIANTS AsMeant
PROPERTIES IsQueue LosesOnlyWhenFull NoSleepForever
