SPECIFICATION Spec
CONSTANTS
  a = a
  b = b
  p = p
  p2 = p2
  Logger <- TwoLoggers
  Persister <- TwoPersisters
  Interruptible <- Nobody
  Fatal <- Fatals
  InitCells = 3
  MaxCells = 4
  CellLen = 1
  MaxLine = 6
  MaxShort = 1
INVARIANTS
  FullMeansPersisting
