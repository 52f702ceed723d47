SPECIFICATION FairSpec
CONSTANTS
  a = a
  b = b
  p = p
  p2 = p2
  Logger <- TwoLoggers
  Persister <- OnePersister
  Interruptible <- CallerOrPersister
  Fatal <- Fatals
  InitCells = 2
  MaxCells = 3
  CellLen = 2
  MaxLine = 6
  MaxShort = 1
INVARIANTS
  TypeOK
  OnlyExemptLinesLost
  FullMeansPersisting
  PartialIsCurrent
  ExitIsFlushed
PROPERTIES
  ReachesDisk
  HandlerExits
CHECK_DEADLOCK FALSE
