SPECIFICATION FairSpec
CONSTANTS
  Fd <- Fds
  SetSize = 4
  Garbage <- Uncleared
  AcceptBatch = 2
  ClearBatch = 2
  MaxListed = 3
PROPERTIES
  PassEnds
