SPECIFICATION Spec
CONSTANTS
  a = a
  b = b
  c = c
  Client <- Clients
  Lease = 2
  MaxDelay = 1
  MaxTime = 6
  MaxErrors = 2
INVARIANTS
  ExpiredIsWon
  StuckMeansCut
PROPERTIES
  WinsApart
SYMMETRY ClientSymmetry
CHECK_DEADLOCK FALSE
