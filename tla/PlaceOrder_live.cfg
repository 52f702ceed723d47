SPECIFICATION FairSpec
CONSTANTS
  w1 = w1
  w2 = w2
  d1 = d1
  d2 = d2
  r1 = r1
  r2 = r2
  soap = soap
  tea = tea
  ghost = ghost
  NoConn = NoConn
  NoProduct = NoProduct
  Thread <- Workers
  MemConn <- OneMemConn
  DiskConn <- DiskConns
  Product <- OnlySoap
  KnownProduct <- OnlySoap
  LastDay = 1
  MaxErrors = 2
  MaxOrders = 3
  MaxFaults = 1
  MaxCrashes = 0
INVARIANTS
  SameIdMeansTorn
PROPERTIES
  OrderEnds
CHECK_DEADLOCK FALSE
