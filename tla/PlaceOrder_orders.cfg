SPECIFICATION Spec
CONSTANTS
  w1 = w1
  w2 = w2
  d1 = d1
  d2 = d2
  r1 = r1
  r2 = r2
  soap = soap
  tea = tea
  ghost = ghost
  NoConn = NoConn
  NoProduct = NoProduct
  Thread <- Workers
  MemConn <- MemConns
  DiskConn <- DiskConns
  Product <- Products
  KnownProduct <- Known
  LastDay = 2
  MaxErrors = 0
  MaxOrders = 3
  MaxFaults = 1
  MaxCrashes = 1
SYMMETRY Symmetry
INVARIANTS
  CleanWhenPooled
  OrdersBackedByMessages
  SameIdMeansTorn
CHECK_DEADLOCK FALSE
