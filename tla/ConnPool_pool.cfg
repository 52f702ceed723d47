SPECIFICATION FairSpec
CONSTANTS
  t1 = t1
  t2 = t2
  t3 = t3
  t4 = t4
  Thread <- Threads4
  Keeper <- OneKeeper
  MaxSize = 2
  InitSize = 1
  Signals = TRUE
INVARIANTS
  TypeOK
  Exclusive
  NothingLeaks
  NoLostWakeup
PROPERTIES
  Progress
  ImplementsAllocator
  ImplementsLending
