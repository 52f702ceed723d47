SPECIFICATION SchedulerSpec
CONSTANTS
  w1 = w1
  w2 = w2
  w3 = w3
  p1 = p1
  p2 = p2
  q1 = q1
  k1 = k1
  k2 = k2
  k3 = k3
  NoTask = NoTask
  NoOwner = NoOwner
  Worker <- Workers3
  Producer <- Producers2
  Quitter <- Quitters
  Task <- Tasks3
INVARIANTS
  PopsSomething
  NoLostWakeup
  DestroysUnused
PROPERTIES
  ImplementsQueue
  WorkConserving
  EveryTaskStarts
CHECK_DEADLOCK FALSE
