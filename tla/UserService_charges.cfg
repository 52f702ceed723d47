SPECIFICATION FairSpec
CONSTANTS
  w1 = w1
  w2 = w2
  ann = ann
  bob = bob
  Nobody = Nobody
  Worker <- Workers
  User <- Users
  KnownUser <- OnlyAnn
  Buyer <- Users
  Topic <- Messages
  TooBig <- Big
  InitMoney = 3
  MaxFaults = 1
  MaxRestarts = 1
INVARIANTS
  TypeOK
  ChargeMatchesTask
  AcceptedMeansRecorded
  ChargedOncePerDelivery
PROPERTIES
  ImplementsLedger
  Settles
CHECK_DEADLOCK FALSE
