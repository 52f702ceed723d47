SPECIFICATION Spec
CONSTANTS
  a = a
  b = b
  Logger <- Loggers
  MinutesPerDay = 1
  DaysPerMonth = 2
  Start = 0
  MaxMinute = 2
  LogUseLimit = 2
  MaxBuffer = 5
  MaxFailures = 1
INVARIANTS
  OnlyRacesLose
  SameDayKept
SYMMETRY LoggerSymmetry
