------------------------------ MODULE MCLogFiles ------------------------------
(* LogFiles over a month's end: a day has a minute, a month 2 days.         *)
EXTENDS LogFiles, TLC

CONSTANTS a, b

Loggers == {a, b}
LoggerSymmetry == Permutations(Logger)
=============================================================================
