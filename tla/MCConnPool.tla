------------------------------ MODULE MCConnPool ------------------------------
(* ConnPool on small instances: more threads than connections, so that     *)
(* threads sleep, are signalled and overtake each other.                   *)
EXTENDS ConnPool

CONSTANTS t1, t2, t3, t4

Threads4 == {t1, t2, t3, t4}
OneKeeper == {t1}
===============================================================================
