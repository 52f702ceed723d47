------------------------------ MODULE MCRingLog ------------------------------
(* RingLog on small instances: buffers of a line or two, so that a few     *)
(* lines fill the ring, make it grow and make it wrap around.              *)
EXTENDS RingLog

CONSTANTS a, b, p, p2

TwoLoggers == {a, b}
OnePersister == {p}
TwoPersisters == {p, p2}
CallerOrPersister == {a, p}
Nobody == {}
Fatals == {b}
===============================================================================
