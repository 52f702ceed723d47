----------------------------- MODULE MCRedisLock -----------------------------
(* RedisLock with a lease of 2 units of time and calls that take up to 1.  *)
EXTENDS RedisLock, TLC

CONSTANTS a, b, c

Clients == {a, b, c}
ClientSymmetry == Permutations(Client)
=============================================================================
