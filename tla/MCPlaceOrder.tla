----------------------------- MODULE MCPlaceOrder -----------------------------
(* PlaceOrder on small instances: two workers, two products that exist     *)
(* and one that does not (only one that exists, where liveness is checked).*)
EXTENDS PlaceOrder, TLC

CONSTANTS w1, w2, d1, d2, r1, r2, soap, tea, ghost

Workers == {w1, w2}
DiskConns == {d1, d2}
MemConns == {r1, r2}
OneMemConn == {r1}
Products == {soap, tea, ghost}
Known == {soap, tea}
OnlySoap == {soap}
Symmetry ==
  Permutations(Workers) \union Permutations(DiskConns)
    \union Permutations(MemConns) \union Permutations(Known)
===============================================================================
