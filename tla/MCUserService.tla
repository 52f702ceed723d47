---------------------------- MODULE MCUserService ----------------------------
(* UserService on a small instance: two orders of one user, an order whose *)
(* number is too big and one of a user who does not exist.                 *)
EXTENDS UserService

CONSTANTS w1, w2, ann, bob

Workers == {w1, w2}
Users == {ann, bob}
OnlyAnn == {ann}
Messages == <<[order |-> 1, user |-> ann, money |-> 2],
              [order |-> 200, user |-> ann, money |-> 1],
              [order |-> 3, user |-> ann, money |-> 1],
              [order |-> 4, user |-> bob, money |-> 1]>>
Big == {200}
==============================================================================
