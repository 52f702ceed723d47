----------------------------- MODULE MCThreadPool -----------------------------
(* ThreadPool on small instances: tasks enough to queue behind each other, *)
(* workers enough to sleep while others work.                              *)
EXTENDS ThreadPool

CONSTANTS w1, w2, w3, p1, p2, q1, k1, k2, k3

Workers2 == {w1, w2}
Workers3 == {w1, w2, w3}
Producers1 == {p1}
Producers2 == {p1, p2}
Quitters == {q1}
Tasks2 == {k1, k2}
Tasks3 == {k1, k2, k3}
===============================================================================
