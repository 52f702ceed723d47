---------------------------- MODULE ConnAllocator ----------------------------
(***************************************************************************)
(* What a connection pool promises its callers, without saying how: a      *)
(* thread that asks for a connection is lent one that nobody else has, and *)
(* keeps it until it gives it back.  The pools of the program (ConnPool)   *)
(* implement this specification.                                           *)
(***************************************************************************)
CONSTANTS
  Thread,   \* the threads that use the pool
  Conn,     \* the connections the pool may ever lend
  NoConn    \* the null pointer, not in Conn

VARIABLES
  want,     \* the threads inside GetConnection
  loan      \* loan[t]: the connection lent to t, or NoConn

vars == <<want, loan>>

Free == {c \in Conn : \A t \in Thread : loan[t] # c}

Init ==
  /\ want = {}
  /\ loan = [t \in Thread |-> NoConn]

Ask(t) ==
  /\ t \notin want
  /\ loan[t] = NoConn
  /\ want' = want \union {t}
  /\ UNCHANGED loan

Lend(t) ==
  /\ t \in want
  /\ \E c \in Free : loan' = [loan EXCEPT ![t] = c]
  /\ want' = want \ {t}

GiveBack(t) ==
  /\ loan[t] # NoConn
  /\ loan' = [loan EXCEPT ![t] = NoConn]
  /\ UNCHANGED want

Next == \E t \in Thread : Ask(t) \/ Lend(t) \/ GiveBack(t)

(***************************************************************************)
(* Weak fairness of lending to anyone, written without ENABLED: somebody   *)
(* waits while a connection is free only for so long.  It is no promise to *)
(* one thread, which others may overtake for ever.                         *)
(***************************************************************************)
LendSome == \E t \in Thread : Lend(t)

LendFairness ==
  \/ []<>(want = {} \/ Free = {})
  \/ []<><<LendSome>>_vars

Safety == Init /\ [][Next]_vars
Spec == Safety /\ LendFairness
=============================================================================
