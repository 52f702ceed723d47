-------------------------------- MODULE Ledger --------------------------------
(***************************************************************************)
(* What the user service keeps in its database, without saying how: an     *)
(* order is recorded, and a charge takes the price from its owner's        *)
(* balance, counts, and marks the row if there is one, all at once.        *)
(* Nothing else ever changes a balance or a row: no row goes back from     *)
(* charged to recorded, and no balance is written from an old reading.     *)
(***************************************************************************)
EXTENDS Integers

CONSTANTS
  Order,      \* the orders
  Account,    \* the users who have a balance
  Owner,      \* Owner[o]: who pays for o
  Price,      \* Price[o]
  InitMoney,  \* what every account has at first
  NoRow       \* the status of an order that is not recorded

VARIABLES money, status, charged

Init ==
  /\ money = [u \in Account |-> InitMoney]
  /\ status = [o \in Order |-> NoRow]
  /\ charged = [o \in Order |-> 0]

Record(o) ==
  /\ status[o] = NoRow
  /\ status' = [status EXCEPT ![o] = 0]
  /\ UNCHANGED <<money, charged>>

Charge(o) ==
  /\ Owner[o] \in Account
  /\ money' = [money EXCEPT ![Owner[o]] = @ - Price[o]]
  /\ status' = [status EXCEPT ![o] = IF @ = NoRow THEN NoRow ELSE 1]
  /\ charged' = [charged EXCEPT ![o] = @ + 1]

Next == \E o \in Order : Record(o) \/ Charge(o)

Spec == Init /\ [][Next]_<<money, status, charged>>
=============================================================================
