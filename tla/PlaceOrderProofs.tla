--------------------------- MODULE PlaceOrderProofs ---------------------------
(***************************************************************************)
(* Theorems about getId and about placing orders, for any number of        *)
(* workers, connections, products, orders, faults and crashes.             *)
(*   - Two numbers from getId whose dates did not change under them are    *)
(*     distinct, for an index counted under a key is held by one call at a *)
(*     time (IdInv).                                                       *)
(*   - A pooled connection is clean, for what is pending or locked belongs *)
(*     to a worker on its way to the end of its transaction (Pendings,     *)
(*     Locks).                                                             *)
(*   - A worker commits no more orders than it has messages in the topic,  *)
(*     for a report is served once, and a message is sent once (Backed).   *)
(***************************************************************************)
EXTENDS PlaceOrder, FiniteSetTheorems, TLAPS

-----------------------------------------------------------------------------
(* getId: the parts of the invariant.                                      *)

(* The call of t has an index and has not made its number yet.             *)
Holds(t) == idpc[t] = "format" /\ index[t] > 0

IssuedCounted ==
  \A t \in Thread : \A i \in 1..Len(issued[t]) :
    issued[t][i].id # NoId => issued[t][i].id[2] <= counter[issued[t][i].key]

IssuedApart ==
  \A t, u \in Thread : \A i \in 1..Len(issued[t]), j \in 1..Len(issued[u]) :
    /\ t # u \/ i # j
    /\ issued[t][i].id # NoId /\ issued[u][j].id # NoId
    /\ issued[t][i].key = issued[u][j].key
    => issued[t][i].id[2] # issued[u][j].id[2]

HeldCounted == \A t \in Thread : Holds(t) => index[t] <= counter[idName[t]]

HeldApart ==
  \A t, u \in Thread :
    t # u /\ Holds(t) /\ Holds(u) /\ idName[t] = idName[u] => index[t] # index[u]

HeldNew ==
  \A t, u \in Thread : \A i \in 1..Len(issued[u]) :
    Holds(t) /\ issued[u][i].id # NoId /\ issued[u][i].key = idName[t]
    => issued[u][i].id[2] # index[t]

IdInv == IdTypeOK /\ IssuedCounted /\ IssuedApart /\ HeldCounted /\ HeldApart /\ HeldNew

-----------------------------------------------------------------------------
(* Placing an order: the parts of the invariant.                           *)

WorkerTypes ==
  /\ pc \in [Thread -> Location]
  /\ prod \in [Thread -> Product \union {NoProduct}]
  /\ ord \in [Thread -> 0..MaxOrders]
  /\ taken \in 0..MaxOrders
  /\ diskWant \subseteq Thread
  /\ diskLoan \in [Thread -> DiskConn \union {NoConn}]

TableTypes ==
  /\ rowLock \in [KnownProduct -> DiskConn \union {NoConn}]
  /\ pending \in [DiskConn -> SUBSET OrderRow]
  /\ buyOrder \subseteq OrderRow

KafkaTypes ==
  /\ inflight \in [Thread -> SUBSET OrderRow]
  /\ reports \in [Thread -> SUBSET OrderRow]
  /\ topic \subseteq OrderRow

BoundTypes == faults \in 0..MaxFaults /\ crashes \in 0..MaxCrashes

(* A worker has a connection between GetConnection and ReleaseConnection,  *)
(* and nobody else has it.                                                 *)
Loans ==
  /\ \A w \in Thread : diskLoan[w] = NoConn <=> pc[w] \in {"idle", "getconn"}
  /\ \A v, w \in Thread : v # w /\ diskLoan[v] = diskLoan[w] => diskLoan[w] = NoConn

(* The orders that are worked on are different orders.                     *)
Orders ==
  /\ \A w \in Thread : (ord[w] = 0 <=> pc[w] = "idle") /\ ord[w] <= taken
  /\ \A v, w \in Thread : v # w /\ ord[v] = ord[w] => ord[w] = 0

(* The rows in an open transaction are one row, of the worker who has the  *)
(* connection and will end the transaction.                                *)
Pendings ==
  \A c \in DiskConn : pending[c] # {} =>
    \E w \in Thread :
      /\ diskLoan[w] = c /\ pending[c] = {Row(w)}
      /\ pc[w] \in {"produce", "poll", "commit", "rollback"}

Locks ==
  \A p \in KnownProduct : rowLock[p] # NoConn =>
    \E w \in Thread :
      /\ diskLoan[w] = rowLock[p]
      /\ pc[w] \in {"getid", "insert", "produce", "poll", "commit", "rollback"}

(* A message is on its way once.                                           *)
Sent ==
  /\ \A w \in Thread : \A m \in inflight[w] : m.by = w /\ m \notin topic
  /\ \A m \in topic : m.ord <= taken
  /\ \A w \in Thread : \A m \in inflight[w] : m.ord <= taken

NotSent ==
  \A w \in Thread : pc[w] \in {"getconn", "start", "query", "getid", "insert", "produce"} =>
    /\ \A m \in topic : m.ord # ord[w]
    /\ \A v \in Thread : \A m \in inflight[v] : m.ord # ord[w]

Finite ==
  /\ IsFiniteSet(buyOrder) /\ IsFiniteSet(topic)
  /\ \A w \in Thread : IsFiniteSet(reports[w])

(* A report that was not served, and the one a commit is about to use.     *)
Earned(w) == Cardinality(reports[w]) + (IF pc[w] = "commit" THEN 1 ELSE 0)

Backed ==
  \A w \in Thread : Cardinality(Of(buyOrder, w)) + Earned(w) <= Cardinality(Of(topic, w))

IInv ==
  /\ IdInv
  /\ WorkerTypes /\ TableTypes /\ KafkaTypes /\ BoundTypes
  /\ Loans /\ Orders /\ Pendings /\ Locks
  /\ Sent /\ NotSent /\ Finite /\ Backed

-----------------------------------------------------------------------------
(* getId: every step.                                                      *)

IdStepOf(t) == CallGetId(t) \/ InsideGetId(t) \/ ReturnId(t)
IdNext == (\E t \in Thread : IdStepOf(t)) \/ Midnight \/ IdCrash

LEMMA StepsOfGetId ==
  [Next]_vars => [IdNext]_idVars
<1> SUFFICES ASSUME [Next]_vars PROVE [IdNext]_idVars
  OBVIOUS
<1> USE DEF IdNext, IdStepOf
<1>1. ASSUME NEW w \in Thread, RunTask(w) \/ Work(w) PROVE [IdNext]_idVars
  <2>1. CASE QueryByProductID(w)
    BY <2>1 DEF QueryByProductID
  <2>2. CASE GetIdStep(w)
    BY <2>2 DEF GetIdStep
  <2>3. CASE GetIdReturns(w)
    BY <2>3 DEF GetIdReturns
  <2>4. CASE UNCHANGED idVars
    BY <2>4
  <2>5. ASSUME ~(QueryByProductID(w) \/ GetIdStep(w) \/ GetIdReturns(w))
        PROVE  UNCHANGED idVars
    BY <1>1, <2>5 DEF RunTask, Work, GetDiskConn, TransationStart, PriceThrows,
       StatementFails, Insert, Produce, ProduceFails, Poll, TransationCommit,
       CommitFails, TransationRollback, ReleaseConnection
  <2> QED
    BY <2>1, <2>2, <2>3, <2>4, <2>5
<1>2. CASE Broker
  BY <1>2 DEF Broker
<1>3. CASE PassMidnight
  BY <1>3 DEF PassMidnight
<1>4. CASE Crash
  BY <1>4 DEF Crash
<1>5. CASE UNCHANGED vars
  BY <1>5 DEF vars
<1> QED
  BY <1>1, <1>2, <1>3, <1>4, <1>5 DEF Next

LEMMA Days ==
  1 \in Day /\ Day \subseteq Nat
BY IdAssumption DEF Day

(* What FormatId adds to the numbers issued.                               *)
Number_(t) == IF index[t] > 0 THEN <<tm, index[t]>> ELSE NoId

LEMMA Issued ==
  ASSUME IdTypeOK, NEW t \in Thread, FormatId(t)
  PROVE  /\ Number_(t) \in Number \union {NoId}
         /\ issued' \in [Thread -> Seq([id : Number \union {NoId}, key : Day])]
         /\ \A u \in Thread : u # t => issued'[u] = issued[u]
         /\ Len(issued[t]) \in Nat /\ Len(issued'[t]) = Len(issued[t]) + 1
         /\ \A i \in 1..Len(issued[t]) : issued'[t][i] = issued[t][i]
         /\ issued'[t][Len(issued[t]) + 1] = [id |-> Number_(t), key |-> idName[t]]
<1> DEFINE R == [id : Number \union {NoId}, key : Day]
<1> DEFINE r == [id |-> Number_(t), key |-> idName[t]]
<1>1. Number_(t) \in Number \union {NoId}
  BY DEF IdTypeOK, Number_, Number
<1>2. r \in R
  BY <1>1 DEF IdTypeOK
<1>3. issued' = [issued EXCEPT ![t] = Append(issued[t], r)]
  BY DEF FormatId, Number_
<1>4. issued \in [Thread -> Seq(R)]
  BY DEF IdTypeOK
<1> HIDE DEF R, r
<1>5. issued[t] \in Seq(R)
  BY ONLY <1>4, t \in Thread
<1>6. /\ Append(issued[t], r) \in Seq(R) /\ Len(issued[t]) \in Nat
      /\ Len(Append(issued[t], r)) = Len(issued[t]) + 1
      /\ \A i \in 1..Len(issued[t]) : Append(issued[t], r)[i] = issued[t][i]
      /\ Append(issued[t], r)[Len(issued[t]) + 1] = r
  BY ONLY <1>2, <1>5
<1>7. issued'[t] = Append(issued[t], r) /\ issued' \in [Thread -> Seq(R)]
      /\ \A u \in Thread : u # t => issued'[u] = issued[u]
  BY ONLY <1>3, <1>4, <1>6, t \in Thread
<1> QED
  BY <1>1, <1>6, <1>7 DEF R, r

(* A step of getId that adds no number and moves no counter leaves what is  *)
(* known of the numbers alone.                                             *)
LEMMA Entries ==
  ASSUME IdTypeOK, NEW t \in Thread, FormatId(t), NEW u \in Thread,
         NEW i \in 1..Len(issued'[u])
  PROVE  \/ /\ i \in 1..Len(issued[u]) /\ issued'[u][i] = issued[u][i]
            /\ (u = t => i # Len(issued[t]) + 1)
         \/ /\ u = t /\ i = Len(issued[t]) + 1 /\ i \notin 1..Len(issued[u])
            /\ issued'[u][i] = [id |-> Number_(t), key |-> idName[t]]
<1>1. CASE u = t
  <2>1. Len(issued[t]) \in Nat /\ Len(issued'[t]) = Len(issued[t]) + 1
        /\ (\A j \in 1..Len(issued[t]) : issued'[t][j] = issued[t][j])
        /\ issued'[t][Len(issued[t]) + 1] = [id |-> Number_(t), key |-> idName[t]]
    BY Issued
  <2>2. i \in 1..Len(issued[t]) \/ i = Len(issued[t]) + 1
    BY <1>1, <2>1
  <2> QED
    BY <1>1, <2>1, <2>2
<1>2. CASE u # t
  BY <1>2, Issued
<1> QED
  BY <1>1, <1>2

LEMMA IssuedTypes ==
  ASSUME IdTypeOK, NEW t \in Thread, NEW i \in 1..Len(issued[t])
  PROVE  /\ issued[t][i].key \in Day /\ issued[t][i].id \in Number \union {NoId}
         /\ issued[t][i].id[2] \in Nat
<1> DEFINE R == [id : Number \union {NoId}, key : Day]
<1>1. issued[t] \in Seq(R)
  BY DEF IdTypeOK
<1>2. issued[t][i] \in R
  <2> HIDE DEF R
  <2> QED
    BY ONLY <1>1, i \in 1..Len(issued[t])
<1> QED
  BY <1>2 DEF Number, NoId

LEMMA NextIdTypes ==
  IdTypeOK /\ [IdNext]_idVars => IdTypeOK'
<1> SUFFICES ASSUME IdTypeOK, [IdNext]_idVars PROVE IdTypeOK'
  OBVIOUS
<1> USE Days DEF IdTypeOK, IdLocation, GotoId, clientVars, poolVars
<1>1. ASSUME NEW t \in Thread, IdStepOf(t) PROVE IdTypeOK'
  <2>1. CASE CallGetId(t)
    BY <2>1 DEF CallGetId, Mem!Ask
  <2>2. CASE GetMemConn(t)
    BY <2>2 DEF GetMemConn, Mem!Lend, Mem!Free
  <2>3. CASE LocalTime(t)
    BY <2>3 DEF LocalTime
  <2>4. CASE KeyName(t)
    BY <2>4 DEF KeyName
  <2>5. CASE Inc(t)
    <3>1. counter' \in [Day -> Nat]
      <4>1. idName[t] \in Day /\ counter \in [Day -> Nat]
        OBVIOUS
      <4>2. counter' = [counter EXCEPT ![idName[t]] = counter[idName[t]] + 1]
        BY <2>5 DEF Inc
      <4> QED
        BY ONLY <4>1, <4>2
    <3>2. index' \in [Thread -> Nat]
      BY <2>5, <3>1 DEF Inc
    <3>3. idpc' \in [Thread -> IdLocation]
      BY <2>5 DEF Inc
    <3> QED
      BY <2>5, <3>1, <3>2, <3>3 DEF Inc
  <2>6. CASE IncError(t)
    <3>1. index' \in [Thread -> Nat] /\ errors' \in 0..MaxErrors
      BY <2>6, IdAssumption DEF IncError
    <3> QED
      BY <2>6, <3>1 DEF IncError
  <2>7. CASE FormatId(t)
    <3>1. Number_(t) \in Number \union {NoId}
          /\ issued' \in [Thread -> Seq([id : Number \union {NoId}, key : Day])]
      BY <2>7, Issued
    <3> QED
      BY <2>7, <3>1 DEF FormatId, Number_
  <2>8. CASE ReturnId(t)
    BY <2>8 DEF ReturnId, Mem!GiveBack
  <2> QED
    BY <1>1, <2>1, <2>2, <2>3, <2>4, <2>5, <2>6, <2>7, <2>8 DEF IdStepOf, InsideGetId
<1>2. CASE Midnight
  <2>1. clock' \in Day
    BY <1>2, IdAssumption DEF Midnight, Day
  <2> QED
    BY <1>2, <2>1 DEF Midnight
<1>3. CASE IdCrash
  BY <1>3 DEF IdCrash
<1>4. CASE UNCHANGED idVars
  BY <1>4 DEF idVars
<1> QED
  BY <1>1, <1>2, <1>3, <1>4 DEF IdNext

LEMMA NextIssuedCounted ==
  IdTypeOK /\ IssuedCounted /\ HeldCounted /\ [IdNext]_idVars => IssuedCounted'
<1> SUFFICES ASSUME IdTypeOK, IssuedCounted, HeldCounted, [IdNext]_idVars
    PROVE  IssuedCounted'
  OBVIOUS
<1> USE DEF IssuedCounted, clientVars, poolVars
<1>1. ASSUME NEW t \in Thread, IdStepOf(t) PROVE IssuedCounted'
  <2>1. CASE Inc(t)
    <3>1. /\ issued' = issued
          /\ \A d \in Day :
               counter'[d] \in Nat /\ counter[d] \in Nat /\ counter'[d] >= counter[d]
      BY <2>1 DEF Inc, IdTypeOK
    <3>2. \A u \in Thread : \A i \in 1..Len(issued[u]) :
            issued[u][i].key \in Day /\ issued[u][i].id[2] \in Nat
      BY IssuedTypes
    <3> QED
      BY <3>1, <3>2
  <2>2. CASE FormatId(t)
    <3>1. counter' = counter /\ idpc[t] = "format" /\ (Number_(t) # NoId => index[t] > 0)
      BY <2>2 DEF FormatId, Number_
    <3>2. Number_(t) # NoId => Number_(t)[2] <= counter[idName[t]]
      BY <3>1 DEF HeldCounted, Holds, Number_
    <3> SUFFICES ASSUME NEW u \in Thread, NEW i \in 1..Len(issued'[u]),
                        issued'[u][i].id # NoId
                 PROVE  issued'[u][i].id[2] <= counter[issued'[u][i].key]
      BY <3>1
    <3> DEFINE new == [id |-> Number_(t), key |-> idName[t]]
    <3>3. \/ i \in 1..Len(issued[u]) /\ issued'[u][i] = issued[u][i]
          \/ issued'[u][i] = new
      BY <2>2, Entries
    <3>4. new.id = Number_(t) /\ new.key = idName[t]
      OBVIOUS
    <3> HIDE DEF new
    <3> QED
      BY <3>2, <3>3, <3>4
  <2>3. CASE CallGetId(t) \/ GetMemConn(t) \/ LocalTime(t) \/ KeyName(t)
          \/ IncError(t) \/ ReturnId(t)
    BY <2>3 DEF CallGetId, GetMemConn, LocalTime, KeyName, IncError, ReturnId
  <2> QED
    BY <1>1, <2>1, <2>2, <2>3 DEF IdStepOf, InsideGetId
<1>2. CASE Midnight
  BY <1>2 DEF Midnight
<1>3. CASE IdCrash
  BY <1>3 DEF IdCrash
<1>4. CASE UNCHANGED idVars
  BY <1>4 DEF idVars
<1> QED
  BY <1>1, <1>2, <1>3, <1>4 DEF IdNext

LEMMA NextIssuedApart ==
  IdTypeOK /\ IssuedApart /\ HeldNew /\ [IdNext]_idVars => IssuedApart'
<1> SUFFICES ASSUME IdTypeOK, IssuedApart, HeldNew, [IdNext]_idVars PROVE IssuedApart'
  OBVIOUS
<1> USE DEF IssuedApart, clientVars, poolVars
<1>1. ASSUME NEW t \in Thread, IdStepOf(t) PROVE IssuedApart'
  <2>1. CASE FormatId(t)
    <3>1. Number_(t) # NoId => Holds(t) /\ Number_(t)[2] = index[t]
      BY <2>1 DEF FormatId, Number_, Holds
    <3>2. \A u \in Thread : \A i \in 1..Len(issued[u]) :
            Number_(t) # NoId /\ issued[u][i].id # NoId /\ issued[u][i].key = idName[t]
            => issued[u][i].id[2] # Number_(t)[2]
      BY <3>1 DEF HeldNew
    <3> SUFFICES ASSUME NEW v \in Thread, NEW u \in Thread,
                        NEW i \in 1..Len(issued'[v]), NEW j \in 1..Len(issued'[u]),
                        v # u \/ i # j,
                        issued'[v][i].id # NoId, issued'[u][j].id # NoId,
                        issued'[v][i].key = issued'[u][j].key
                 PROVE  issued'[v][i].id[2] # issued'[u][j].id[2]
      OBVIOUS
    <3> DEFINE new == [id |-> Number_(t), key |-> idName[t]]
    <3>3. \/ i \in 1..Len(issued[v]) /\ issued'[v][i] = issued[v][i]
          \/ v = t /\ i = Len(issued[t]) + 1 /\ issued'[v][i] = new
      BY <2>1, Entries
    <3>4. \/ j \in 1..Len(issued[u]) /\ issued'[u][j] = issued[u][j]
          \/ u = t /\ j = Len(issued[t]) + 1 /\ issued'[u][j] = new
      BY <2>1, Entries
    <3>5. new.id = Number_(t) /\ new.key = idName[t]
      OBVIOUS
    <3> HIDE DEF new
    <3>6. CASE issued'[v][i] = new /\ v = t /\ i = Len(issued[t]) + 1
      <4>1. ~(u = t /\ j = Len(issued[t]) + 1)
        BY <3>6
      <4> QED
        BY <3>2, <3>4, <3>5, <3>6, <4>1
    <3>7. CASE issued'[u][j] = new /\ u = t /\ j = Len(issued[t]) + 1
      <4>1. ~(v = t /\ i = Len(issued[t]) + 1)
        BY <3>7
      <4>2. issued[v][i].id[2] # Number_(t)[2]
        BY <3>2, <3>3, <3>5, <3>7, <4>1
      <4> QED
        BY <3>3, <3>5, <3>7, <4>1, <4>2
    <3>8. CASE issued'[v][i] = issued[v][i] /\ i \in 1..Len(issued[v])
               /\ issued'[u][j] = issued[u][j] /\ j \in 1..Len(issued[u])
      BY <3>8
    <3> QED
      BY <3>3, <3>4, <3>6, <3>7, <3>8
  <2>2. CASE CallGetId(t) \/ GetMemConn(t) \/ LocalTime(t) \/ KeyName(t) \/ Inc(t)
          \/ IncError(t) \/ ReturnId(t)
    BY <2>2 DEF CallGetId, GetMemConn, LocalTime, KeyName, Inc, IncError, ReturnId
  <2> QED
    BY <1>1, <2>1, <2>2 DEF IdStepOf, InsideGetId
<1>2. CASE Midnight
  BY <1>2 DEF Midnight
<1>3. CASE IdCrash
  BY <1>3 DEF IdCrash
<1>4. CASE UNCHANGED idVars
  BY <1>4 DEF idVars
<1> QED
  BY <1>1, <1>2, <1>3, <1>4 DEF IdNext

LEMMA NextHeldCounted ==
  IdTypeOK /\ HeldCounted /\ [IdNext]_idVars => HeldCounted'
<1> SUFFICES ASSUME IdTypeOK, HeldCounted, [IdNext]_idVars PROVE HeldCounted'
  OBVIOUS
<1> USE DEF HeldCounted, Holds, clientVars, poolVars
<1>1. ASSUME NEW t \in Thread, IdStepOf(t) PROVE HeldCounted'
  <2>1. CASE CallGetId(t)
    BY <2>1 DEF CallGetId, GotoId, IdTypeOK
  <2>2. CASE GetMemConn(t)
    BY <2>2 DEF GetMemConn, GotoId, IdTypeOK
  <2>3. CASE LocalTime(t)
    BY <2>3 DEF LocalTime, GotoId, IdTypeOK
  <2>4. CASE KeyName(t)
    BY <2>4 DEF KeyName, GotoId, IdTypeOK
  <2>5. CASE Inc(t)
    <3>1. /\ index' = [index EXCEPT ![t] = counter'[idName[t]]] /\ idName' = idName
          /\ idpc' = [idpc EXCEPT ![t] = "format"]
          /\ \A d \in Day :
               counter'[d] \in Nat /\ counter[d] \in Nat /\ counter'[d] >= counter[d]
      BY <2>5 DEF Inc, GotoId, IdTypeOK
    <3> QED
      BY <3>1 DEF IdTypeOK
  <2>6. CASE IncError(t)
    BY <2>6 DEF IncError, GotoId, IdTypeOK
  <2>7. CASE FormatId(t)
    BY <2>7 DEF FormatId, GotoId, IdTypeOK
  <2>8. CASE ReturnId(t)
    BY <2>8 DEF ReturnId, GotoId, IdTypeOK
  <2> QED
    BY <1>1, <2>1, <2>2, <2>3, <2>4, <2>5, <2>6, <2>7, <2>8 DEF IdStepOf, InsideGetId
<1>2. CASE Midnight
  BY <1>2 DEF Midnight
<1>3. CASE IdCrash
  BY <1>3 DEF IdCrash
<1>4. CASE UNCHANGED idVars
  BY <1>4 DEF idVars
<1> QED
  BY <1>1, <1>2, <1>3, <1>4 DEF IdNext

LEMMA NextHeldApart ==
  IdTypeOK /\ HeldCounted /\ HeldApart /\ [IdNext]_idVars => HeldApart'
<1> SUFFICES ASSUME IdTypeOK, HeldCounted, HeldApart, [IdNext]_idVars PROVE HeldApart'
  OBVIOUS
<1> USE DEF HeldApart, Holds, clientVars, poolVars
<1>1. ASSUME NEW t \in Thread, IdStepOf(t) PROVE HeldApart'
  <2>1. CASE CallGetId(t)
    BY <2>1 DEF CallGetId, GotoId, IdTypeOK
  <2>2. CASE GetMemConn(t)
    BY <2>2 DEF GetMemConn, GotoId, IdTypeOK
  <2>3. CASE LocalTime(t)
    BY <2>3 DEF LocalTime, GotoId, IdTypeOK
  <2>4. CASE KeyName(t)
    BY <2>4 DEF KeyName, GotoId, IdTypeOK
  <2>5. CASE Inc(t)
    <3>1. /\ idName' = idName /\ idpc' = [idpc EXCEPT ![t] = "format"]
          /\ \A u \in Thread : u # t => index'[u] = index[u] /\ idpc'[u] = idpc[u]
          /\ index'[t] = counter[idName[t]] + 1 /\ counter[idName[t]] \in Nat
      BY <2>5 DEF Inc, GotoId, IdTypeOK
    <3>2. \A u \in Thread :
            Holds(u) /\ idName[u] = idName[t] => index[u] < counter[idName[t]] + 1
      BY <3>1 DEF HeldCounted, IdTypeOK
    <3>3. \A u \in Thread : u # t => (Holds(u)' <=> Holds(u))
      BY <3>1
    <3> HIDE DEF Holds
    <3> SUFFICES ASSUME NEW v \in Thread, NEW u \in Thread, v # u,
                        Holds(v)', Holds(u)', idName[v] = idName[u]
                 PROVE  index'[v] # index'[u]
      BY <3>1
    <3>4. CASE v = t
      BY <3>1, <3>2, <3>3, <3>4 DEF IdTypeOK
    <3>5. CASE u = t
      BY <3>1, <3>2, <3>3, <3>5 DEF IdTypeOK
    <3> QED
      BY <3>1, <3>3, <3>4, <3>5
  <2>6. CASE IncError(t)
    BY <2>6 DEF IncError, GotoId, IdTypeOK
  <2>7. CASE FormatId(t)
    BY <2>7 DEF FormatId, GotoId, IdTypeOK
  <2>8. CASE ReturnId(t)
    BY <2>8 DEF ReturnId, GotoId, IdTypeOK
  <2> QED
    BY <1>1, <2>1, <2>2, <2>3, <2>4, <2>5, <2>6, <2>7, <2>8 DEF IdStepOf, InsideGetId
<1>2. CASE Midnight
  BY <1>2 DEF Midnight
<1>3. CASE IdCrash
  BY <1>3 DEF IdCrash
<1>4. CASE UNCHANGED idVars
  BY <1>4 DEF idVars
<1> QED
  BY <1>1, <1>2, <1>3, <1>4 DEF IdNext

LEMMA NextHeldNew ==
  IdTypeOK /\ IssuedCounted /\ HeldApart /\ HeldNew /\ [IdNext]_idVars => HeldNew'
<1> SUFFICES ASSUME IdTypeOK, IssuedCounted, HeldApart, HeldNew, [IdNext]_idVars
    PROVE  HeldNew'
  OBVIOUS
<1> USE DEF HeldNew, Holds, clientVars, poolVars
<1>1. ASSUME NEW t \in Thread, IdStepOf(t) PROVE HeldNew'
  <2>1. CASE CallGetId(t)
    BY <2>1 DEF CallGetId, GotoId, IdTypeOK
  <2>2. CASE GetMemConn(t)
    BY <2>2 DEF GetMemConn, GotoId, IdTypeOK
  <2>3. CASE LocalTime(t)
    BY <2>3 DEF LocalTime, GotoId, IdTypeOK
  <2>4. CASE KeyName(t)
    BY <2>4 DEF KeyName, GotoId, IdTypeOK
  <2>5. CASE Inc(t)
    <3>1. /\ idName' = idName /\ issued' = issued
          /\ \A u \in Thread : u # t => index'[u] = index[u] /\ idpc'[u] = idpc[u]
          /\ index'[t] = counter[idName[t]] + 1 /\ counter[idName[t]] \in Nat
      BY <2>5 DEF Inc, GotoId, IdTypeOK
    <3>2. \A u \in Thread : \A i \in 1..Len(issued[u]) : issued[u][i].id[2] \in Nat
      BY IssuedTypes
    <3>3. \A u \in Thread : \A i \in 1..Len(issued[u]) :
            issued[u][i].id # NoId /\ issued[u][i].key = idName[t]
            => issued[u][i].id[2] # counter[idName[t]] + 1
      BY <3>1, <3>2 DEF IssuedCounted
    <3> QED
      BY <3>1, <3>3
  <2>6. CASE IncError(t)
    <3>1. /\ idName' = idName /\ issued' = issued
          /\ \A u \in Thread : Holds(u)' => Holds(u) /\ index'[u] = index[u]
      BY <2>6 DEF IncError, GotoId, IdTypeOK
    <3> QED
      BY <3>1
  <2>7. CASE FormatId(t)
    <3>1. /\ idName' = idName /\ index' = index /\ idpc[t] = "format"
          /\ \A u \in Thread : Holds(u)' => u # t /\ Holds(u)
          /\ Number_(t) # NoId => Holds(t) /\ Number_(t)[2] = index[t]
      BY <2>7 DEF FormatId, GotoId, IdTypeOK, Number_
    <3>2. \A u \in Thread : Holds(u)' /\ Number_(t) # NoId /\ idName[t] = idName[u]
            => Number_(t)[2] # index[u]
      BY <3>1 DEF HeldApart
    <3> SUFFICES ASSUME NEW v \in Thread, NEW u \in Thread, NEW i \in 1..Len(issued'[u]),
                        Holds(v)', issued'[u][i].id # NoId, issued'[u][i].key = idName[v]
                 PROVE  issued'[u][i].id[2] # index[v]
      BY <3>1
    <3> DEFINE new == [id |-> Number_(t), key |-> idName[t]]
    <3>3. \/ i \in 1..Len(issued[u]) /\ issued'[u][i] = issued[u][i]
          \/ u = t /\ i = Len(issued[t]) + 1 /\ issued'[u][i] = new
      BY <2>7, Entries
    <3>4. new.id = Number_(t) /\ new.key = idName[t]
      OBVIOUS
    <3> HIDE DEF new
    <3> QED
      BY <3>1, <3>2, <3>3, <3>4
  <2>8. CASE ReturnId(t)
    BY <2>8 DEF ReturnId, GotoId, IdTypeOK
  <2> QED
    BY <1>1, <2>1, <2>2, <2>3, <2>4, <2>5, <2>6, <2>7, <2>8 DEF IdStepOf, InsideGetId
<1>2. CASE Midnight
  BY <1>2 DEF Midnight
<1>3. CASE IdCrash
  BY <1>3 DEF IdCrash
<1>4. CASE UNCHANGED idVars
  BY <1>4 DEF idVars
<1> QED
  BY <1>1, <1>2, <1>3, <1>4 DEF IdNext

LEMMA NextIdInv ==
  IdInv /\ [IdNext]_idVars => IdInv'
BY NextIdTypes, NextIssuedCounted, NextIssuedApart, NextHeldCounted, NextHeldApart,
   NextHeldNew DEF IdInv

LEMMA InitIdInv ==
  Init => IdInv
<1> SUFFICES ASSUME Init PROVE IdInv
  OBVIOUS
<1>1. /\ \A t \in Thread : issued[t] = <<>> /\ idpc[t] = "out"
      /\ issued = [t \in Thread |-> <<>>]
  BY DEF Init, IdInit
<1>2. \A t \in Thread : Len(issued[t]) = 0
  BY <1>1
<1>3. issued \in [Thread -> Seq([id : Number \union {NoId}, key : Day])]
  BY <1>1
<1>4. IdTypeOK
  BY <1>3, Days, IdAssumption DEF Init, IdInit, IdTypeOK, Mem!Init, IdLocation
<1> QED
  BY <1>1, <1>2, <1>4 DEF IdInv, IssuedCounted, IssuedApart, HeldCounted, HeldApart,
     HeldNew, Holds

-----------------------------------------------------------------------------
(* Placing an order: every step, part by part.                             *)

LEMMA NextWorkerTypes ==
  WorkerTypes /\ [Next]_vars => WorkerTypes'
<1> SUFFICES ASSUME WorkerTypes, [Next]_vars PROVE WorkerTypes'
  OBVIOUS
<1> USE OrderAssumption DEF WorkerTypes, Location, Goto, diskVars, dbVars,
        kafkaVars, taskVars, boundVars
<1>1. ASSUME NEW w \in Thread, RunTask(w) \/ Work(w) PROVE WorkerTypes'
  <2>1. CASE RunTask(w)
    BY <2>1 DEF RunTask, Disk!Ask
  <2>2. CASE GetDiskConn(w)
    BY <2>2 DEF GetDiskConn, Disk!Lend, Disk!Free
  <2>3. CASE ReleaseConnection(w)
    BY <2>3 DEF ReleaseConnection, Disk!GiveBack
  <2>4. CASE TransationStart(w) \/ QueryByProductID(w) \/ PriceThrows(w)
          \/ StatementFails(w) \/ GetIdStep(w) \/ GetIdReturns(w) \/ Insert(w)
          \/ Produce(w) \/ ProduceFails(w) \/ Poll(w) \/ TransationCommit(w)
          \/ CommitFails(w) \/ TransationRollback(w)
    BY <2>4 DEF TransationStart, QueryByProductID, PriceThrows, StatementFails,
      GetIdStep, GetIdReturns, Insert, Produce, ProduceFails, Poll,
      TransationCommit, CommitFails, TransationRollback, EndTransaction, Fault
  <2> QED
    BY <1>1, <2>1, <2>2, <2>3, <2>4 DEF Work
<1>2. CASE Broker
  BY <1>2 DEF Broker, Acknowledge, StoreUnacknowledged, Lose, Leaves
<1>3. CASE PassMidnight
  BY <1>3 DEF PassMidnight
<1>4. CASE Crash
  BY <1>4 DEF Crash
<1>5. CASE UNCHANGED vars
  BY <1>5 DEF vars
<1> QED
  BY <1>1, <1>2, <1>3, <1>4, <1>5 DEF Next

LEMMA NextBoundTypes ==
  BoundTypes /\ [Next]_vars => BoundTypes'
<1> SUFFICES ASSUME BoundTypes, [Next]_vars PROVE BoundTypes'
  OBVIOUS
<1> USE OrderAssumption DEF BoundTypes, Goto, diskVars, dbVars, kafkaVars, taskVars,
        boundVars
<1>1. ASSUME NEW w \in Thread, RunTask(w) \/ Work(w) PROVE BoundTypes'
  BY <1>1 DEF Work, RunTask, GetDiskConn, TransationStart, QueryByProductID,
    PriceThrows, StatementFails, GetIdStep, GetIdReturns, Insert, Produce,
    ProduceFails, Poll, TransationCommit, CommitFails, TransationRollback,
    ReleaseConnection, Disk!Ask, Disk!Lend, EndTransaction, Fault, Disk!GiveBack
<1>2. CASE Broker
  BY <1>2 DEF Broker, Acknowledge, StoreUnacknowledged, Lose, Leaves
<1>3. CASE PassMidnight
  BY <1>3 DEF PassMidnight
<1>4. CASE Crash
  BY <1>4 DEF Crash
<1>5. CASE UNCHANGED vars
  BY <1>5 DEF vars
<1> QED
  BY <1>1, <1>2, <1>3, <1>4, <1>5 DEF Next

LEMMA RowType ==
  ASSUME IdTypeOK, WorkerTypes, Orders, NEW w \in Thread, pc[w] # "idle"
  PROVE  Row(w) \in OrderRow /\ Row(w).by = w /\ Row(w).ord = ord[w] /\ Row(w).id = id[w]
<1>1. id[w] \in Number \union {NoId}
  BY DEF IdTypeOK
<1>2. ord[w] \in 1..MaxOrders
  BY OrderAssumption DEF WorkerTypes, Orders
<1> QED
  BY <1>1, <1>2 DEF Row, OrderRow

(* A worker with a connection has one of the pool.                         *)
LEMMA Connected ==
  ASSUME WorkerTypes, Loans, NEW w \in Thread, pc[w] \notin {"idle", "getconn"}
  PROVE  Conn(w) \in DiskConn /\ Conn(w) # NoConn
BY OrderAssumption DEF WorkerTypes, Loans, Conn

LEMMA NextTableTypes ==
  /\ IdTypeOK /\ WorkerTypes /\ Orders /\ Loans /\ TableTypes /\ [Next]_vars
  => TableTypes'
<1> SUFFICES ASSUME IdTypeOK, WorkerTypes, Orders, Loans, TableTypes, [Next]_vars
    PROVE  TableTypes'
  OBVIOUS
<1> USE DEF TableTypes, Goto, diskVars, dbVars, kafkaVars, taskVars, boundVars
<1>1. ASSUME NEW w \in Thread, RunTask(w) \/ Work(w) PROVE TableTypes'
  <2>1. CASE TransationStart(w)
    <3>1. Conn(w) \in DiskConn
      BY <2>1, Connected DEF TransationStart
    <3> QED
      BY <2>1, <3>1 DEF TransationStart, EndTransaction
  <2>2. CASE QueryByProductID(w)
    <3>1. Conn(w) \in DiskConn
      BY <2>2, Connected DEF QueryByProductID
    <3> QED
      BY <2>2, <3>1 DEF QueryByProductID
  <2>3. CASE Insert(w)
    <3>1. Conn(w) \in DiskConn /\ Row(w) \in OrderRow
      BY <2>3, Connected, RowType DEF Insert
    <3> HIDE DEF OrderRow, Row
    <3> QED
      BY <2>3, <3>1 DEF Insert
  <2>4. CASE TransationCommit(w)
    <3>1. Conn(w) \in DiskConn
      BY <2>4, Connected DEF TransationCommit
    <3> QED
      BY <2>4, <3>1 DEF TransationCommit, EndTransaction
  <2>5. CASE RunTask(w) \/ GetDiskConn(w) \/ PriceThrows(w) \/ StatementFails(w)
          \/ GetIdStep(w) \/ GetIdReturns(w) \/ Produce(w) \/ ProduceFails(w)
          \/ Poll(w) \/ CommitFails(w) \/ TransationRollback(w)
          \/ ReleaseConnection(w)
    BY <2>5 DEF RunTask, GetDiskConn, PriceThrows, StatementFails, GetIdStep,
      GetIdReturns, Produce, ProduceFails, Poll, CommitFails, TransationRollback,
      ReleaseConnection, Disk!Ask, Disk!Lend, Fault, EndTransaction, Disk!GiveBack
  <2> QED
    BY <1>1, <2>1, <2>2, <2>3, <2>4, <2>5 DEF Work
<1>2. CASE Broker
  BY <1>2 DEF Broker, Acknowledge, StoreUnacknowledged, Lose, Leaves
<1>3. CASE PassMidnight
  BY <1>3 DEF PassMidnight
<1>4. CASE Crash
  BY <1>4 DEF Crash
<1>5. CASE UNCHANGED vars
  BY <1>5 DEF vars
<1> QED
  BY <1>1, <1>2, <1>3, <1>4, <1>5 DEF Next

LEMMA NextKafkaTypes ==
  IdTypeOK /\ WorkerTypes /\ Orders /\ KafkaTypes /\ [Next]_vars => KafkaTypes'
<1> SUFFICES ASSUME IdTypeOK, WorkerTypes, Orders, KafkaTypes, [Next]_vars
    PROVE  KafkaTypes'
  OBVIOUS
<1> USE DEF KafkaTypes, Goto, diskVars, dbVars, kafkaVars, taskVars, boundVars
<1>1. ASSUME NEW w \in Thread, RunTask(w) \/ Work(w) PROVE KafkaTypes'
  <2>1. CASE Produce(w)
    <3>1. Row(w) \in OrderRow
      BY <2>1, RowType DEF Produce
    <3> QED
      BY <2>1, <3>1 DEF Produce
  <2>2. CASE Poll(w)
    BY <2>2 DEF Poll
  <2>3. CASE RunTask(w) \/ GetDiskConn(w) \/ TransationStart(w)
          \/ QueryByProductID(w) \/ PriceThrows(w) \/ StatementFails(w)
          \/ GetIdStep(w) \/ GetIdReturns(w) \/ Insert(w) \/ ProduceFails(w)
          \/ TransationCommit(w) \/ CommitFails(w) \/ TransationRollback(w)
          \/ ReleaseConnection(w)
    BY <2>3 DEF RunTask, GetDiskConn, TransationStart, QueryByProductID,
      PriceThrows, StatementFails, GetIdStep, GetIdReturns, Insert, ProduceFails,
      TransationCommit, CommitFails, TransationRollback, ReleaseConnection,
      Disk!Ask, Disk!Lend, EndTransaction, Fault, Disk!GiveBack
  <2> QED
    BY <1>1, <2>1, <2>2, <2>3 DEF Work
<1>2. CASE Broker
  BY <1>2 DEF Broker, Acknowledge, StoreUnacknowledged, Lose, Leaves
<1>3. CASE PassMidnight
  BY <1>3 DEF PassMidnight
<1>4. CASE Crash
  BY <1>4 DEF Crash
<1>5. CASE UNCHANGED vars
  BY <1>5 DEF vars
<1> QED
  BY <1>1, <1>2, <1>3, <1>4, <1>5 DEF Next

LEMMA NextLoans ==
  WorkerTypes /\ Loans /\ [Next]_vars => Loans'
<1> SUFFICES ASSUME WorkerTypes, Loans, [Next]_vars PROVE Loans'
  OBVIOUS
<1> USE OrderAssumption DEF Loans, WorkerTypes, Goto, diskVars, dbVars, kafkaVars,
        taskVars, boundVars
<1>1. ASSUME NEW w \in Thread, RunTask(w) \/ Work(w) PROVE Loans'
  <2>1. CASE RunTask(w)
    BY <2>1 DEF RunTask, Disk!Ask
  <2>2. CASE GetDiskConn(w)
    <3>1. PICK c \in DiskConn : /\ \A v \in Thread : diskLoan[v] # c
                                /\ diskLoan' = [diskLoan EXCEPT ![w] = c]
      BY <2>2 DEF GetDiskConn, Disk!Lend, Disk!Free
    <3>2. pc' = [pc EXCEPT ![w] = "start"] /\ c # NoConn
      BY <2>2 DEF GetDiskConn
    <3> QED
      BY <3>1, <3>2
  <2>3. CASE StatementFails(w)
    BY <2>3 DEF StatementFails, Fault
  <2>4. CASE Insert(w)
    BY <2>4 DEF Insert
  <2>5. CASE Poll(w)
    BY <2>5 DEF Poll
  <2>6. CASE ReleaseConnection(w)
    BY <2>6 DEF ReleaseConnection, Disk!GiveBack
  <2>7. CASE TransationStart(w) \/ QueryByProductID(w) \/ PriceThrows(w)
          \/ GetIdStep(w) \/ GetIdReturns(w) \/ Produce(w) \/ ProduceFails(w)
          \/ TransationCommit(w) \/ CommitFails(w) \/ TransationRollback(w)
    BY <2>7 DEF TransationStart, QueryByProductID, PriceThrows, GetIdStep,
      GetIdReturns, Produce, ProduceFails, TransationCommit, CommitFails,
      TransationRollback, EndTransaction, Fault
  <2> QED
    BY <1>1, <2>1, <2>2, <2>3, <2>4, <2>5, <2>6, <2>7 DEF Work
<1>2. CASE Broker
  BY <1>2 DEF Broker, Acknowledge, StoreUnacknowledged, Lose, Leaves
<1>3. CASE PassMidnight
  BY <1>3 DEF PassMidnight
<1>4. CASE Crash
  BY <1>4 DEF Crash
<1>5. CASE UNCHANGED vars
  BY <1>5 DEF vars
<1> QED
  BY <1>1, <1>2, <1>3, <1>4, <1>5 DEF Next

LEMMA NextOrders ==
  WorkerTypes /\ Orders /\ [Next]_vars => Orders'
<1> SUFFICES ASSUME WorkerTypes, Orders, [Next]_vars PROVE Orders'
  OBVIOUS
<1> USE OrderAssumption DEF Orders, WorkerTypes, Goto, diskVars, dbVars, kafkaVars,
        taskVars, boundVars
<1>1. ASSUME NEW w \in Thread, RunTask(w) \/ Work(w) PROVE Orders'
  <2>1. CASE RunTask(w)
    BY <2>1 DEF RunTask, Disk!Ask
  <2>2. CASE ReleaseConnection(w)
    BY <2>2 DEF ReleaseConnection, Disk!GiveBack
  <2>3. CASE GetDiskConn(w) \/ TransationStart(w) \/ QueryByProductID(w)
          \/ PriceThrows(w) \/ StatementFails(w) \/ GetIdStep(w) \/ GetIdReturns(w)
          \/ Insert(w) \/ Produce(w) \/ ProduceFails(w) \/ Poll(w)
          \/ TransationCommit(w) \/ CommitFails(w) \/ TransationRollback(w)
    BY <2>3 DEF GetDiskConn, TransationStart, QueryByProductID, PriceThrows,
      StatementFails, GetIdStep, GetIdReturns, Insert, Produce, ProduceFails, Poll,
      TransationCommit, CommitFails, TransationRollback, Disk!Lend, EndTransaction,
      Fault
  <2> QED
    BY <1>1, <2>1, <2>2, <2>3 DEF Work
<1>2. CASE Broker
  BY <1>2 DEF Broker, Acknowledge, StoreUnacknowledged, Lose, Leaves
<1>3. CASE PassMidnight
  BY <1>3 DEF PassMidnight
<1>4. CASE Crash
  BY <1>4 DEF Crash
<1>5. CASE UNCHANGED vars
  BY <1>5 DEF vars
<1> QED
  BY <1>1, <1>2, <1>3, <1>4, <1>5 DEF Next

(* A worker's step leaves the other workers where they are, with their     *)
(* connection, their order and their number.                               *)
LEMMA OthersKept ==
  ASSUME IdTypeOK, WorkerTypes, NEW w \in Thread, RunTask(w) \/ Work(w),
         NEW v \in Thread, v # w
  PROVE  /\ pc'[v] = pc[v] /\ diskLoan'[v] = diskLoan[v] /\ Row(v)' = Row(v)
         /\ ord'[v] = ord[v]
<1> USE DEF IdTypeOK, WorkerTypes, Goto, taskVars, diskVars, idVars, clientVars, Row
<1>1. CASE GetIdStep(w)
  BY <1>1 DEF GetIdStep, InsideGetId, GetMemConn, LocalTime, KeyName, Inc, IncError,
     FormatId
<1>2. CASE QueryByProductID(w)
  BY <1>2 DEF QueryByProductID, CallGetId
<1>3. CASE GetIdReturns(w)
  BY <1>3 DEF GetIdReturns, ReturnId
<1>4. CASE RunTask(w) \/ GetDiskConn(w) \/ ReleaseConnection(w)
  BY <1>4 DEF RunTask, GetDiskConn, ReleaseConnection, Disk!Ask, Disk!Lend, Disk!GiveBack
<1>5. CASE TransationStart(w) \/ PriceThrows(w) \/ StatementFails(w) \/ Insert(w)
           \/ Produce(w) \/ ProduceFails(w)
  BY <1>5 DEF TransationStart, PriceThrows, StatementFails, Insert, Produce, ProduceFails
<1>6. CASE Poll(w) \/ TransationCommit(w) \/ CommitFails(w) \/ TransationRollback(w)
  BY <1>6 DEF Poll, TransationCommit, CommitFails, TransationRollback
<1> QED
  BY <1>1, <1>2, <1>3, <1>4, <1>5, <1>6 DEF Work

(* What a worker with a row in its transaction keeps in a step.            *)
Inserted == {"produce", "poll", "commit", "rollback"}

PendingKept(w) ==
  /\ \A c \in DiskConn : pending'[c] # {} => pending'[c] = pending[c]
  /\ pc[w] \in Inserted /\ pending'[diskLoan[w]] # {}
     => pc'[w] \in Inserted /\ diskLoan'[w] = diskLoan[w] /\ Row(w)' = Row(w)

LEMMA PendingFromKept ==
  ASSUME IdTypeOK, WorkerTypes, Pendings, NEW w \in Thread, RunTask(w) \/ Work(w),
         PendingKept(w)
  PROVE  Pendings'
<1> SUFFICES ASSUME NEW c \in DiskConn, pending'[c] # {}
             PROVE  \E v \in Thread : /\ diskLoan'[v] = c /\ pending'[c] = {Row(v)'}
                                      /\ pc'[v] \in Inserted
  BY DEF Pendings, Inserted
<1>1. pending'[c] = pending[c]
  BY DEF PendingKept
<1>2. PICK v \in Thread : diskLoan[v] = c /\ pending[c] = {Row(v)} /\ pc[v] \in Inserted
  BY <1>1 DEF Pendings, Inserted
<1>3. CASE v = w
  BY <1>1, <1>2, <1>3 DEF PendingKept
<1>4. CASE v # w
  BY <1>1, <1>2, <1>4, OthersKept
<1> QED
  BY <1>3, <1>4

(* The end of a transaction leaves nothing pending on the connection.      *)
LEMMA EndsTransaction ==
  ASSUME WorkerTypes, TableTypes, Loans, NEW w \in Thread,
         pc[w] \notin {"idle", "getconn"}, EndTransaction(Conn(w))
  PROVE  /\ pending'[diskLoan[w]] = {}
         /\ \A c \in DiskConn : pending'[c] # {} => pending'[c] = pending[c]
         /\ \A p \in KnownProduct :
              rowLock'[p] # NoConn => rowLock'[p] = rowLock[p] /\ rowLock[p] # diskLoan[w]
<1>1. Conn(w) \in DiskConn
  BY Connected
<1> QED
  BY <1>1 DEF EndTransaction, TableTypes, Conn

LEMMA NextPendings ==
  /\ IdTypeOK /\ WorkerTypes /\ TableTypes /\ Loans /\ Pendings
  /\ [Next]_vars
  => Pendings'
<1> SUFFICES ASSUME IdTypeOK, WorkerTypes, TableTypes, Loans, Pendings, [Next]_vars
             PROVE  Pendings'
  OBVIOUS
<1>1. ASSUME NEW w \in Thread, RunTask(w) \/ Work(w) PROVE Pendings'
  <2> USE DEF Goto, dbVars, diskVars, taskVars, idVars, clientVars
  <2>1. CASE Insert(w)
    <3>1. Conn(w) \in DiskConn /\ pc[w] = "insert"
      BY <2>1, Connected DEF Insert
    <3>2. pending[Conn(w)] = {}
      <4>1. ASSUME pending[Conn(w)] # {} PROVE FALSE
        <5>1. PICK v \in Thread : diskLoan[v] = Conn(w) /\ pc[v] \in Inserted
          BY <3>1, <4>1 DEF Pendings, Inserted
        <5>2. v = w
          BY <3>1, <5>1, Connected DEF Loans, Conn
        <5> QED
          BY <3>1, <5>1, <5>2 DEF Inserted
      <4> QED
        BY <4>1
    <3>3. /\ pending' = pending \/ pending' = [pending EXCEPT ![Conn(w)] = {Row(w)}]
          /\ pending' # pending => pc' = [pc EXCEPT ![w] = "produce"]
          /\ diskLoan' = diskLoan /\ Row(w)' = Row(w)
      BY <2>1, <3>2 DEF Insert, Row
    <3>4. CASE pending' = pending
      <4>1. PendingKept(w)
        BY <3>1, <3>4 DEF PendingKept, Inserted
      <4> QED
        BY <1>1, <4>1, PendingFromKept
    <3>5. CASE pending' # pending
      <4> SUFFICES ASSUME NEW c \in DiskConn, pending'[c] # {}
                   PROVE  \E v \in Thread : /\ diskLoan'[v] = c /\ pending'[c] = {Row(v)'}
                                            /\ pc'[v] \in Inserted
        BY DEF Pendings, Inserted
      <4>1. CASE c = Conn(w)
        BY <3>1, <3>3, <3>5, <4>1 DEF TableTypes, WorkerTypes, Conn, Inserted
      <4>2. CASE c # Conn(w)
        <5>1. pending'[c] = pending[c]
          BY <3>3, <4>2 DEF TableTypes
        <5>2. PICK v \in Thread : diskLoan[v] = c /\ pending[c] = {Row(v)} /\ pc[v] \in Inserted
          BY <5>1 DEF Pendings, Inserted
        <5>3. v # w
          BY <4>2, <5>2 DEF Conn
        <5> QED
          BY <1>1, <5>1, <5>2, <5>3, OthersKept
      <4> QED
        BY <4>1, <4>2
    <3> QED
      BY <3>4, <3>5
  <2>2. ASSUME ~Insert(w) PROVE PendingKept(w)
    <3>1. CASE \/ TransationStart(w) \/ TransationCommit(w) \/ CommitFails(w)
               \/ TransationRollback(w)
      <4>1. EndTransaction(Conn(w)) /\ pc[w] \notin {"idle", "getconn"}
        BY <3>1 DEF TransationStart, TransationCommit, CommitFails, TransationRollback
      <4> QED
        BY <4>1, EndsTransaction DEF PendingKept
    <3>2. CASE GetIdStep(w) \/ QueryByProductID(w) \/ GetIdReturns(w)
      BY <3>2 DEF GetIdStep, QueryByProductID, GetIdReturns, PendingKept, Inserted
    <3>3. CASE RunTask(w) \/ GetDiskConn(w) \/ ReleaseConnection(w) \/ PriceThrows(w)
      BY <3>3 DEF RunTask, GetDiskConn, ReleaseConnection, PriceThrows, PendingKept,
         Inserted
    <3>4. CASE StatementFails(w) \/ Produce(w) \/ ProduceFails(w) \/ Poll(w)
      BY <3>4 DEF StatementFails, Produce, ProduceFails, Poll, PendingKept, Inserted, Row,
         WorkerTypes
    <3> QED
      BY <1>1, <2>2, <3>1, <3>2, <3>3, <3>4 DEF Work
  <2> QED
    BY <1>1, <2>1, <2>2, PendingFromKept
<1>2. CASE Broker \/ PassMidnight
  BY <1>2 DEF Broker, PassMidnight, Midnight, Pendings, Row, dbVars, diskVars, taskVars,
     idVars, clientVars
<1>3. CASE Crash
  BY <1>3 DEF Crash, Pendings
<1>4. CASE UNCHANGED vars
  BY <1>4 DEF vars, Pendings, Row, dbVars, diskVars, taskVars, idVars, clientVars
<1> QED
  BY <1>1, <1>2, <1>3, <1>4 DEF Next

(* What a worker that holds a product keeps in a step.                     *)
Locking == {"getid", "insert", "produce", "poll", "commit", "rollback"}

LocksKept(w) ==
  /\ \A p \in KnownProduct : rowLock'[p] # NoConn =>
       rowLock'[p] = rowLock[p] \/ (rowLock'[p] = diskLoan'[w] /\ pc'[w] \in Locking)
  /\ pc[w] \in Locking
     => \/ pc'[w] \in Locking /\ diskLoan'[w] = diskLoan[w]
        \/ \A p \in KnownProduct : rowLock'[p] # NoConn => rowLock'[p] # diskLoan[w]

LEMMA NextLocks ==
  /\ IdTypeOK /\ WorkerTypes /\ TableTypes /\ Loans /\ Locks
  /\ [Next]_vars
  => Locks'
<1> SUFFICES ASSUME IdTypeOK, WorkerTypes, TableTypes, Loans, Locks, [Next]_vars
             PROVE  Locks'
  OBVIOUS
<1>1. ASSUME NEW w \in Thread, RunTask(w) \/ Work(w) PROVE Locks'
  <2> USE DEF Goto, dbVars, diskVars, WorkerTypes, TableTypes
  <2>1. LocksKept(w)
    <3>1. CASE \/ TransationStart(w) \/ TransationCommit(w) \/ CommitFails(w)
               \/ TransationRollback(w)
      <4>1. EndTransaction(Conn(w)) /\ pc[w] \notin {"idle", "getconn"}
        BY <3>1 DEF TransationStart, TransationCommit, CommitFails, TransationRollback
      <4> QED
        BY <4>1, EndsTransaction DEF LocksKept
    <3>2. CASE QueryByProductID(w)
      BY <3>2 DEF QueryByProductID, LocksKept, Locking, Conn
    <3>3. CASE RunTask(w) \/ GetDiskConn(w) \/ ReleaseConnection(w) \/ PriceThrows(w)
      BY <3>3 DEF RunTask, GetDiskConn, ReleaseConnection, PriceThrows, LocksKept, Locking
    <3>4. CASE GetIdStep(w) \/ GetIdReturns(w) \/ Insert(w)
      BY <3>4 DEF GetIdStep, GetIdReturns, Insert, LocksKept, Locking
    <3>5. CASE StatementFails(w) \/ Produce(w) \/ ProduceFails(w) \/ Poll(w)
      BY <3>5 DEF StatementFails, Produce, ProduceFails, Poll, LocksKept, Locking
    <3> QED
      BY <1>1, <3>1, <3>2, <3>3, <3>4, <3>5 DEF Work
  <2> SUFFICES ASSUME NEW p \in KnownProduct, rowLock'[p] # NoConn
               PROVE  \E v \in Thread : diskLoan'[v] = rowLock'[p] /\ pc'[v] \in Locking
    BY DEF Locks, Locking
  <2>2. CASE rowLock'[p] = diskLoan'[w] /\ pc'[w] \in Locking
    BY <2>2
  <2>3. CASE rowLock'[p] = rowLock[p]
    <3>1. PICK v \in Thread : diskLoan[v] = rowLock[p] /\ pc[v] \in Locking
      BY <2>3 DEF Locks, Locking
    <3>2. CASE v = w
      BY <2>1, <2>3, <3>1, <3>2 DEF LocksKept
    <3>3. CASE v # w
      BY <1>1, <2>3, <3>1, <3>3, OthersKept
    <3> QED
      BY <3>2, <3>3
  <2> QED
    BY <2>1, <2>2, <2>3 DEF LocksKept
<1>2. CASE Broker \/ PassMidnight
  BY <1>2 DEF Broker, PassMidnight, Locks, dbVars, diskVars
<1>3. CASE Crash
  BY <1>3 DEF Crash, Locks
<1>4. CASE UNCHANGED vars
  BY <1>4 DEF vars, Locks, dbVars, diskVars
<1> QED
  BY <1>1, <1>2, <1>3, <1>4 DEF Next

LEMMA NextSent ==
  WorkerTypes /\ KafkaTypes /\ Orders /\ Sent /\ NotSent /\ [Next]_vars => Sent'
<1> SUFFICES ASSUME WorkerTypes, KafkaTypes, Orders, Sent, NotSent, [Next]_vars
    PROVE  Sent'
  OBVIOUS
<1> USE DEF Sent, Goto, diskVars, dbVars, kafkaVars, taskVars, boundVars
<1>1. ASSUME NEW w \in Thread, RunTask(w) \/ Work(w) PROVE Sent'
  <2>1. CASE RunTask(w)
    <3>1. taken' = taken + 1 /\ taken \in Nat /\ topic' = topic /\ inflight' = inflight
      BY <2>1 DEF RunTask, WorkerTypes
    <3>2. /\ \A m \in topic : m.ord \in Nat
          /\ \A v \in Thread : \A m \in inflight[v] : m.ord \in Nat
      BY DEF KafkaTypes, OrderRow
    <3> QED
      BY <3>1, <3>2
  <2>2. CASE Produce(w)
    <3>1. /\ inflight' = [inflight EXCEPT ![w] = @ \union {Row(w)}]
          /\ topic' = topic /\ taken' = taken /\ pc[w] = "produce"
      BY <2>2 DEF Produce
    <3>2. Row(w).by = w /\ Row(w).ord = ord[w] /\ ord[w] <= taken
      BY DEF Row, Orders
    <3>3. Row(w) \notin topic
      BY <3>1, <3>2 DEF NotSent
    <3> HIDE DEF Row
    <3> QED
      BY <3>1, <3>2, <3>3 DEF KafkaTypes
  <2>3. CASE GetDiskConn(w) \/ TransationStart(w) \/ QueryByProductID(w)
          \/ PriceThrows(w) \/ StatementFails(w) \/ GetIdStep(w) \/ GetIdReturns(w)
          \/ Insert(w) \/ ProduceFails(w) \/ Poll(w) \/ TransationCommit(w)
          \/ CommitFails(w) \/ TransationRollback(w) \/ ReleaseConnection(w)
    BY <2>3 DEF GetDiskConn, TransationStart, QueryByProductID, PriceThrows,
      StatementFails, GetIdStep, GetIdReturns, Insert, ProduceFails, Poll,
      TransationCommit, CommitFails, TransationRollback, ReleaseConnection,
      Disk!Lend, EndTransaction, Fault, Disk!GiveBack
  <2> QED
    BY <1>1, <2>1, <2>2, <2>3 DEF Work
<1>2. CASE Broker
  <2>1. PICK w \in Thread, m \in OrderRow :
          /\ m \in inflight[w]
          /\ inflight' = [inflight EXCEPT ![w] = @ \ {m}]
          /\ topic' = topic \union {m} \/ topic' = topic
          /\ taken' = taken
    BY <1>2 DEF Broker, Acknowledge, StoreUnacknowledged, Lose, Leaves, KafkaTypes
  <2>2. m.by = w /\ m.ord <= taken
    BY <2>1
  <2>3. \A v \in Thread : inflight'[v] \subseteq inflight[v] /\ m \notin inflight'[v]
    BY <2>1, <2>2 DEF KafkaTypes
  <2> QED
    BY <2>1, <2>2, <2>3
<1>3. CASE PassMidnight
  BY <1>3 DEF PassMidnight
<1>4. CASE Crash
  BY <1>4 DEF Crash
<1>5. CASE UNCHANGED vars
  BY <1>5 DEF vars
<1> QED
  BY <1>1, <1>2, <1>3, <1>4, <1>5 DEF Next

LEMMA NextNotSent ==
  WorkerTypes /\ KafkaTypes /\ Orders /\ Sent /\ NotSent /\ [Next]_vars => NotSent'
<1> SUFFICES ASSUME WorkerTypes, KafkaTypes, Orders, Sent, NotSent, [Next]_vars
    PROVE  NotSent'
  OBVIOUS
<1> USE DEF NotSent, WorkerTypes, Goto, diskVars, dbVars, kafkaVars, taskVars,
        boundVars
<1>1. ASSUME NEW w \in Thread, RunTask(w) \/ Work(w) PROVE NotSent'
  <2>1. CASE RunTask(w)
    <3>1. /\ taken' = taken + 1 /\ taken \in Nat /\ topic' = topic /\ inflight' = inflight
          /\ ord' = [ord EXCEPT ![w] = taken + 1] /\ pc' = [pc EXCEPT ![w] = "getconn"]
      BY <2>1 DEF RunTask
    <3>2. /\ \A m \in topic : m.ord \in Nat /\ m.ord # taken + 1
          /\ \A v \in Thread : \A m \in inflight[v] : m.ord \in Nat /\ m.ord # taken + 1
      BY <3>1 DEF KafkaTypes, OrderRow, Sent
    <3> QED
      BY <3>1, <3>2
  <2>2. CASE QueryByProductID(w)
    BY <2>2 DEF QueryByProductID
  <2>3. CASE StatementFails(w)
    BY <2>3 DEF StatementFails, Fault
  <2>4. CASE Insert(w)
    BY <2>4 DEF Insert
  <2>5. CASE Produce(w)
    <3>1. /\ inflight' = [inflight EXCEPT ![w] = @ \union {Row(w)}]
          /\ topic' = topic /\ ord' = ord /\ pc[w] = "produce"
          /\ pc' = [pc EXCEPT ![w] = "poll"]
      BY <2>5 DEF Produce
    <3>2. Row(w).ord = ord[w]
      BY DEF Row
    <3>3. \A v \in Thread : v # w => ord[v] # ord[w]
      BY <3>1 DEF Orders
    <3> HIDE DEF Row
    <3> QED
      BY <3>1, <3>2, <3>3 DEF KafkaTypes
  <2>6. CASE Poll(w)
    BY <2>6 DEF Poll
  <2>7. CASE ReleaseConnection(w)
    BY <2>7 DEF ReleaseConnection, Disk!GiveBack
  <2>8. CASE GetDiskConn(w) \/ TransationStart(w) \/ PriceThrows(w) \/ GetIdStep(w)
          \/ GetIdReturns(w) \/ ProduceFails(w) \/ TransationCommit(w)
          \/ CommitFails(w) \/ TransationRollback(w)
    BY <2>8 DEF GetDiskConn, TransationStart, PriceThrows, GetIdStep, GetIdReturns,
      ProduceFails, TransationCommit, CommitFails, TransationRollback, Disk!Lend,
      EndTransaction, Fault
  <2> QED
    BY <1>1, <2>1, <2>2, <2>3, <2>4, <2>5, <2>6, <2>7, <2>8 DEF Work
<1>2. CASE Broker
  <2>1. PICK w \in Thread, m \in OrderRow :
          /\ m \in inflight[w]
          /\ inflight' = [inflight EXCEPT ![w] = @ \ {m}]
          /\ topic' = topic \union {m} \/ topic' = topic
          /\ ord' = ord /\ pc' = pc
    BY <1>2 DEF Broker, Acknowledge, StoreUnacknowledged, Lose, Leaves, KafkaTypes
  <2>2. \A v \in Thread : inflight'[v] \subseteq inflight[v]
    BY <2>1 DEF KafkaTypes
  <2> QED
    BY <2>1, <2>2
<1>3. CASE PassMidnight
  BY <1>3 DEF PassMidnight
<1>4. CASE Crash
  BY <1>4 DEF Crash
<1>5. CASE UNCHANGED vars
  BY <1>5 DEF vars
<1> QED
  BY <1>1, <1>2, <1>3, <1>4, <1>5 DEF Next

(* What is pending on a connection is finite: nothing, or the one row of    *)
(* the worker that has it, if that worker has inserted it.                 *)
LEMMA PendingOnConn ==
  ASSUME WorkerTypes, Loans, Pendings, NEW w \in Thread, pc[w] \notin {"idle", "getconn"}
  PROVE  /\ pending[Conn(w)] = {} \/ pending[Conn(w)] = {Row(w)}
         /\ pending[Conn(w)] # {} => pc[w] \in Inserted
<1>1. Conn(w) \in DiskConn /\ Conn(w) # NoConn
  BY Connected
<1>2. ASSUME pending[Conn(w)] # {}
      PROVE  pending[Conn(w)] = {Row(w)} /\ pc[w] \in Inserted
  <2>1. PICK v \in Thread : /\ diskLoan[v] = Conn(w) /\ pending[Conn(w)] = {Row(v)}
                            /\ pc[v] \in Inserted
    BY <1>1, <1>2 DEF Pendings, Inserted
  <2>2. v = w
    BY <1>1, <2>1 DEF Loans, Conn
  <2> QED
    BY <2>1, <2>2
<1> QED
  BY <1>2

LEMMA FiniteRow ==
  IsFiniteSet({}) /\ \A w \in Thread : IsFiniteSet({Row(w)})
<1>1. \A x : IsFiniteSet({x})
  BY FS_Singleton
<1> QED
  BY <1>1, FS_EmptySet

LEMMA NextFinite ==
  /\ WorkerTypes /\ TableTypes /\ KafkaTypes /\ Loans /\ Pendings /\ Finite /\
     [Next]_vars
  => Finite'
<1> SUFFICES ASSUME WorkerTypes, TableTypes, KafkaTypes, Loans, Pendings, Finite,
                    [Next]_vars
    PROVE  Finite'
  OBVIOUS
<1> USE DEF Finite, Goto, diskVars, dbVars, kafkaVars, taskVars, boundVars
<1>1. ASSUME NEW w \in Thread, RunTask(w) \/ Work(w) PROVE Finite'
  <2>1. CASE TransationStart(w)
    <3>1. /\ buyOrder' = buyOrder \union pending[Conn(w)]
          /\ topic' = topic /\ reports' = reports
          /\ pc[w] = "start"
      BY <2>1 DEF TransationStart
    <3>2. IsFiniteSet(pending[Conn(w)])
      BY <3>1, PendingOnConn, FiniteRow
    <3> QED
      BY <3>1, <3>2, FS_Union
  <2>2. CASE Poll(w)
    <3>1. /\ buyOrder' = buyOrder /\ topic' = topic
          /\ reports' = [reports EXCEPT ![w] = {}]
      BY <2>2 DEF Poll
    <3> QED
      BY <3>1, FS_EmptySet DEF KafkaTypes
  <2>3. CASE TransationCommit(w)
    <3>1. /\ buyOrder' = buyOrder \union pending[Conn(w)]
          /\ topic' = topic /\ reports' = reports
          /\ pc[w] = "commit"
      BY <2>3 DEF TransationCommit
    <3>2. IsFiniteSet(pending[Conn(w)])
      BY <3>1, PendingOnConn, FiniteRow
    <3> QED
      BY <3>1, <3>2, FS_Union
  <2>4. CASE RunTask(w) \/ GetDiskConn(w) \/ QueryByProductID(w) \/ PriceThrows(w)
          \/ StatementFails(w) \/ GetIdStep(w) \/ GetIdReturns(w) \/ Insert(w)
          \/ Produce(w) \/ ProduceFails(w) \/ CommitFails(w)
          \/ TransationRollback(w) \/ ReleaseConnection(w)
    BY <2>4 DEF RunTask, GetDiskConn, QueryByProductID, PriceThrows, StatementFails,
      GetIdStep, GetIdReturns, Insert, Produce, ProduceFails, CommitFails,
      TransationRollback, ReleaseConnection, Disk!Ask, Disk!Lend, Fault,
      EndTransaction, Disk!GiveBack
  <2> QED
    BY <1>1, <2>1, <2>2, <2>3, <2>4 DEF Work
<1>2. CASE Broker
  <2>1. PICK w \in Thread, m \in OrderRow :
          /\ m \in inflight[w]
          /\ topic' = topic \union {m} \/ topic' = topic
          /\ reports' = [reports EXCEPT ![w] = @ \union {m}] \/ reports' = reports
          /\ buyOrder' = buyOrder
    BY <1>2 DEF Broker, Acknowledge, StoreUnacknowledged, Lose, Leaves, KafkaTypes
  <2>2. IsFiniteSet(topic \union {m}) /\ IsFiniteSet(reports[w] \union {m})
    BY <2>1, FS_AddElement
  <2> QED
    BY <2>1, <2>2 DEF KafkaTypes
<1>3. CASE PassMidnight
  BY <1>3 DEF PassMidnight
<1>4. CASE Crash
  <2>1. buyOrder' = buyOrder /\ topic' = topic /\ \A w \in Thread : reports'[w] = {}
    BY <1>4 DEF Crash
  <2> QED
    BY <2>1, FS_EmptySet
<1>5. CASE UNCHANGED vars
  BY <1>5 DEF vars
<1> QED
  BY <1>1, <1>2, <1>3, <1>4, <1>5 DEF Next

(* One more row or message of w.                                           *)
LEMMA OfMore ==
  ASSUME NEW S, IsFiniteSet(S), NEW m
  PROVE  /\ \A v \in Thread : m.by # v => Of(S \union {m}, v) = Of(S, v)
         /\ \A v \in Thread : /\ Cardinality(Of(S, v)) \in Nat
                              /\ Cardinality(Of(S \union {m}, v)) \in Nat
                              /\ Cardinality(Of(S, v)) <= Cardinality(Of(S \union {m}, v))
                              /\ Cardinality(Of(S \union {m}, v)) <= Cardinality(Of(S, v)) + 1
         /\ m \notin S /\ m.by \in Thread
            => Cardinality(Of(S \union {m}, m.by)) = Cardinality(Of(S, m.by)) + 1
<1>1. ASSUME NEW v \in Thread PROVE IsFiniteSet(Of(S, v)) /\ Cardinality(Of(S, v)) \in Nat
  <2>1. Of(S, v) \subseteq S
    BY DEF Of
  <2> QED
    BY <2>1, FS_Subset, FS_CardinalityType
<1>2. ASSUME NEW v \in Thread, m.by # v PROVE Of(S \union {m}, v) = Of(S, v)
  BY <1>2 DEF Of
<1>3. ASSUME m.by \in Thread PROVE Of(S \union {m}, m.by) = Of(S, m.by) \union {m}
  BY DEF Of
<1>4. ASSUME m.by \in Thread
      PROVE  Cardinality(Of(S \union {m}, m.by))
               = IF m \in Of(S, m.by) THEN Cardinality(Of(S, m.by))
                                      ELSE Cardinality(Of(S, m.by)) + 1
  BY <1>1, <1>3, <1>4, FS_AddElement
<1>5. m \notin S => \A v \in Thread : m \notin Of(S, v)
  BY DEF Of
<1>6. ASSUME NEW v \in Thread
      PROVE  /\ Cardinality(Of(S, v)) \in Nat
             /\ Cardinality(Of(S \union {m}, v)) \in Nat
             /\ Cardinality(Of(S, v)) <= Cardinality(Of(S \union {m}, v))
             /\ Cardinality(Of(S \union {m}, v)) <= Cardinality(Of(S, v)) + 1
  <2>1. CASE m.by = v
    BY <1>1, <1>4, <2>1
  <2>2. CASE m.by # v
    <3>1. Of(S \union {m}, v) = Of(S, v) /\ Cardinality(Of(S, v)) \in Nat
      BY <1>1, <1>2, <2>2
    <3> QED
      BY ONLY <3>1
  <2> QED
    BY <2>1, <2>2
<1> QED
  BY <1>2, <1>4, <1>5, <1>6

LEMMA Counts ==
  ASSUME Finite, NEW v \in Thread
  PROVE  /\ Cardinality(Of(buyOrder, v)) \in Nat /\ Cardinality(Of(topic, v)) \in Nat
         /\ Cardinality(reports[v]) \in Nat
<1>1. Of(buyOrder, v) \subseteq buyOrder /\ Of(topic, v) \subseteq topic
  BY DEF Of
<1> QED
  BY <1>1, FS_Subset, FS_CardinalityType DEF Finite

LEMMA NextBacked ==
  /\ WorkerTypes /\ TableTypes /\ KafkaTypes /\ Loans /\ Pendings /\ Sent /\ Finite
     /\ Backed /\ [Next]_vars
  => Backed'
<1> SUFFICES ASSUME WorkerTypes, TableTypes, KafkaTypes, Loans, Pendings, Sent,
                    Finite, Backed, [Next]_vars
    PROVE  Backed'
  OBVIOUS
<1> USE DEF Backed, Earned, WorkerTypes, Goto, diskVars, dbVars, kafkaVars,
        taskVars, boundVars
<1>1. ASSUME NEW w \in Thread, RunTask(w) \/ Work(w) PROVE Backed'
  <2>1. CASE TransationStart(w)
    <3>1. /\ buyOrder' = buyOrder \union pending[Conn(w)]
          /\ topic' = topic /\ reports' = reports
          /\ pc[w] = "start" /\ pc' = [pc EXCEPT ![w] = "query"]
      BY <2>1 DEF TransationStart
    <3>2. pending[Conn(w)] = {}
      BY <3>1, PendingOnConn DEF Inserted
    <3>3. buyOrder' = buyOrder
      BY <3>1, <3>2
    <3> QED
      BY <3>1, <3>3
  <2>2. CASE Poll(w)
    <3>1. /\ buyOrder' = buyOrder /\ topic' = topic /\ pc[w] = "poll"
          /\ reports' = [reports EXCEPT ![w] = {}]
          /\ pc' = [pc EXCEPT ![w] = IF reports[w] # {} THEN "commit" ELSE "rollback"]
      BY <2>2 DEF Poll
    <3>2. Cardinality(reports[w]) >= (IF reports[w] # {} THEN 1 ELSE 0)
          /\ Cardinality(reports'[w]) = 0
      BY <3>1, FS_EmptySet, Counts DEF KafkaTypes, Finite
    <3>3. Earned(w)' <= Earned(w) /\ Earned(w)' \in Nat /\ Earned(w) \in Nat
      BY <3>1, <3>2, Counts
    <3>4. \A v \in Thread : v # w => Earned(v)' = Earned(v)
      BY <3>1 DEF KafkaTypes
    <3> SUFFICES ASSUME NEW v \in Thread
                 PROVE  Cardinality(Of(buyOrder, v)) + Earned(v)' <= Cardinality(Of(topic, v))
      BY <3>1
    <3> HIDE DEF Earned
    <3> QED
      BY <3>3, <3>4, Counts
  <2>3. CASE TransationCommit(w)
    <3>1. /\ buyOrder' = buyOrder \union pending[Conn(w)]
          /\ topic' = topic /\ reports' = reports
          /\ pc[w] = "commit" /\ pc' = [pc EXCEPT ![w] = "release"]
      BY <2>3 DEF TransationCommit
    <3>2. buyOrder' = buyOrder \/ buyOrder' = buyOrder \union {Row(w)}
      BY <3>1, PendingOnConn
    <3>3. Row(w).by = w
      BY DEF Row
    <3>4. \A v \in Thread :
            /\ v # w => Of(buyOrder', v) = Of(buyOrder, v) /\ pc'[v] = pc[v]
            /\ Cardinality(Of(buyOrder, v)) \in Nat
            /\ Cardinality(Of(buyOrder', v)) \in Nat
            /\ Cardinality(Of(buyOrder', v)) <= Cardinality(Of(buyOrder, v)) + 1
      <4> SUFFICES ASSUME NEW v \in Thread
                   PROVE  /\ v # w => Of(buyOrder', v) = Of(buyOrder, v) /\ pc'[v] = pc[v]
                          /\ Cardinality(Of(buyOrder, v)) \in Nat
                          /\ Cardinality(Of(buyOrder', v)) \in Nat
                          /\ Cardinality(Of(buyOrder', v)) <= Cardinality(Of(buyOrder, v)) + 1
        OBVIOUS
      <4> HIDE DEF Row
      <4>1. v # w => pc'[v] = pc[v]
        BY <3>1
      <4>2. CASE buyOrder' = buyOrder
        BY <4>1, <4>2, Counts
      <4>3. CASE buyOrder' = buyOrder \union {Row(w)}
        <5>1. /\ v # w => Of(buyOrder \union {Row(w)}, v) = Of(buyOrder, v)
              /\ Cardinality(Of(buyOrder, v)) \in Nat
              /\ Cardinality(Of(buyOrder \union {Row(w)}, v)) \in Nat
              /\ Cardinality(Of(buyOrder \union {Row(w)}, v)) <= Cardinality(Of(buyOrder, v)) + 1
          BY <3>3, OfMore DEF Finite
        <5> QED
          BY <4>1, <4>3, <5>1
      <4> QED
        BY <3>2, <4>2, <4>3
    <3> SUFFICES ASSUME NEW v \in Thread
                 PROVE  Cardinality(Of(buyOrder', v)) + Earned(v)' <= Cardinality(Of(topic, v))
      BY <3>1
    <3>5. CASE v = w
      <4>1. Earned(w) = Cardinality(reports[w]) + 1 /\ Earned(w)' = Cardinality(reports[w])
        BY <3>1, Counts
      <4> QED
        BY <3>4, <3>5, <4>1, Counts
    <3>6. CASE v # w
      BY <3>1, <3>4, <3>6
    <3> QED
      BY <3>5, <3>6
  <2>4. CASE CommitFails(w)
    <3>1. /\ buyOrder' = buyOrder /\ topic' = topic /\ reports' = reports
          /\ pc' = [pc EXCEPT ![w] = "release"]
      BY <2>4 DEF CommitFails
    <3> QED
      BY <3>1, Counts
  <2>5. CASE RunTask(w) \/ GetDiskConn(w) \/ QueryByProductID(w) \/ PriceThrows(w)
          \/ StatementFails(w) \/ GetIdStep(w) \/ GetIdReturns(w) \/ Insert(w)
          \/ Produce(w) \/ ProduceFails(w) \/ TransationRollback(w)
          \/ ReleaseConnection(w)
    BY <2>5 DEF RunTask, GetDiskConn, QueryByProductID, PriceThrows, StatementFails,
      GetIdStep, GetIdReturns, Insert, Produce, ProduceFails, TransationRollback,
      ReleaseConnection, Disk!Ask, Disk!Lend, Fault, EndTransaction, Disk!GiveBack
  <2> QED
    BY <1>1, <2>1, <2>2, <2>3, <2>4, <2>5 DEF Work
<1>2. CASE Broker
  <2>1. PICK w \in Thread, m \in OrderRow :
          /\ m \in inflight[w]
          /\ \/ /\ topic' = topic \union {m}
                /\ reports' = [reports EXCEPT ![w] = @ \union {m}] \/ reports' = reports
             \/ topic' = topic /\ reports' = reports
          /\ buyOrder' = buyOrder /\ pc' = pc
    BY <1>2 DEF Broker, Acknowledge, StoreUnacknowledged, Lose, Leaves, KafkaTypes
  <2>2. m.by = w /\ m \notin topic
    BY <2>1 DEF Sent
  <2>3. CASE topic' = topic \union {m}
    <3>1. Cardinality(Of(topic', w)) = Cardinality(Of(topic, w)) + 1
      BY <2>2, <2>3, OfMore DEF Finite
    <3>2. \A v \in Thread : v # w => Of(topic', v) = Of(topic, v) /\ reports'[v] = reports[v]
      BY <2>1, <2>2, <2>3, OfMore DEF Finite, KafkaTypes
    <3>3. /\ Cardinality(reports'[w]) <= Cardinality(reports[w]) + 1
          /\ Cardinality(reports'[w]) \in Nat
      <4>1. reports'[w] = reports[w] \union {m} \/ reports'[w] = reports[w]
        BY <2>1 DEF KafkaTypes
      <4>2. /\ Cardinality(reports[w]) \in Nat
            /\ Cardinality(reports[w] \union {m}) \in Nat
            /\ Cardinality(reports[w] \union {m}) <= Cardinality(reports[w]) + 1
        <5>1. IsFiniteSet(reports[w]) /\ Cardinality(reports[w]) \in Nat
          BY Counts DEF Finite
        <5>2. Cardinality(reports[w] \union {m}) = Cardinality(reports[w])
              \/ Cardinality(reports[w] \union {m}) = Cardinality(reports[w]) + 1
          BY <5>1, FS_AddElement
        <5> QED
          BY ONLY <5>1, <5>2
      <4>3. Cardinality(reports[w]) <= Cardinality(reports[w]) + 1
        BY ONLY <4>2
      <4> QED
        BY ONLY <4>1, <4>2, <4>3
    <3> SUFFICES ASSUME NEW v \in Thread
                 PROVE  Cardinality(Of(buyOrder, v)) + Earned(v)' <= Cardinality(Of(topic', v))
      BY <2>1
    <3>4. CASE v = w
      BY <2>1, <3>1, <3>3, <3>4, Counts
    <3>5. CASE v # w
      BY <2>1, <3>2, <3>5, Counts
    <3> QED
      BY <3>4, <3>5
  <2>4. CASE topic' = topic /\ reports' = reports
    BY <2>1, <2>4
  <2> QED
    BY <2>1, <2>3, <2>4
<1>3. CASE PassMidnight
  BY <1>3 DEF PassMidnight
<1>4. CASE Crash
  <2>1. buyOrder' = buyOrder /\ topic' = topic
        /\ \A w \in Thread : reports'[w] = {} /\ pc'[w] = "idle"
    BY <1>4 DEF Crash
  <2>2. \A w \in Thread : Cardinality(reports'[w]) = 0 /\ pc'[w] # "commit"
    BY <2>1, FS_EmptySet
  <2>3. \A w \in Thread : Earned(w)' = 0 /\ Earned(w) >= 0
    BY <2>2, Counts
  <2> QED
    BY <2>1, <2>3, Counts
<1>5. CASE UNCHANGED vars
  BY <1>5 DEF vars
<1> QED
  BY <1>1, <1>2, <1>3, <1>4, <1>5 DEF Next

-----------------------------------------------------------------------------
(* The theorems.                                                           *)

LEMMA InitInv ==
  Init => IInv
<1> SUFFICES ASSUME Init PROVE IInv
  OBVIOUS
<1> USE OrderAssumption DEF Init
<1>1. IdInv
  BY InitIdInv
<1>2. WorkerTypes /\ TableTypes /\ KafkaTypes /\ BoundTypes
  BY DEF WorkerTypes, TableTypes, KafkaTypes, BoundTypes, Location, Disk!Init
<1>3. Loans /\ Orders /\ Pendings /\ Locks
  BY DEF Loans, Orders, Pendings, Locks, Disk!Init
<1>4. Sent /\ NotSent
  BY DEF Sent, NotSent
<1>5. Finite
  BY FS_EmptySet DEF Finite
<1>6. Backed
  <2>1. \A w \in Thread : Of(buyOrder, w) = {} /\ Of(topic, w) = {} /\ reports[w] = {}
                          /\ pc[w] = "idle"
    BY DEF Of
  <2>2. \A w \in Thread : /\ Cardinality(Of(buyOrder, w)) = 0
                          /\ Cardinality(Of(topic, w)) = 0 /\ Earned(w) = 0
    <3> SUFFICES ASSUME NEW w \in Thread
                 PROVE  /\ Cardinality(Of(buyOrder, w)) = 0
                        /\ Cardinality(Of(topic, w)) = 0 /\ Earned(w) = 0
      OBVIOUS
    <3>1. Cardinality(Of(buyOrder, w)) = 0 /\ Cardinality(Of(topic, w)) = 0
          /\ Cardinality(reports[w]) = 0
      BY <2>1, FS_EmptySet
    <3>2. pc[w] # "commit"
      BY <2>1
    <3> QED
      BY <3>1, <3>2 DEF Earned
  <2> SUFFICES ASSUME NEW w \in Thread
               PROVE  Cardinality(Of(buyOrder, w)) + Earned(w) <= Cardinality(Of(topic, w))
    BY DEF Backed
  <2> HIDE DEF Init
  <2>3. Cardinality(Of(buyOrder, w)) = 0 /\ Cardinality(Of(topic, w)) = 0 /\ Earned(w) = 0
    BY <2>2
  <2> QED
    BY <2>3
<1> QED
  BY <1>1, <1>2, <1>3, <1>4, <1>5, <1>6 DEF IInv

LEMMA NextInv ==
  IInv /\ [Next]_vars => IInv'
<1> SUFFICES ASSUME IInv, [Next]_vars PROVE IInv'
  OBVIOUS
<1>1. IdInv'
  BY StepsOfGetId, NextIdInv DEF IInv
<1>2. WorkerTypes' /\ TableTypes' /\ KafkaTypes' /\ BoundTypes'
  BY NextWorkerTypes, NextTableTypes, NextKafkaTypes, NextBoundTypes DEF IInv, IdInv
<1>3. Loans' /\ Orders' /\ Pendings' /\ Locks'
  BY NextLoans, NextOrders, NextPendings, NextLocks DEF IInv, IdInv
<1>4. Sent' /\ NotSent' /\ Finite' /\ Backed'
  BY NextSent, NextNotSent, NextFinite, NextBacked DEF IInv
<1> QED
  BY <1>1, <1>2, <1>3, <1>4 DEF IInv

THEOREM Invariance ==
  Spec => []IInv
BY InitInv, NextInv, PTL DEF Spec

(* Every variable has its type.                                            *)
THEOREM TypeCorrect ==
  Spec => []TypeOK
<1>1. IInv => TypeOK
  BY DEF IInv, IdInv, WorkerTypes, TableTypes, KafkaTypes, BoundTypes, TypeOK
<1> QED
  BY <1>1, Invariance, PTL

(* A connection goes back to the pool with nothing inserted and nothing    *)
(* locked, by whichever exit Run is left.                                  *)
THEOREM PooledAreClean ==
  Spec => []CleanWhenPooled
<1>1. IInv => CleanWhenPooled
  <2> SUFFICES ASSUME IInv, NEW c \in Disk!Free
               PROVE  pending[c] = {} /\ \A p \in KnownProduct : rowLock[p] # c
    BY DEF CleanWhenPooled
  <2>1. c \in DiskConn /\ c # NoConn /\ \A w \in Thread : diskLoan[w] # c
    BY OrderAssumption DEF Disk!Free
  <2>2. pending[c] = {}
    BY <2>1 DEF IInv, Pendings
  <2>3. \A p \in KnownProduct : rowLock[p] # c
    BY <2>1 DEF IInv, Locks
  <2> QED
    BY <2>2, <2>3
<1> QED
  BY <1>1, Invariance, PTL

(* A worker has committed at most as many orders as it has messages in the *)
(* topic, whatever the delivery reports, the failures and the crashes.     *)
THEOREM OrdersAreBacked ==
  Spec => []OrdersBackedByMessages
<1>1. IInv => OrdersBackedByMessages
  <2> SUFFICES ASSUME IInv, NEW w \in Thread
               PROVE  Cardinality(Of(buyOrder, w)) <= Cardinality(Of(topic, w))
    BY DEF OrdersBackedByMessages
  <2>1. Finite /\ Backed
    BY DEF IInv
  <2> QED
    BY <2>1, Counts DEF Backed, Earned
<1> QED
  BY <1>1, Invariance, PTL

(* Two calls of getId that return the same number: INCR failed, or the     *)
(* date changed between the key and the number of one of them.             *)
THEOREM SameIdIsTorn ==
  Spec => []SameIdMeansTorn
<1>1. IInv => SameIdMeansTorn
  <2> SUFFICES ASSUME IInv, NEW c \in Call, NEW d \in Call, c # d,
                      IssuedTo(c).id = IssuedTo(d).id, IssuedTo(c).id # NoId,
                      ~Torn(IssuedTo(c)), ~Torn(IssuedTo(d))
               PROVE  FALSE
    BY DEF SameIdMeansTorn
  <2>1. IssuedApart /\ IdTypeOK
    BY DEF IInv, IdInv
  <2>2. PICK t \in Thread, i \in Nat : c = <<t, i>> /\ i \in 1..Len(issued[t])
    BY <2>1 DEF Call, IdTypeOK
  <2>3. PICK u \in Thread, j \in Nat : d = <<u, j>> /\ j \in 1..Len(issued[u])
    BY <2>1 DEF Call, IdTypeOK
  <2>4. t # u \/ i # j
    BY <2>2, <2>3
  <2>5. IssuedTo(c) = issued[t][i] /\ IssuedTo(d) = issued[u][j]
    BY <2>2, <2>3 DEF IssuedTo
  <2> QED
    BY <2>1, <2>2, <2>3, <2>4, <2>5 DEF IssuedApart, Torn
<1> QED
  BY <1>1, Invariance, PTL

===============================================================================
