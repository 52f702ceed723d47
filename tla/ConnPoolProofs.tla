---------------------------- MODULE ConnPoolProofs ----------------------------
(***************************************************************************)
(* Theorems about the connection pools, for every set of threads and every *)
(* size.  The inductive invariant is the conjunction of the four state     *)
(* properties of ConnPool: Exclusive needs NothingLeaks, because the id of *)
(* a new connection is m_curSize and must not be the id of one already     *)
(* made, and NoLostWakeup needs the types.                                 *)
(***************************************************************************)
EXTENDS ConnPool, FiniteSetTheorems, TLAPS

IInv ==
  /\ TypeOK
  /\ Exclusive
  /\ NothingLeaks
  /\ Signals => NoLostWakeup

(* The threads that will look at the list, or wake one that will. *)
Coming == At("enter") \union At("signal")

(* Sets of threads are finite, and so have a number of elements. *)
LEMMA ThreadsFinite ==
  ASSUME NEW S \in SUBSET Thread
  PROVE  IsFiniteSet(S) /\ Cardinality(S) \in Nat
<1>1. IsFiniteSet(Thread)
  BY PoolAssumption
<1>2. IsFiniteSet(S)
  BY <1>1, FS_Subset
<1> QED
  BY <1>2, FS_CardinalityType

(* The head of a nonempty sequence is its first element, in the same set.  *)
LEMMA HeadType ==
  ASSUME NEW S, NEW s \in Seq(S), s # <<>>
  PROVE  Head(s) \in S
OBVIOUS

(* The head of a list is idle, and popping it leaves the other elements.   *)
LEMMA PopFront ==
  ASSUME TypeOK, Exclusive, connList # <<>>, connList' = Tail(connList)
  PROVE  /\ Head(connList) \in Idle /\ Head(connList) \in 0..MaxSize - 1
         /\ Idle' = Idle \ {Head(connList)}
         /\ Len(connList') = Len(connList) - 1
         /\ \A i, j \in DOMAIN connList' : connList'[i] = connList'[j] => i = j
<1> DEFINE n == Len(connList)
<1>1. /\ n \in Nat \ {0}
      /\ DOMAIN connList = 1..n
      /\ Head(connList) = connList[1]
  BY DEF TypeOK
<1>2. /\ connList' \in Seq(0..MaxSize - 1)
      /\ Len(connList') = n - 1
      /\ DOMAIN connList' = 1..(n - 1)
      /\ \A i \in 1..(n - 1) : connList'[i] = connList[i + 1]
  BY <1>1 DEF TypeOK
<1>3. \A i, j \in 1..n : connList[i] = connList[j] => i = j
  BY <1>1 DEF Exclusive
<1>4. Idle = {connList[i] : i \in 1..n}
  BY <1>1 DEF Idle, Range
<1>5. Idle' = {connList'[i] : i \in 1..(n - 1)}
  BY <1>2 DEF Idle, Range
<1>6. Idle' \subseteq Idle \ {Head(connList)}
  <2> SUFFICES ASSUME NEW i \in 1..(n - 1)
               PROVE  connList'[i] \in Idle /\ connList'[i] # connList[1]
    BY <1>1, <1>5
  <2>1. i + 1 \in 1..n /\ i + 1 # 1 /\ 1 \in 1..n
    BY <1>1
  <2> QED
    BY <2>1, <1>2, <1>3, <1>4
<1>7. Idle \ {Head(connList)} \subseteq Idle'
  <2> SUFFICES ASSUME NEW i \in 1..n, connList[i] # connList[1]
               PROVE  connList[i] \in Idle'
    BY <1>1, <1>4
  <2>1. i - 1 \in 1..(n - 1) /\ (i - 1) + 1 = i
    BY <1>1
  <2> QED
    BY <2>1, <1>2, <1>5
<1>8. \A i, j \in 1..(n - 1) : connList'[i] = connList'[j] => i = j
  <2> SUFFICES ASSUME NEW i \in 1..(n - 1), NEW j \in 1..(n - 1),
                      connList[i + 1] = connList[j + 1]
               PROVE  i = j
    BY <1>2
  <2>1. i + 1 \in 1..n /\ j + 1 \in 1..n
    BY <1>1
  <2>2. i + 1 = j + 1
    BY <2>1, <1>3
  <2> QED
    BY <2>2
<1>9. Head(connList) \in Idle /\ Head(connList) \in 0..MaxSize - 1
  <2>1. 1 \in 1..n
    BY <1>1
  <2>2. Head(connList) \in 0..MaxSize - 1
    <3>1. connList \in Seq(0..MaxSize - 1)
      BY DEF TypeOK
    <3> QED
      BY <3>1, HeadType
  <2>3. connList[1] \in Idle
    BY <2>1, <1>4
  <2> QED
    BY <2>2, <2>3, <1>1
<1> QED
  BY <1>2, <1>6, <1>7, <1>8, <1>9

(* Appending a connection that is not idle adds it and nothing else.       *)
LEMMA PushBack ==
  ASSUME TypeOK, Exclusive, NEW c \in 0..MaxSize - 1, c \notin Idle,
         connList' = Append(connList, c)
  PROVE  /\ Idle' = Idle \union {c}
         /\ Len(connList') = Len(connList) + 1
         /\ \A i, j \in DOMAIN connList' : connList'[i] = connList'[j] => i = j
<1> DEFINE n == Len(connList)
<1>1. n \in Nat /\ DOMAIN connList = 1..n
  BY DEF TypeOK
<1>2. /\ connList' \in Seq(0..MaxSize - 1)
      /\ Len(connList') = n + 1
      /\ DOMAIN connList' = 1..(n + 1)
      /\ \A i \in 1..n : connList'[i] = connList[i]
      /\ connList'[n + 1] = c
  BY <1>1 DEF TypeOK
<1>3. Idle = {connList[i] : i \in 1..n}
  BY <1>1 DEF Idle, Range
<1>4. Idle' = {connList'[i] : i \in 1..(n + 1)}
  BY <1>2 DEF Idle, Range
<1>5. 1..(n + 1) = 1..n \union {n + 1}
  BY <1>1
<1>6. Idle' = Idle \union {c}
  BY <1>2, <1>3, <1>4, <1>5
<1>7. \A i \in 1..n : connList[i] # c
  BY <1>3
<1>8. \A i, j \in 1..n : connList[i] = connList[j] => i = j
  BY <1>1 DEF Exclusive
<1>9. \A i, j \in 1..(n + 1) : connList'[i] = connList'[j] => i = j
  BY <1>2, <1>5, <1>7, <1>8
<1> QED
  BY <1>2, <1>6, <1>9
-------------------------------------------------------------------------------
LEMMA InitInv == Init => IInv
<1> SUFFICES ASSUME Init PROVE IInv
  OBVIOUS
<1> USE DEF Init
<1>1. InitSize \in Nat /\ InitSize <= MaxSize /\ MaxSize \in Nat \ {0}
  BY PoolAssumption
<1>2. /\ At("hold") = {} /\ Loaned = {} /\ At("wait") = {}
  BY DEF At, Loaned
<1>3. TypeOK
  BY <1>1 DEF TypeOK, Location, NoConn
<1>4. Idle = 0..curSize - 1
  <2>1. DOMAIN connList = 1..InitSize
    OBVIOUS
  <2>2. Idle = {i - 1 : i \in 1..InitSize}
    BY <2>1 DEF Idle, Range
  <2>3. ASSUME NEW k \in 0..InitSize - 1 PROVE k \in {i - 1 : i \in 1..InitSize}
    <3>1. k + 1 \in 1..InitSize /\ (k + 1) - 1 = k
      BY <1>1
    <3> QED
      BY <3>1
  <2>4. ASSUME NEW i \in 1..InitSize PROVE i - 1 \in 0..InitSize - 1
    BY <1>1
  <2>5. {i - 1 : i \in 1..InitSize} = 0..InitSize - 1
    BY <2>3, <2>4
  <2> QED
    BY <2>2, <2>5
<1>5. Exclusive
  BY <1>1, <1>2 DEF Exclusive
<1> QED
  BY <1>2, <1>3, <1>4, <1>5 DEF IInv, NothingLeaks, NoLostWakeup

LEMMA NextTypeOK == TypeOK /\ [Next]_vars => TypeOK'
<1> SUFFICES ASSUME TypeOK, [Next]_vars PROVE TypeOK'
  OBVIOUS
<1> USE PoolAssumption DEF TypeOK, Location, NoConn, Goto
<1>1. ASSUME NEW t \in Thread, CallGetConnection(t) PROVE TypeOK'
  BY <1>1 DEF CallGetConnection
<1>2. ASSUME NEW t \in Thread, TakeFront(t) PROVE TypeOK'
  <2>1. Head(connList) \in 0..MaxSize - 1 /\ Tail(connList) \in Seq(0..MaxSize - 1)
    BY <1>2 DEF TakeFront
  <2> QED
    BY <1>2, <2>1 DEF TakeFront
<1>3. ASSUME NEW t \in Thread, CreateConnection(t) PROVE TypeOK'
  BY <1>3 DEF CreateConnection
<1>4. ASSUME NEW t \in Thread, WaitConnection(t) PROVE TypeOK'
  BY <1>4 DEF WaitConnection
<1>5. ASSUME NEW t \in Thread, ReleaseConnection(t) PROVE TypeOK'
  <2>1. conn[t] \in 0..MaxSize - 1
    BY <1>5 DEF ReleaseConnection
  <2>2. Append(connList, conn[t]) \in Seq(0..MaxSize - 1)
    BY <2>1
  <2> QED
    BY <1>5, <2>1, <2>2 DEF ReleaseConnection
<1>6. ASSUME NEW t \in Thread, Signal(t) PROVE TypeOK'
  BY <1>6 DEF Signal, SignalNobody, SignalOne, At
<1>7. ASSUME NEW t \in Thread, SpuriousWakeup(t) PROVE TypeOK'
  BY <1>7 DEF SpuriousWakeup
<1>8. CASE UNCHANGED vars
  BY <1>8 DEF vars
<1> QED
  BY <1>1, <1>2, <1>3, <1>4, <1>5, <1>6, <1>7, <1>8 DEF Next, GetConnection

(* A step that moves no connection: it keeps who holds what.               *)
LEMMA QuietStep ==
  ASSUME Exclusive, NothingLeaks, UNCHANGED <<connList, curSize, conn>>,
         At("hold")' = At("hold")
  PROVE  Exclusive' /\ NothingLeaks'
<1>1. Loaned' = Loaned
  BY DEF Loaned
<1>2. Idle' = Idle
  BY DEF Idle, Range
<1> QED
  BY <1>1, <1>2 DEF Exclusive, NothingLeaks

LEMMA TakeFrontIds ==
  ASSUME TypeOK, Exclusive, NothingLeaks, NEW t \in Thread, TakeFront(t)
  PROVE  Exclusive' /\ NothingLeaks'
<1> DEFINE c == Head(connList)
<1>1. /\ connList # <<>> /\ connList' = Tail(connList) /\ curSize' = curSize
      /\ conn' = [conn EXCEPT ![t] = c] /\ pc' = [pc EXCEPT ![t] = "hold"]
      /\ pc[t] = "enter"
  BY DEF TakeFront, Goto
<1>2. /\ c \in Idle
      /\ Idle' = Idle \ {c}
      /\ \A i, j \in DOMAIN connList' : connList'[i] = connList'[j] => i = j
  BY <1>1, PopFront
<1>3. At("hold")' = At("hold") \union {t} /\ t \notin At("hold")
  BY <1>1 DEF At, TypeOK
<1>4. \A u \in At("hold") : conn'[u] = conn[u] /\ conn[u] # c
  BY <1>1, <1>2, <1>3 DEF TypeOK, Exclusive, Loaned, At
<1>5. conn'[t] = c
  BY <1>1 DEF TypeOK
<1>6. Loaned' = Loaned \union {c}
  BY <1>3, <1>4, <1>5 DEF Loaned
<1>7. \A u, v \in At("hold")' : conn'[u] = conn'[v] => u = v
  BY <1>3, <1>4, <1>5 DEF Exclusive
<1>8. Exclusive'
  BY <1>2, <1>6, <1>7 DEF Exclusive
<1>9. NothingLeaks'
  BY <1>1, <1>2, <1>6 DEF NothingLeaks
<1> QED
  BY <1>8, <1>9

LEMMA CreateIds ==
  ASSUME TypeOK, Exclusive, NothingLeaks, NEW t \in Thread, CreateConnection(t)
  PROVE  Exclusive' /\ NothingLeaks'
<1>1. /\ connList' = connList /\ curSize' = curSize + 1
      /\ conn' = [conn EXCEPT ![t] = curSize] /\ pc' = [pc EXCEPT ![t] = "hold"]
      /\ pc[t] = "enter"
  BY DEF CreateConnection, Goto
<1>2. curSize \in Nat /\ curSize \notin Idle /\ curSize \notin Loaned
  BY PoolAssumption DEF NothingLeaks, TypeOK
<1>3. At("hold")' = At("hold") \union {t} /\ t \notin At("hold")
  BY <1>1 DEF At, TypeOK
<1>4. \A u \in At("hold") : conn'[u] = conn[u] /\ conn[u] # curSize
  BY <1>1, <1>2, <1>3 DEF TypeOK, Loaned, At
<1>5. conn'[t] = curSize
  BY <1>1 DEF TypeOK
<1>6. Loaned' = Loaned \union {curSize}
  BY <1>3, <1>4, <1>5 DEF Loaned
<1>7. Idle' = Idle
  BY <1>1 DEF Idle, Range
<1>8. \A u, v \in At("hold")' : conn'[u] = conn'[v] => u = v
  BY <1>3, <1>4, <1>5 DEF Exclusive
<1>9. 0..curSize' - 1 = (0..curSize - 1) \union {curSize}
  BY <1>1, <1>2
<1>10. Exclusive'
  BY <1>1, <1>2, <1>6, <1>7, <1>8 DEF Exclusive
<1> QED
  BY <1>6, <1>7, <1>9, <1>10 DEF NothingLeaks

LEMMA ReleaseIds ==
  ASSUME TypeOK, Exclusive, NothingLeaks, NEW t \in Thread, ReleaseConnection(t)
  PROVE  Exclusive' /\ NothingLeaks'
<1> DEFINE c == conn[t]
<1>1. /\ connList' = Append(connList, c) /\ curSize' = curSize
      /\ conn' = [conn EXCEPT ![t] = NoConn] /\ pc[t] = "hold"
      /\ \E l \in {"signal", "run"} : pc' = [pc EXCEPT ![t] = l]
  BY DEF ReleaseConnection, Goto
<1>2. At("hold")' = At("hold") \ {t} /\ t \in At("hold")
  BY <1>1 DEF At, TypeOK
<1>3. c \in Loaned /\ c \in 0..MaxSize - 1 /\ c \notin Idle
  BY <1>1, <1>2 DEF TypeOK, Loaned, Exclusive
<1>4. /\ Idle' = Idle \union {c}
      /\ \A i, j \in DOMAIN connList' : connList'[i] = connList'[j] => i = j
  BY <1>1, <1>3, PushBack
<1>5. \A u \in At("hold")' : conn'[u] = conn[u] /\ u \in At("hold") /\ conn[u] # c
  BY <1>1, <1>2 DEF TypeOK, Exclusive, At
<1>6. Loaned' = Loaned \ {c}
  BY <1>2, <1>5 DEF Loaned
<1>7. Exclusive'
  BY <1>3, <1>4, <1>5, <1>6 DEF Exclusive
<1>8. NothingLeaks'
  BY <1>1, <1>3, <1>4, <1>6 DEF NothingLeaks
<1> QED
  BY <1>7, <1>8

LEMMA NextIds ==
  TypeOK /\ Exclusive /\ NothingLeaks /\ [Next]_vars => Exclusive' /\ NothingLeaks'
<1> SUFFICES ASSUME TypeOK, Exclusive, NothingLeaks, [Next]_vars
             PROVE  Exclusive' /\ NothingLeaks'
  OBVIOUS
<1>1. ASSUME NEW t \in Thread,
             \/ CallGetConnection(t) \/ WaitConnection(t)
             \/ Signal(t) \/ SpuriousWakeup(t)
      PROVE  Exclusive' /\ NothingLeaks'
  <2>1. UNCHANGED <<connList, curSize, conn>> /\ At("hold")' = At("hold")
    BY <1>1 DEF CallGetConnection, WaitConnection, Signal, SignalNobody, SignalOne,
                SpuriousWakeup, At, Goto, TypeOK
  <2> QED
    BY <2>1, QuietStep
<1>2. CASE UNCHANGED vars
  <2>1. UNCHANGED <<connList, curSize, conn>> /\ At("hold")' = At("hold")
    BY <1>2 DEF vars, At
  <2> QED
    BY <2>1, QuietStep
<1> QED
  BY <1>1, <1>2, TakeFrontIds, CreateIds, ReleaseIds DEF Next, GetConnection
-------------------------------------------------------------------------------
(* Adding or removing one thread changes the number of Coming threads by   *)
(* one.                                                                    *)
LEMMA ComingSize ==
  ASSUME NEW t \in Thread, NEW S \in SUBSET Thread
  PROVE  /\ t \notin S => Cardinality(S \union {t}) = Cardinality(S) + 1
         /\ t \in S => Cardinality(S \ {t}) = Cardinality(S) - 1
<1>1. IsFiniteSet(S) /\ Cardinality(S) \in Nat
  BY ThreadsFinite
<1> QED
  BY <1>1, FS_AddElement, FS_RemoveElement

LEMMA NextNoLostWakeup ==
  ASSUME TypeOK, Exclusive, Signals, NoLostWakeup, [Next]_vars
  PROVE  NoLostWakeup'
<1> DEFINE W == At("wait")
           n == Len(connList)
<1> USE DEF Coming
<1>0. /\ W \in SUBSET Thread /\ Coming \in SUBSET Thread
      /\ Cardinality(Coming) \in Nat /\ Cardinality(Coming') \in Nat
      /\ n \in Nat /\ curSize \in 0..MaxSize /\ MaxSize \in Nat
  <2>1. Coming \in SUBSET Thread /\ Coming' \in SUBSET Thread
    BY DEF At
  <2>2. Cardinality(Coming) \in Nat /\ Cardinality(Coming') \in Nat
    BY <2>1, ThreadsFinite
  <2> QED
    BY <2>1, <2>2, PoolAssumption DEF At, TypeOK
<1>a. SUFFICES ASSUME W' # {}
               PROVE  curSize' = MaxSize /\ Len(connList)' <= Cardinality(Coming')
  BY DEF NoLostWakeup
<1>b. W # {} => curSize = MaxSize /\ n <= Cardinality(Coming)
  BY DEF NoLostWakeup
<1>1. ASSUME NEW t \in Thread, CallGetConnection(t)
      PROVE  curSize' = MaxSize /\ Len(connList)' <= Cardinality(Coming')
  <2>1. W' = W /\ Coming' = Coming \union {t} /\ t \notin Coming
    BY <1>1 DEF CallGetConnection, Goto, At, TypeOK
  <2>2. Cardinality(Coming') = Cardinality(Coming) + 1
    BY <2>1, <1>0, ComingSize
  <2> QED
    BY <1>0, <1>1, <1>a, <1>b, <2>1, <2>2 DEF CallGetConnection
<1>2. ASSUME NEW t \in Thread, TakeFront(t)
      PROVE  curSize' = MaxSize /\ Len(connList)' <= Cardinality(Coming')
  <2>1. W' = W /\ Coming' = Coming \ {t} /\ t \in Coming
    BY <1>2 DEF TakeFront, Goto, At, TypeOK
  <2>2. Cardinality(Coming') = Cardinality(Coming) - 1
    BY <2>1, <1>0, ComingSize
  <2>3. Len(connList') = n - 1 /\ curSize' = curSize
    BY <1>2, PopFront DEF TakeFront
  <2> QED
    BY <1>0, <1>a, <1>b, <2>1, <2>2, <2>3
<1>3. ASSUME NEW t \in Thread, CreateConnection(t)
      PROVE  curSize' = MaxSize /\ Len(connList)' <= Cardinality(Coming')
  <2>1. W' = W /\ curSize # MaxSize
    BY <1>0, <1>3 DEF CreateConnection, Goto, At, TypeOK
  <2> QED
    BY <1>a, <1>b, <2>1
<1>4. ASSUME NEW t \in Thread, WaitConnection(t)
      PROVE  curSize' = MaxSize /\ Len(connList)' <= Cardinality(Coming')
  <2>1. connList' = <<>> /\ curSize' = curSize /\ curSize >= MaxSize
    BY <1>4 DEF WaitConnection
  <2> QED
    BY <1>0, <2>1
<1>5. ASSUME NEW t \in Thread, ReleaseConnection(t)
      PROVE  curSize' = MaxSize /\ Len(connList)' <= Cardinality(Coming')
  <2>1. W' = W /\ Coming' = Coming \union {t} /\ t \notin Coming
    BY <1>5 DEF ReleaseConnection, Goto, At, TypeOK
  <2>2. Cardinality(Coming') = Cardinality(Coming) + 1
    BY <2>1, <1>0, ComingSize
  <2>3. Len(connList') = n + 1 /\ curSize' = curSize
    BY <1>5 DEF ReleaseConnection, TypeOK
  <2> QED
    BY <1>0, <1>a, <1>b, <2>1, <2>2, <2>3
<1>6. ASSUME NEW t \in Thread, SignalNobody(t)
      PROVE  curSize' = MaxSize /\ Len(connList)' <= Cardinality(Coming')
  <2>1. W' = {}
    BY <1>6 DEF SignalNobody, Goto, At, TypeOK
  <2> QED
    BY <1>a, <2>1
<1>7. ASSUME NEW t \in Thread, SignalOne(t)
      PROVE  curSize' = MaxSize /\ Len(connList)' <= Cardinality(Coming')
  <2>1. PICK w \in W : pc' = [pc EXCEPT ![t] = "run", ![w] = "enter"]
    BY <1>7 DEF SignalOne
  <2>2. /\ w \in Thread /\ w # t /\ w \notin Coming /\ t \in Coming
        /\ Coming' = (Coming \ {t}) \union {w}
    BY <1>7, <2>1 DEF SignalOne, At, TypeOK
  <2>3. Cardinality(Coming') = Cardinality(Coming)
    <3>1. Cardinality(Coming \ {t}) = Cardinality(Coming) - 1
      BY <1>0, <2>2, ComingSize
    <3>2. Cardinality((Coming \ {t}) \union {w}) = Cardinality(Coming \ {t}) + 1
      BY <1>0, <2>2, ComingSize
    <3>3. Cardinality(Coming') = Cardinality((Coming \ {t}) \union {w})
      BY <2>2
    <3>4. Cardinality(Coming) \in Nat
      BY <1>0
    <3> HIDE DEF Coming
    <3> QED
      BY <3>1, <3>2, <3>3, <3>4
  <2> QED
    BY <1>0, <1>7, <1>b, <2>1, <2>3 DEF SignalOne
<1>8. ASSUME NEW t \in Thread, SpuriousWakeup(t)
      PROVE  curSize' = MaxSize /\ Len(connList)' <= Cardinality(Coming')
  <2>1. t \in W /\ Coming' = Coming \union {t} /\ t \notin Coming
    BY <1>8 DEF SpuriousWakeup, Goto, At, TypeOK
  <2>2. Cardinality(Coming') = Cardinality(Coming) + 1
    BY <2>1, <1>0, ComingSize
  <2> QED
    BY <1>0, <1>8, <1>b, <2>1, <2>2 DEF SpuriousWakeup
<1>9. CASE UNCHANGED vars
  BY <1>9, <1>a, <1>b DEF vars, At
<1> QED
  BY <1>1, <1>2, <1>3, <1>4, <1>5, <1>6, <1>7, <1>8, <1>9
     DEF Next, GetConnection, Signal

(* The invariant of the pools: types, exclusive use, no connection lost,   *)
(* and no lost wake-up in the pools whose release signals.                 *)
THEOREM Invariance == Spec => []IInv
<1>1. Init => IInv
  BY InitInv
<1>2. IInv /\ [Next]_vars => IInv'
  BY NextTypeOK, NextIds, NextNoLostWakeup DEF IInv
<1> QED
  BY <1>1, <1>2, PTL DEF Spec

(* Type correctness, for any number of threads and connections.            *)
THEOREM TypeCorrect == Spec => []TypeOK
BY Invariance, PTL DEF IInv

(* No connection is ever used by two threads, nor idle while it is used.   *)
THEOREM ConnectionsExclusive == Spec => []Exclusive
BY Invariance, PTL DEF IInv

(* Every connection the pool counts is idle or lent.                       *)
THEOREM ConnectionsKept == Spec => []NothingLeaks
BY Invariance, PTL DEF IInv

(* In a pool whose release signals, nobody sleeps next to an idle          *)
(* connection without a thread that will take it or wake him.              *)
THEOREM WakeupsKept == ASSUME Signals PROVE Spec => []NoLostWakeup
<1>1. IInv => NoLostWakeup
  BY DEF IInv
<1> QED
  BY <1>1, Invariance, PTL
-------------------------------------------------------------------------------
(* The pool implements the allocator: get and create lend, release gives   *)
(* back, the rest of the steps are invisible.                              *)
LEMMA InitRefines == Init => Allocator!Init
BY DEF Init, Allocator!Init, At

LEMMA StepRefines == TypeOK /\ Exclusive /\ NothingLeaks /\ [Next]_vars
                       => [Allocator!Next]_(Allocator!vars)
<1> SUFFICES ASSUME TypeOK, Exclusive, NothingLeaks, [Next]_vars
             PROVE  Allocator!Next \/ UNCHANGED Allocator!vars
  OBVIOUS
<1> DEFINE want == At("enter") \union At("wait")
<1>1. ASSUME NEW t \in Thread, CallGetConnection(t) PROVE Allocator!Ask(t)
  BY <1>1 DEF CallGetConnection, Allocator!Ask, At, Goto, TypeOK, NoConn
<1>2. ASSUME NEW t \in Thread, TakeFront(t) PROVE Allocator!Lend(t)
  <2>1. t \in want /\ want' = want \ {t}
    BY <1>2 DEF TakeFront, Goto, At, TypeOK
  <2>2. Head(connList) \in Idle /\ Head(connList) \in 0..MaxSize - 1
    BY <1>2, PopFront DEF TakeFront
  <2>3. \A u \in Thread : conn[u] # Head(connList)
    BY <2>2 DEF Exclusive, Loaned, At, TypeOK, NoConn
  <2> QED
    BY <1>2, <2>1, <2>2, <2>3 DEF TakeFront, Allocator!Lend, Allocator!Free
<1>3. ASSUME NEW t \in Thread, CreateConnection(t) PROVE Allocator!Lend(t)
  <2>1. t \in want /\ want' = want \ {t}
    BY <1>3 DEF CreateConnection, Goto, At, TypeOK
  <2>2. curSize \in 0..MaxSize - 1
    BY <1>3, PoolAssumption DEF CreateConnection, TypeOK
  <2>3. curSize \notin Loaned
    BY <2>2, PoolAssumption DEF NothingLeaks
  <2>4. \A u \in Thread : conn[u] # curSize
    BY <2>2, <2>3, PoolAssumption DEF Loaned, At, TypeOK, NoConn
  <2> QED
    BY <1>3, <2>1, <2>2, <2>4 DEF CreateConnection, Allocator!Lend, Allocator!Free
<1>4. ASSUME NEW t \in Thread, ReleaseConnection(t) PROVE Allocator!GiveBack(t)
  BY <1>4 DEF ReleaseConnection, Allocator!GiveBack, At, Goto, TypeOK
<1>5. ASSUME NEW t \in Thread,
             WaitConnection(t) \/ Signal(t) \/ SpuriousWakeup(t)
      PROVE  UNCHANGED Allocator!vars
  BY <1>5 DEF WaitConnection, Signal, SignalNobody, SignalOne, SpuriousWakeup,
              Allocator!vars, At, Goto, TypeOK
<1>6. CASE UNCHANGED vars
  BY <1>6 DEF vars, Allocator!vars, At
<1> QED
  BY <1>1, <1>2, <1>3, <1>4, <1>5, <1>6 DEF Next, GetConnection, Allocator!Next

(* Every behaviour of the pool is, seen through who asks and who holds     *)
(* what, a behaviour of the allocator.                                     *)
THEOREM PoolImplementsAllocator == Spec => ImplementsAllocator
<1>1. IInv /\ [Next]_vars => [Allocator!Next]_(Allocator!vars)
  BY StepRefines DEF IInv
<1> QED
  BY <1>1, InitRefines, Invariance, PTL DEF Spec, ImplementsAllocator, Allocator!Safety
===============================================================================
