--------------------------- MODULE ThreadPoolProofs ---------------------------
(***************************************************************************)
(* Theorems about CThreadPool for every number of workers, producers and   *)
(* tasks.  The state properties of ThreadPool are not inductive: a worker  *)
(* pops from a list that the test of line 36 saw nonempty some steps       *)
(* before, and this rests on who holds the mutex (MutexOwner, Tested); a   *)
(* task has one owner because no task was added twice (AddedOnce) and      *)
(* because what runs was started (RunsStarted).                            *)
(***************************************************************************)
EXTENDS ThreadPool, FiniteSetTheorems, TLAPS

MutexOwner == \A w \in Worker : mutex = w <=> pc[w] \in Holding

Tested ==
  \A w \in Worker :
    /\ pc[w] = "sleep" => taskList = <<>>
    /\ pc[w] = "decide" => taskList # <<>> \/ shutdown

AddedOnce == \A i, j \in 1..Len(added) : added[i] = added[j] => i = j

RunsStarted ==
  /\ \A w \in Worker : running[w] # NoTask =>
       \E i \in 1..Len(started) : started[i] = running[w]
  /\ \A v, w \in Worker : running[v] = running[w] /\ running[v] # NoTask => v = w

Control == TypeOK /\ MutexOwner /\ Tested /\ PopsSomething
Data == InOrder /\ AddedOnce /\ RunsStarted

LEMMA InitControl == Init => Control
<1> SUFFICES ASSUME Init PROVE Control
  OBVIOUS
<1>1. \A w \in Worker : w \notin Producer /\ w \notin Quitter /\ w # NoOwner
  BY ThreadPoolAssumption
<1>2. TypeOK
  <2>1. taskList \in Seq(Task) /\ added \in Seq(Task) /\ started \in Seq(Task)
    BY DEF Init
  <2> QED
    BY <1>1, <2>1 DEF Init, TypeOK, Thread, WorkerAt, ProducerAt, QuitterAt
<1>3. \A w \in Worker : pc[w] = "lock"
  BY DEF Init, Thread
<1> QED
  BY <1>1, <1>2, <1>3
     DEF Init, Control, MutexOwner, Tested, PopsSomething, Holding

LEMMA NextControl == Control /\ [Next]_vars => Control'
<1> SUFFICES ASSUME Control, [Next]_vars PROVE Control'
  OBVIOUS
<1> USE ThreadPoolAssumption
    DEF Control, TypeOK, MutexOwner, Tested, PopsSomething, Holding, Thread,
        WorkerAt, ProducerAt, QuitterAt, Goto
<1>1. ASSUME NEW w \in Worker, Lock(w) PROVE Control'
  BY <1>1 DEF Lock
<1>2. ASSUME NEW w \in Worker, Test(w) PROVE Control'
  BY <1>2 DEF Test
<1>3. ASSUME NEW w \in Worker, CondWait(w) PROVE Control'
  BY <1>3 DEF CondWait
<1>4. ASSUME NEW w \in Worker, SpuriousWakeup(w) PROVE Control'
  BY <1>4 DEF SpuriousWakeup
<1>5. ASSUME NEW w \in Worker, Exit(w) PROVE Control'
  BY <1>5 DEF Exit
<1>6. ASSUME NEW w \in Worker, GoOn(w) PROVE Control'
  BY <1>6 DEF GoOn
<1>7. ASSUME NEW w \in Worker, Pop(w) PROVE Control'
  <2>1. /\ Head(taskList) \in Task /\ Tail(taskList) \in Seq(Task)
        /\ Append(started, Head(taskList)) \in Seq(Task)
    BY <1>7 DEF Pop
  <2> QED
    BY <1>7, <2>1 DEF Pop
<1>8. ASSUME NEW w \in Worker, RunEnds(w) PROVE Control'
  BY <1>8 DEF RunEnds
<1>9. ASSUME NEW p \in Producer, AddTask(p) PROVE Control'
  BY <1>9 DEF AddTask
<1>10. ASSUME NEW p \in Producer, Signal(p) PROVE Control'
  BY <1>10 DEF Signal, SignalNobody, SignalOne, At
<1>11. ASSUME NEW q \in Quitter, QuitCheck(q) PROVE Control'
  BY <1>11 DEF QuitCheck
<1>12. ASSUME NEW q \in Quitter, QuitSet(q) PROVE Control'
  BY <1>12 DEF QuitSet
<1>13. ASSUME NEW q \in Quitter, QuitBroadcast(q) PROVE Control'
  BY <1>13 DEF QuitBroadcast, Wake, At
<1>14. ASSUME NEW q \in Quitter, QuitJoin(q) PROVE Control'
  BY <1>14 DEF QuitJoin
<1>15. CASE UNCHANGED vars
  BY <1>15 DEF vars
<1> QED
  BY <1>1, <1>2, <1>3, <1>4, <1>5, <1>6, <1>7, <1>8, <1>9, <1>10, <1>11, <1>12,
     <1>13, <1>14, <1>15
     DEF Next, WorkerStep, InPool, ProducerStep, QuitterStep, QuitStep
-------------------------------------------------------------------------------
(* Taking the head of the list to the end of the started tasks leaves the  *)
(* history of what was added the same.                                     *)
LEMMA MoveHead ==
  ASSUME NEW S, NEW s \in Seq(S), NEW q \in Seq(S), q # <<>>
  PROVE  /\ Append(s, Head(q)) \o Tail(q) = s \o q
         /\ (s \o q)[Len(s) + 1] = Head(q) /\ Head(q) \in S
         /\ \A i \in 1..Len(s) : (s \o q)[i] = s[i]
         /\ Len(s \o q) = Len(s) + Len(q)
         /\ Len(s) \in Nat /\ Len(q) \in Nat \ {0}
OBVIOUS

(* What Append does to the positions of a sequence. *)
LEMMA PushOne ==
  ASSUME NEW S, NEW s \in Seq(S), NEW k \in S
  PROVE  /\ Len(s) \in Nat /\ DOMAIN s = 1..Len(s)
         /\ Len(Append(s, k)) = Len(s) + 1
         /\ Append(s, k)[Len(s) + 1] = k
         /\ \A i \in 1..Len(s) : Append(s, k)[i] = s[i]
         /\ 1..(Len(s) + 1) = 1..Len(s) \union {Len(s) + 1}
OBVIOUS

LEMMA ConcatPush ==
  ASSUME NEW S, NEW s \in Seq(S), NEW q \in Seq(S), NEW k \in S
  PROVE  Append(s \o q, k) = s \o Append(q, k)
OBVIOUS

LEMMA NextData == Control /\ Data /\ [Next]_vars => Data'
<1> SUFFICES ASSUME Control, Data, [Next]_vars PROVE Data'
  OBVIOUS
<1> USE DEF Data, InOrder, AddedOnce, RunsStarted
<1>a. /\ taskList \in Seq(Task) /\ added \in Seq(Task) /\ started \in Seq(Task)
      /\ running \in [Worker -> Task \union {NoTask}]
      /\ \A w \in Worker : running[w] # NoTask <=> pc[w] = "run"
  BY DEF Control, TypeOK
<1>1. ASSUME NEW w \in Worker, Pop(w) PROVE Data'
  <2> DEFINE k == Head(taskList)
             n == Len(started)
  <2>1. /\ taskList # <<>> /\ taskList' = Tail(taskList) /\ added' = added
        /\ started' = Append(started, k) /\ running' = [running EXCEPT ![w] = k]
    BY <1>1 DEF Pop
  <2>2. /\ InOrder' /\ n \in Nat /\ n + 1 \in 1..Len(added) /\ added[n + 1] = k
        /\ \A i \in 1..n : i \in 1..Len(added) /\ added[i] = started[i]
    BY <1>a, <2>1, MoveHead
  <2>3. \A i \in 1..n : started[i] # k
    BY <2>2
  <2>4. \A v \in Worker : running[v] # NoTask => running[v] # k
    BY <2>3
  <2>5. /\ Len(started') = n + 1 /\ started'[n + 1] = k
        /\ \A i \in 1..n : started'[i] = started[i]
    <3>1. k \in Task
      BY <1>a, <2>1, MoveHead
    <3> QED
      BY <1>a, <2>1, <3>1, PushOne
  <2>6. RunsStarted'
    <3>1. ASSUME NEW v \in Worker, running'[v] # NoTask
          PROVE  \E i \in 1..Len(started') : started'[i] = running'[v]
      <4>1. CASE v = w
        BY <1>a, <2>1, <2>2, <2>5, <4>1
      <4>2. CASE v # w
        BY <1>a, <2>1, <2>2, <2>5, <3>1, <4>2
      <4> QED
        BY <4>1, <4>2
    <3>2. ASSUME NEW u \in Worker, NEW v \in Worker,
                 running'[u] = running'[v], running'[u] # NoTask
          PROVE  u = v
      BY <1>a, <2>1, <2>4, <3>2
    <3> QED
      BY <3>1, <3>2
  <2>7. AddedOnce'
    BY <2>1
  <2> HIDE DEF InOrder, AddedOnce, RunsStarted
  <2> QED
    BY <2>2, <2>6, <2>7
<1>2. ASSUME NEW p \in Producer, AddTask(p) PROVE Data'
  <2>1. PICK k \in Task \ Range(added) :
          taskList' = Append(taskList, k) /\ added' = Append(added, k)
    BY <1>2 DEF AddTask
  <2>2. UNCHANGED <<started, running>>
    BY <1>2 DEF AddTask
  <2>3. InOrder'
    BY <1>a, <2>1, <2>2, ConcatPush
  <2> DEFINE n == Len(added)
  <2>4. /\ n \in Nat /\ Len(added') = n + 1 /\ added'[n + 1] = k
        /\ \A i \in 1..n : added'[i] = added[i] /\ added[i] # k
        /\ 1..(n + 1) = 1..n \union {n + 1}
    <3>1. \A i \in DOMAIN added : added[i] # k
      BY <2>1 DEF Range
    <3>2. k \in Task
      BY <2>1
    <3>3. /\ n \in Nat /\ DOMAIN added = 1..n
          /\ Len(Append(added, k)) = n + 1 /\ Append(added, k)[n + 1] = k
          /\ \A i \in 1..n : Append(added, k)[i] = added[i]
          /\ 1..(n + 1) = 1..n \union {n + 1}
      <4>1. added \in Seq(Task)
        BY <1>a
      <4> HIDE DEF Data, InOrder, AddedOnce, RunsStarted
      <4> QED
        BY <4>1, <3>2, PushOne
    <3>4. added' = Append(added, k)
      BY <2>1
    <3> HIDE DEF n
    <3> QED
      BY <3>1, <3>3, <3>4
  <2>5. AddedOnce'
    BY <2>4
  <2> QED
    BY <2>2, <2>3, <2>5
<1>3. ASSUME NEW w \in Worker, RunEnds(w) PROVE Data'
  BY <1>a, <1>3 DEF RunEnds
<1>4. ASSUME UNCHANGED <<taskList, running, added, started>> PROVE Data'
  BY <1>4
<1> QED
  BY <1>1, <1>2, <1>3, <1>4
     DEF Next, WorkerStep, InPool, ProducerStep, QuitterStep, QuitStep, Lock, Test,
         CondWait, SpuriousWakeup, Exit, GoOn, Signal, SignalNobody, SignalOne,
         QuitCheck, QuitSet, QuitBroadcast, QuitJoin, vars

LEMMA OneOwnerHolds == Control /\ Data => OneOwner
<1> SUFFICES ASSUME Control, Data, NEW w \in Worker, running[w] \in Range(taskList)
             PROVE  FALSE
  BY DEF OneOwner, Data, RunsStarted
<1>1. /\ taskList \in Seq(Task) /\ started \in Seq(Task) /\ NoTask \notin Task
      /\ added = started \o taskList
  BY ThreadPoolAssumption DEF Control, TypeOK, Data, InOrder
<1>2. PICK j \in 1..Len(taskList) : taskList[j] = running[w]
  BY <1>1 DEF Range
<1>3. running[w] # NoTask
  BY <1>1, <1>2
<1>4. PICK i \in 1..Len(started) : started[i] = running[w]
  BY <1>3 DEF Data, RunsStarted
<1>5. /\ i \in 1..Len(added) /\ Len(started) + j \in 1..Len(added)
      /\ added[i] = running[w] /\ added[Len(started) + j] = running[w]
      /\ i # Len(started) + j
  BY <1>1, <1>2, <1>4
<1> QED
  BY <1>5 DEF Data, AddedOnce
-------------------------------------------------------------------------------
(* One thread more, one thread less. *)
LEMMA CountOne ==
  ASSUME NEW t, NEW S \in SUBSET (Worker \union Producer)
  PROVE  /\ IsFiniteSet(S) /\ Cardinality(S) \in Nat
         /\ t \notin S => Cardinality(S \union {t}) = Cardinality(S) + 1
         /\ t \in S => Cardinality(S \ {t}) = Cardinality(S) - 1
<1>1. IsFiniteSet(Worker \union Producer)
  BY ThreadPoolAssumption, FS_Union
<1>2. IsFiniteSet(S) /\ Cardinality(S) \in Nat
  BY <1>1, FS_Subset, FS_CardinalityType
<1> QED
  BY <1>2, FS_AddElement, FS_RemoveElement

LEMMA InitNoLostWakeup == Init => NoLostWakeup
<1> SUFFICES ASSUME Init PROVE At("wait") = {}
  BY DEF NoLostWakeup
<1> QED
  BY DEF Init, At

(* A step that adds or removes no sleeper, and brings as many threads as   *)
(* it brings tasks.                                                        *)
LEMMA NextNoLostWakeup == Control /\ NoLostWakeup /\ [Next]_vars => NoLostWakeup'
<1> SUFFICES ASSUME Control, NoLostWakeup, [Next]_vars,
                    ~shutdown', At("wait")' # {}
             PROVE  Len(taskList') <= Cardinality(Coming')
  BY DEF NoLostWakeup
<1> DEFINE W == At("wait")
           C == Coming
           n == Len(taskList)
<1> USE DEF Coming, At, Thread, Goto
<1>1. /\ C \in SUBSET (Worker \union Producer) /\ C' \in SUBSET (Worker \union Producer)
      /\ \A w \in Worker : w \notin Producer /\ w \notin Quitter
      /\ \A p \in Producer : p \notin Quitter
      /\ n \in Nat /\ taskList \in Seq(Task)
      /\ pc \in [Thread -> WorkerAt \union ProducerAt \union QuitterAt]
      /\ \A p \in Producer : pc[p] \in ProducerAt
      /\ \A q \in Quitter : pc[q] \in QuitterAt
  BY ThreadPoolAssumption DEF Control, TypeOK
<1>2. Cardinality(C) \in Nat /\ Cardinality(C') \in Nat
  BY <1>1, CountOne
<1>3. ~shutdown /\ W # {} => n <= Cardinality(C)
  BY DEF NoLostWakeup
<1>4. ASSUME ~shutdown, W' = W, C' = C, taskList' = taskList
      PROVE  Len(taskList') <= Cardinality(Coming')
  BY <1>3, <1>4
<1>5. ASSUME NEW t \in Thread, ~shutdown, W # {}, t \notin C, C' = C \union {t},
             taskList' = taskList \/ \E k \in Task : taskList' = Append(taskList, k)
      PROVE  Len(taskList') <= Cardinality(Coming')
  <2>1. Cardinality(C') = Cardinality(C) + 1
    <3>1. Cardinality(C \union {t}) = Cardinality(C) + 1
      BY <1>1, <1>5, CountOne
    <3> HIDE DEF Coming
    <3> QED
      BY <3>1, <1>5
  <2>2. Len(taskList') <= n + 1
    BY <1>1, <1>5
  <2> HIDE DEF Coming
  <2>3. Len(taskList') \in Nat
    BY <1>1, <1>5
  <2> QED
    BY <1>1, <1>2, <1>3, <1>5, <2>1, <2>2, <2>3
<1>6. ASSUME taskList' = <<>> PROVE Len(taskList') <= Cardinality(Coming')
  BY <1>2, <1>6
<1>10. ASSUME NEW w \in Worker, Lock(w) PROVE Len(taskList') <= Cardinality(Coming')
  BY <1>1, <1>4, <1>10 DEF Lock
<1>11. ASSUME NEW w \in Worker, Test(w) PROVE Len(taskList') <= Cardinality(Coming')
  <2>1. CASE taskList = <<>>
    BY <1>6, <1>11, <2>1 DEF Test
  <2>2. CASE taskList # <<>>
    <3>1. W' = W /\ C' = C /\ taskList' = taskList /\ shutdown' = shutdown
      BY <1>1, <1>11, <2>2 DEF Test
    <3> QED
      BY <1>4, <3>1
  <2> QED
    BY <2>1, <2>2
<1>12. ASSUME NEW w \in Worker, CondWait(w) PROVE Len(taskList') <= Cardinality(Coming')
  BY <1>6, <1>12 DEF CondWait, Control, Tested
<1>13. ASSUME NEW w \in Worker, SpuriousWakeup(w)
       PROVE  Len(taskList') <= Cardinality(Coming')
  <2>1. w \in W /\ w \notin C /\ C' = C \union {w} /\ w \in Thread
    BY <1>1, <1>13 DEF SpuriousWakeup
  <2> QED
    BY <1>5, <1>13, <2>1 DEF SpuriousWakeup
<1>14. ASSUME NEW w \in Worker, Exit(w) PROVE Len(taskList') <= Cardinality(Coming')
  BY <1>14 DEF Exit
<1>15. ASSUME NEW w \in Worker, GoOn(w) PROVE Len(taskList') <= Cardinality(Coming')
  BY <1>1, <1>4, <1>15 DEF GoOn
<1>16. ASSUME NEW w \in Worker, Pop(w) PROVE Len(taskList') <= Cardinality(Coming')
  <2>1. W' = W /\ w \in C /\ C' = C \ {w}
    BY <1>1, <1>16 DEF Pop
  <2>2. Cardinality(C') = Cardinality(C) - 1
    <3>1. Cardinality(C \ {w}) = Cardinality(C) - 1
      BY <1>1, <2>1, CountOne
    <3> HIDE DEF Coming
    <3> QED
      BY <3>1, <2>1
  <2>3. Len(taskList') = n - 1 /\ ~shutdown
    BY <1>1, <1>16 DEF Pop
  <2> HIDE DEF Coming
  <2> QED
    BY <1>1, <1>2, <1>3, <2>1, <2>2, <2>3
<1>17. ASSUME NEW w \in Worker, RunEnds(w) PROVE Len(taskList') <= Cardinality(Coming')
  <2>1. W' = W /\ w \notin C /\ C' = C \union {w} /\ w \in Thread
    BY <1>1, <1>17 DEF RunEnds
  <2> QED
    BY <1>5, <1>17, <2>1 DEF RunEnds
<1>18. ASSUME NEW p \in Producer, AddTask(p)
       PROVE  Len(taskList') <= Cardinality(Coming')
  <2>1. W' = W /\ p \notin C /\ C' = C \union {p} /\ p \in Thread
    BY <1>1, <1>18 DEF AddTask
  <2> QED
    BY <1>5, <1>18, <2>1 DEF AddTask
<1>19. ASSUME NEW p \in Producer, SignalNobody(p)
       PROVE  Len(taskList') <= Cardinality(Coming')
  BY <1>1, <1>19 DEF SignalNobody
<1>20. ASSUME NEW p \in Producer, SignalOne(p)
       PROVE  Len(taskList') <= Cardinality(Coming')
  <2>1. PICK w \in W : pc' = [pc EXCEPT ![p] = "idle", ![w] = "lock"]
    BY <1>20 DEF SignalOne
  <2>2. w \in Worker
    BY <1>1, <2>1 DEF ProducerAt, QuitterAt
  <2>3. p \in C /\ w \notin C /\ w # p /\ C' = (C \ {p}) \union {w}
    BY <1>1, <1>20, <2>1, <2>2 DEF SignalOne
  <2>4. Cardinality(C \ {p}) = Cardinality(C) - 1
    BY <1>1, <2>3, CountOne
  <2>5. Cardinality((C \ {p}) \union {w}) = Cardinality(C \ {p}) + 1
    BY <1>1, <2>3, CountOne
  <2> HIDE DEF Coming
  <2>6. Cardinality(C') = Cardinality(C)
    BY <1>2, <2>3, <2>4, <2>5
  <2> QED
    BY <1>1, <1>3, <1>20, <2>1, <2>6 DEF SignalOne
<1>21. ASSUME NEW q \in Quitter, QuitCheck(q) \/ QuitJoin(q)
       PROVE  Len(taskList') <= Cardinality(Coming')
  <2>1. W' = W /\ C' = C
    BY <1>1, <1>21 DEF QuitCheck, QuitJoin
  <2> QED
    BY <1>4, <1>21, <2>1 DEF QuitCheck, QuitJoin
<1>22. ASSUME NEW q \in Quitter, QuitSet(q) PROVE Len(taskList') <= Cardinality(Coming')
  BY <1>22 DEF QuitSet
<1>23. ASSUME NEW q \in Quitter, QuitBroadcast(q)
       PROVE  Len(taskList') <= Cardinality(Coming')
  BY <1>1, <1>23 DEF QuitBroadcast, Wake
<1>24. CASE UNCHANGED vars
  BY <1>4, <1>24 DEF vars
<1> QED
  BY <1>10, <1>11, <1>12, <1>13, <1>14, <1>15, <1>16, <1>17, <1>18, <1>19, <1>20,
     <1>21, <1>22, <1>23, <1>24
     DEF Next, WorkerStep, InPool, ProducerStep, QuitterStep, QuitStep, Signal
-------------------------------------------------------------------------------
(* Once every worker has exited none does anything again.                  *)
AllExited ==
  At("done") # {} => shutdown /\ \A w \in Worker : pc[w] = "exited"

QuitKnows == \A q \in Quitter : pc[q] \in {"broadcast", "join", "done"} => shutdown

LEMMA InitQuit == Init => QuitKnows /\ AllExited
<1> SUFFICES ASSUME Init PROVE QuitKnows /\ At("done") = {}
  BY DEF AllExited
<1> QED
  BY ThreadPoolAssumption DEF Init, QuitKnows, At, Thread

LEMMA NextQuit ==
  Control /\ QuitKnows /\ AllExited /\ [Next]_vars => QuitKnows' /\ AllExited'
<1> SUFFICES ASSUME Control, QuitKnows, AllExited, [Next]_vars
             PROVE  QuitKnows' /\ AllExited'
  OBVIOUS
<1> USE ThreadPoolAssumption
    DEF QuitKnows, AllExited, At, Thread, Goto, WorkerAt, ProducerAt, QuitterAt
<1>1. /\ pc \in [Thread -> WorkerAt \union ProducerAt \union QuitterAt]
      /\ \A w \in Worker : pc[w] \in WorkerAt
      /\ \A p \in Producer : pc[p] \in ProducerAt
      /\ \A q \in Quitter : pc[q] \in QuitterAt
  BY DEF Control, TypeOK
<1>2. ASSUME NEW w \in Worker, WorkerStep(w) PROVE QuitKnows' /\ AllExited'
  BY <1>1, <1>2 DEF WorkerStep, InPool, Lock, Test, CondWait, SpuriousWakeup, Exit,
                    GoOn, Pop, RunEnds
<1>3. ASSUME NEW p \in Producer, ProducerStep(p) PROVE QuitKnows' /\ AllExited'
  BY <1>1, <1>3 DEF ProducerStep, AddTask, Signal, SignalNobody, SignalOne
<1>4. ASSUME NEW q \in Quitter, QuitterStep(q) PROVE QuitKnows' /\ AllExited'
  BY <1>1, <1>4 DEF QuitterStep, QuitStep, QuitCheck, QuitSet, QuitBroadcast,
                    QuitJoin, Wake
<1>5. CASE UNCHANGED vars
  BY <1>5 DEF vars
<1> QED
  BY <1>2, <1>3, <1>4, <1>5 DEF Next

LEMMA DestroysUnusedHolds == Control /\ AllExited => DestroysUnused
<1> SUFFICES ASSUME Control, AllExited, At("done") # {}
             PROVE  /\ mutex = NoOwner
                    /\ At("wait") = {}
                    /\ \A w \in Worker : running[w] = NoTask
  BY DEF DestroysUnused
<1>1. \A w \in Worker : pc[w] = "exited"
  BY DEF AllExited
<1>2. mutex = NoOwner /\ \A w \in Worker : running[w] = NoTask
  BY <1>1 DEF Control, TypeOK, MutexOwner, Holding
<1>3. At("wait") = {}
  BY <1>1 DEF At, Thread, Control, TypeOK, ProducerAt, QuitterAt
<1> QED
  BY <1>2, <1>3

IInv ==
  /\ Control
  /\ Data
  /\ NoLostWakeup
  /\ QuitKnows
  /\ AllExited

(* The inductive invariant of the thread pool. *)
THEOREM Invariance == Spec => []IInv
<1>1. Init => IInv
  <2> SUFFICES ASSUME Init PROVE Data
    BY InitControl, InitNoLostWakeup, InitQuit DEF IInv
  <2> QED
    BY DEF Init, Data, InOrder, AddedOnce, RunsStarted
<1>2. IInv /\ [Next]_vars => IInv'
  BY NextControl, NextData, NextNoLostWakeup, NextQuit DEF IInv
<1> QED
  BY <1>1, <1>2, PTL DEF Spec

(* Type correctness, for any number of threads and tasks. *)
THEOREM TypeCorrect == Spec => []TypeOK
BY Invariance, PTL DEF IInv, Control

(* A worker never pops from an empty list. *)
THEOREM PopIsSafe == Spec => []PopsSomething
BY Invariance, PTL DEF IInv, Control

(* Tasks start in the order of AddTask, none lost, none twice. *)
THEOREM FirstInFirstStarted == Spec => []InOrder
BY Invariance, PTL DEF IInv, Data

(* Each task has one owner. *)
THEOREM TasksOwnedOnce == Spec => []OneOwner
<1>1. IInv => OneOwner
  BY OneOwnerHolds DEF IInv
<1> QED
  BY <1>1, Invariance, PTL

(* No worker sleeps on a list with more tasks than threads coming. *)
THEOREM WakeupsKept == Spec => []NoLostWakeup
BY Invariance, PTL DEF IInv

(* Quit destroys the mutex and the condition when no worker uses them. *)
THEOREM DestroyIsSafe == Spec => []DestroysUnused
<1>1. IInv => DestroysUnused
  BY DestroysUnusedHolds DEF IInv
<1> QED
  BY <1>1, Invariance, PTL
-------------------------------------------------------------------------------
(* The pool implements the task queue: AddTask adds, taking a task off the *)
(* list starts it, the return of Run finishes it, setting shutdown closes  *)
(* the queue, and the rest of the steps are invisible.                     *)
LEMMA QueueInit == Init => Queue!Init
BY DEF Init, Queue!Init

LEMMA QueueStep == Control /\ [Next]_vars => [Queue!Next]_(Queue!vars)
<1> SUFFICES ASSUME Control, [Next]_vars
             PROVE  Queue!Next \/ UNCHANGED Queue!vars
  OBVIOUS
<1>1. /\ running \in [Worker -> Task \union {NoTask}]
      /\ \A w \in Worker : running[w] # NoTask <=> pc[w] = "run"
  BY DEF Control, TypeOK
<1>2. ASSUME NEW w \in Worker, Pop(w) PROVE Queue!Start(w)
  BY <1>1, <1>2 DEF Pop, Queue!Start
<1>3. ASSUME NEW w \in Worker, RunEnds(w) PROVE Queue!Finish(w)
  BY <1>1, <1>3 DEF RunEnds, Queue!Finish
<1>4. ASSUME NEW p \in Producer, AddTask(p) PROVE \E k \in Task : Queue!Add(k)
  BY <1>4 DEF AddTask, Queue!Add
<1>5. ASSUME NEW q \in Quitter, QuitSet(q) PROVE Queue!Close
  BY <1>5 DEF QuitSet, Queue!Close
<1>6. ASSUME UNCHANGED <<taskList, running, shutdown>> PROVE UNCHANGED Queue!vars
  BY <1>6 DEF Queue!vars
<1>7. ASSUME NEW w \in Worker,
             Lock(w) \/ Test(w) \/ CondWait(w) \/ SpuriousWakeup(w) \/ Exit(w) \/ GoOn(w)
      PROVE  UNCHANGED <<taskList, running, shutdown>>
  BY <1>7 DEF Lock, Test, CondWait, SpuriousWakeup, Exit, GoOn
<1>8. ASSUME NEW p \in Producer, Signal(p) PROVE UNCHANGED <<taskList, running, shutdown>>
  BY <1>8 DEF Signal, SignalNobody, SignalOne
<1>9. ASSUME NEW q \in Quitter, QuitCheck(q) \/ QuitBroadcast(q) \/ QuitJoin(q)
      PROVE  UNCHANGED <<taskList, running, shutdown>>
  BY <1>9 DEF QuitCheck, QuitBroadcast, QuitJoin
<1>10. CASE UNCHANGED vars
  BY <1>10 DEF vars, Queue!vars
<1> QED
  BY <1>2, <1>3, <1>4, <1>5, <1>6, <1>7, <1>8, <1>9, <1>10
     DEF Next, WorkerStep, InPool, ProducerStep, QuitterStep, QuitStep, Queue!Next

(* Every behaviour of the pool is, seen through its list and what its      *)
(* workers run, a behaviour of the task queue.                             *)
THEOREM PoolImplementsQueue == Spec => ImplementsQueue
<1>1. IInv /\ [Next]_vars => [Queue!Next]_(Queue!vars)
  BY QueueStep DEF IInv
<1> QED
  BY <1>1, QueueInit, Invariance, PTL DEF Spec, ImplementsQueue, Queue!Safety
===============================================================================
