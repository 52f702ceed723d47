------------------------------- MODULE ConnPool -------------------------------
(***************************************************************************)
(* The connection pools: CDiskDBConnPool (MySQL), CMemDBConnPool (Redis),  *)
(* the template CConnPool and, without the signal, CMsgProducerPool.  All  *)
(* are a list of idle connections behind one mutex and one condition       *)
(* variable:                                                               *)
(*   - GetConnection takes the front of the list, or creates a connection  *)
(*     while there are fewer than m_maxSize, or sleeps and tries again;    *)
(*   - ReleaseConnection appends to the list under the mutex and signals   *)
(*     AFTER the mutex is released.                                        *)
(* A critical section is one action, because all the accesses to the list  *)
(* and the counter are made under the mutex.  The signal is an action of   *)
(* its own.  A thread that was signalled competes for the mutex with the   *)
(* threads that just arrived: both are at "enter".                         *)
(***************************************************************************)
EXTENDS Integers, Sequences, FiniteSets, Functions

CONSTANTS
  Thread,     \* the threads of one process that use the pool
  Keeper,     \* those that never give their connection back: the consumer
              \* loop of userservice holds one for its lifetime
  MaxSize,    \* m_maxSize
  InitSize,   \* the connections made by the constructor: m_maxSize / 2
  Signals     \* ReleaseConnection signals: FALSE in CMsgProducerPool only

ASSUME PoolAssumption ==
  /\ IsFiniteSet(Thread)
  /\ Keeper \subseteq Thread
  /\ MaxSize \in Nat \ {0}
  /\ InitSize \in 0..MaxSize
  /\ Signals \in BOOLEAN

VARIABLES
  connList,   \* m_connList: the ids (m_id) of the idle connections
  curSize,    \* m_curSize
  pc,         \* where each thread is
  conn        \* conn[t]: the connection t was given, or NoConn

vars == <<connList, curSize, pc, conn>>

NoConn == -1

(* A thread runs its own code ("run"), is about to lock m_lock inside      *)
(* GetConnection ("enter"), sleeps on m_cond ("wait"), uses a connection   *)
(* ("hold"), or has returned it but not signalled yet ("signal").          *)
Location == {"run", "enter", "wait", "hold", "signal"}

At(l) == {t \in Thread : pc[t] = l}
Goto(t, l) == pc' = [pc EXCEPT ![t] = l]

Init ==
  /\ connList = [i \in 1..InitSize |-> i - 1]
  /\ curSize = InitSize
  /\ pc = [t \in Thread |-> "run"]
  /\ conn = [t \in Thread |-> NoConn]

CallGetConnection(t) ==
  /\ pc[t] = "run"
  /\ Goto(t, "enter")
  /\ UNCHANGED <<connList, curSize, conn>>

(* Mutant: the front is read but not popped. *)
TakeFrontNoPop(t) ==
  /\ pc[t] = "enter"
  /\ connList # <<>>
  /\ conn' = [conn EXCEPT ![t] = Head(connList)]
  /\ Goto(t, "hold")
  /\ UNCHANGED <<connList, curSize>>

TakeFront(t) ==
  /\ pc[t] = "enter"
  /\ connList # <<>>
  /\ conn' = [conn EXCEPT ![t] = Head(connList)]
  /\ connList' = Tail(connList)
  /\ Goto(t, "hold")
  /\ UNCHANGED curSize

(* Mutant: the limit is compared with <= instead of <. *)
CreateConnectionOneTooMany(t) ==
  /\ pc[t] = "enter"
  /\ connList = <<>>
  /\ curSize <= MaxSize
  /\ conn' = [conn EXCEPT ![t] = curSize]
  /\ curSize' = curSize + 1
  /\ Goto(t, "hold")
  /\ UNCHANGED connList

CreateConnection(t) ==
  /\ pc[t] = "enter"
  /\ connList = <<>>
  /\ curSize < MaxSize
  /\ conn' = [conn EXCEPT ![t] = curSize]
  /\ curSize' = curSize + 1
  /\ Goto(t, "hold")
  /\ UNCHANGED connList

WaitConnection(t) ==
  /\ pc[t] = "enter"
  /\ connList = <<>>
  /\ curSize >= MaxSize
  /\ Goto(t, "wait")
  /\ UNCHANGED <<connList, curSize, conn>>

(* One turn of GetConnection's loop, under m_lock. *)
GetConnection(t) == TakeFront(t) \/ CreateConnection(t) \/ WaitConnection(t)

(* Mutant: signal only when the list was empty. *)
ReleaseSignalsIfEmpty(t) ==
  /\ pc[t] = "hold"
  /\ t \notin Keeper
  /\ connList' = Append(connList, conn[t])
  /\ conn' = [conn EXCEPT ![t] = NoConn]
  /\ Goto(t, IF connList = <<>> THEN "signal" ELSE "run")
  /\ UNCHANGED curSize

(* Mutant: the signal is forgotten, as in CMsgProducerPool. *)
ReleaseNoSignal(t) ==
  /\ pc[t] = "hold"
  /\ t \notin Keeper
  /\ connList' = Append(connList, conn[t])
  /\ conn' = [conn EXCEPT ![t] = NoConn]
  /\ Goto(t, "run")
  /\ UNCHANGED curSize

(* Mutant: a connection returned to an empty list is dropped. *)
ReleaseDrops(t) ==
  /\ pc[t] = "hold"
  /\ t \notin Keeper
  /\ connList' = IF connList = <<>> THEN <<>> ELSE Append(connList, conn[t])
  /\ conn' = [conn EXCEPT ![t] = NoConn]
  /\ Goto(t, IF Signals THEN "signal" ELSE "run")
  /\ UNCHANGED curSize

ReleaseConnection(t) ==
  /\ pc[t] = "hold"
  /\ t \notin Keeper
  /\ connList' = Append(connList, conn[t])
  /\ conn' = [conn EXCEPT ![t] = NoConn]
  /\ Goto(t, IF Signals THEN "signal" ELSE "run")
  /\ UNCHANGED curSize

(* pthread_cond_signal wakes one of the sleepers, if there is one. *)
SignalNobody(t) ==
  /\ pc[t] = "signal"
  /\ At("wait") = {}
  /\ Goto(t, "run")
  /\ UNCHANGED <<connList, curSize, conn>>

SignalOne(t) ==
  /\ pc[t] = "signal"
  /\ \E w \in At("wait") : pc' = [pc EXCEPT ![t] = "run", ![w] = "enter"]
  /\ UNCHANGED <<connList, curSize, conn>>

Signal(t) == SignalNobody(t) \/ SignalOne(t)

(* pthread_cond_wait may return without a signal. *)
SpuriousWakeup(t) ==
  /\ pc[t] = "wait"
  /\ Goto(t, "enter")
  /\ UNCHANGED <<connList, curSize, conn>>

Next ==
  \E t \in Thread :
    \/ CallGetConnection(t)
    \/ GetConnection(t)
    \/ ReleaseConnection(t)
    \/ Signal(t)
    \/ SpuriousWakeup(t)

(***************************************************************************)
(* The scheduler runs every thread; a task returns what it borrowed: Run   *)
(* of CPlaceOrderTask and of CUserConsumerProcessTask reach the release on *)
(* every path.  Nothing makes a thread ask for a connection.               *)
(***************************************************************************)
Fairness ==
  \A t \in Thread :
    /\ WF_vars(GetConnection(t))
    /\ WF_vars(ReleaseConnection(t))
    /\ WF_vars(Signal(t))

Spec == Init /\ [][Next]_vars
FairSpec == Spec /\ Fairness
-------------------------------------------------------------------------------
Loaned == {conn[t] : t \in At("hold")}
Idle == Range(connList)

TypeOK ==
  /\ connList \in Seq(0..MaxSize - 1)
  /\ curSize \in 0..MaxSize
  /\ pc \in [Thread -> Location]
  /\ conn \in [Thread -> {NoConn} \union 0..MaxSize - 1]
  /\ \A t \in Thread : conn[t] # NoConn <=> pc[t] = "hold"

(* No connection is used by two threads at once, used while it is idle, or *)
(* listed twice (GetConnection, ReleaseConnection: a MySQL handle shared   *)
(* by two threads would mix two transactions).                             *)
Exclusive ==
  /\ \A t, u \in At("hold") : conn[t] = conn[u] => t = u
  /\ Loaned \intersect Idle = {}
  /\ \A i, j \in DOMAIN connList : connList[i] = connList[j] => i = j

(* Every connection the pool ever counted in m_curSize is idle or lent: no *)
(* sequence of get, create, sleep and release makes the pool lose one of   *)
(* its at most m_maxSize connections.                                      *)
NothingLeaks == Idle \union Loaned = 0..curSize - 1

(* Nobody sleeps while a connection is idle unless as many threads are on  *)
(* their way to take it or to signal, and nobody sleeps while the pool may *)
(* still grow.  It is what makes it right to signal after the unlock, one  *)
(* sleeper at a time, although arriving threads overtake woken ones.       *)
NoLostWakeup ==
  At("wait") # {} =>
    /\ curSize = MaxSize
    /\ Len(connList) <= Cardinality(At("enter") \union At("signal"))

(* While threads ask, connections keep being lent: if a thread is inside   *)
(* GetConnection, sooner or later some thread gets a connection, provided  *)
(* that fewer threads keep theirs for ever than there are connections.     *)
GetSome == \E t \in Thread : TakeFront(t) \/ CreateConnection(t)

Progress ==
  Cardinality(Keeper) < MaxSize =>
    \/ []<>(At("enter") \union At("wait") = {})
    \/ []<><<GetSome>>_vars

(* The pool implements the allocator: asking is being in GetConnection,    *)
(* lent is what conn says.                                                 *)
Allocator ==
  INSTANCE ConnAllocator WITH
    Conn <- 0..MaxSize - 1,
    want <- At("enter") \union At("wait"),
    loan <- conn

(* Every step of the pool is one of the allocator, or none.                *)
ImplementsAllocator == Allocator!Safety

(* And the pool lends as the allocator must: it does not leave a caller    *)
(* waiting while a connection is free.                                     *)
ImplementsLending == Allocator!LendFairness
===============================================================================
