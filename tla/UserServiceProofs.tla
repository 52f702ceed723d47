--------------------------- MODULE UserServiceProofs ---------------------------
(***************************************************************************)
(* Theorems about the user service, for any topic, any number of workers   *)
(* and users, any failures and restarts.  The database keeps the books of  *)
(* Ledger (Books!Spec) because who is between reading a balance and        *)
(* writing it holds the row (Balances), and because the row in the         *)
(* consumer's open transaction is new (Fresh).  A task row says 1 exactly  *)
(* when its order was charged, because a task in the pool has a row, if    *)
(* only in the open transaction (Backed), and because nobody reaches the   *)
(* commit while that transaction holds a row (Scanned).  The offset that   *)
(* is committed never passes a message without a row (Covered).  An order  *)
(* is charged once for a delivery, because each delivery makes one task    *)
(* (Live, OneTask), and what was charged, is being charged or waits is     *)
(* counted against the deliveries (Counted).                               *)
(***************************************************************************)
EXTENDS UserService, FiniteSetTheorems, TLAPS

(* A message that is delivered twice is the same message.                  *)
OneMessage ==
  \A i, j \in DOMAIN Topic : Topic[i].order = Topic[j].order => Topic[i] = Topic[j]

-----------------------------------------------------------------------------
(* The parts of the invariant.                                             *)

ConsumerTypes ==
  /\ cpc \in ConsumerLocation
  /\ pos \in 0..Len(Topic)
  /\ taskId \in Nat
  /\ lastId \in Nat
  /\ inserted \in Order \union {None}
  /\ newOffset \in Nat \union {None}
  /\ accepted \in Nat
  /\ cpc \notin {"start", "consume"} => pos # 0

WorkerTypes ==
  /\ queue \in Seq(Task)
  /\ wpc \in [Worker -> WorkerLocation]
  /\ task \in [Worker -> Task \union {Idle}]
  /\ userMoney \in [Worker -> Int]

LockTypes ==
  /\ userLock \in [KnownUser -> Worker \union {Nobody}]
  /\ relationLock \in Worker \union {Nobody}
  /\ taskLock \in Worker \union {Nobody}

TableTypes ==
  /\ money \in [KnownUser -> Int]
  /\ status \in [Order -> {NoRow, 0, 1}]
  /\ charged \in [Order -> Nat]
  /\ lost \subseteq Order
  /\ DOMAIN statusMap \subseteq Order
  /\ \A k \in DOMAIN statusMap : statusMap[k] \in {0, 1}

BoundTypes == faults \in 0..MaxFaults /\ restarts \in 0..MaxRestarts

(* The tasks in the pool, and with its workers.                            *)
InPool == {queue[j] : j \in 1..Len(queue)} \union {task[w] : w \in Worker}

(* Process tasks are about messages whose number could be converted.       *)
TaskMessages ==
  \A k \in InPool : k.kind = "process" => k.msg # 0 /\ Topic[k.msg].order \notin TooBig

WorkerTasks ==
  \A w \in Worker :
    /\ wpc[w] = "idle" <=> task[w] = Idle
    /\ wpc[w] \in {"query", "business", "status", "finish"} => task[w].kind = "process"

Converted ==
  /\ cpc \in {"map", "add"} => Msg.order \notin TooBig
  /\ cpc = "rollback" => Msg.order \in TooBig

(* What a worker has read is still in the row, which it has locked.        *)
Balances ==
  \A w \in Worker :
    /\ wpc[w] \in {"business", "status", "finish"} =>
         UserOf(w) \in KnownUser /\ userLock[UserOf(w)] = w
    /\ wpc[w] = "business" => userMoney[w] = money[UserOf(w)]
    /\ wpc[w] \in {"status", "finish"} =>
         userMoney[w] = money[UserOf(w)] - Topic[task[w].msg].money

(* The row in the consumer's open transaction.                             *)
Fresh ==
  inserted # None =>
    /\ status[inserted] = NoRow
    /\ cpc \notin {"start", "consume", "insert"}
    /\ inserted = Msg.order

(* A task in the pool has its row, if only in the open transaction.        *)
HasRow(o) == o \in lost \/ status[o] # NoRow \/ inserted = o

Backed ==
  /\ \A k \in InPool : k.kind = "process" => HasRow(Topic[k.msg].order)
  /\ cpc \notin {"start", "consume", "insert"} => HasRow(Msg.order)

(* Whoever is about to commit a charge holds the task table.               *)
Scanned == \A w \in Worker : wpc[w] = "finish" => taskLock = w /\ inserted = None

Types == ConsumerTypes /\ WorkerTypes /\ LockTypes /\ TableTypes /\ BoundTypes

IInv ==
  /\ Types
  /\ TaskMessages /\ WorkerTasks /\ Converted
  /\ Balances /\ Fresh /\ Backed /\ Scanned

-----------------------------------------------------------------------------
LEMMA Messages ==
  /\ \A i \in DOMAIN Topic :
       Topic[i].order \in Order /\ Topic[i].user \in User /\ Topic[i].money \in Nat
  /\ \A o \in Order : o \in Nat /\ o # None
  /\ DOMAIN Topic = 1..Len(Topic) /\ Len(Topic) \in Nat
<1> DEFINE M == [order : Nat, user : User, money : Nat]
<1>1. Topic \in Seq(M)
  BY UserAssumption
<1>2. /\ DOMAIN Topic = 1..Len(Topic) /\ Len(Topic) \in Nat
      /\ \A i \in DOMAIN Topic : Topic[i] \in M
  <2> HIDE DEF M
  <2> QED
    BY ONLY <1>1
<1>3. \A m \in M : m.order \in Nat /\ m.user \in User /\ m.money \in Nat
  OBVIOUS
<1>4. \A i \in DOMAIN Topic :
        Topic[i].order \in Nat /\ Topic[i].user \in User /\ Topic[i].money \in Nat
  BY <1>2, <1>3
<1> QED
  BY <1>2, <1>4 DEF Order, None

LEMMA TheMessage ==
  ASSUME OneMessage, NEW i \in DOMAIN Topic
  PROVE  Topic[MsgOf(Topic[i].order)] = Topic[i]
<1>1. \E j \in DOMAIN Topic : Topic[j].order = Topic[i].order
  OBVIOUS
<1>2. MsgOf(Topic[i].order) \in DOMAIN Topic
      /\ Topic[MsgOf(Topic[i].order)].order = Topic[i].order
  BY <1>1 DEF MsgOf
<1> QED
  BY <1>2 DEF OneMessage

LEMMA Current ==
  ASSUME ConsumerTypes, cpc \notin {"start", "consume"}
  PROVE  pos \in DOMAIN Topic /\ Msg.order \in Order
BY Messages DEF ConsumerTypes, Msg

(* What the operations of the pool do to the queue.                        *)
LEMMA Added ==
  ASSUME WorkerTypes, NEW k \in Task, Pool!Add(k)
  PROVE  /\ queue' \in Seq(Task)
         /\ task' = task
         /\ InPool' \subseteq InPool \union {k}
<1>1. queue' = Append(queue, k) /\ task' = task
  BY DEF Pool!Add
<1>2. queue \in Seq(Task)
  BY DEF WorkerTypes
<1>3. queue' \in Seq(Task)
  BY <1>1, <1>2
<1>4. \A j \in 1..Len(queue') : queue'[j] = k \/ (j \in 1..Len(queue) /\ queue'[j] = queue[j])
  BY ONLY <1>1, <1>2, k \in Task
<1> QED
  BY <1>1, <1>3, <1>4 DEF InPool

LEMMA Taken ==
  ASSUME WorkerTypes, NEW w \in Worker, Pool!Start(w)
  PROVE  /\ queue' \in Seq(Task)
         /\ Head(queue) \in Task
         /\ task' = [task EXCEPT ![w] = Head(queue)]
         /\ InPool' \subseteq InPool
<1>1. queue # <<>> /\ queue' = Tail(queue) /\ task' = [task EXCEPT ![w] = Head(queue)]
  BY DEF Pool!Start
<1>2. queue \in Seq(Task)
  BY DEF WorkerTypes
<1>3. /\ queue' \in Seq(Task) /\ Head(queue) \in Task
      /\ 1 \in 1..Len(queue) /\ Head(queue) = queue[1]
  BY ONLY <1>1, <1>2
<1>4. \A j \in 1..Len(queue') : j + 1 \in 1..Len(queue) /\ queue'[j] = queue[j + 1]
  BY ONLY <1>1, <1>2
<1>5. \A v \in Worker : task'[v] = queue[1] \/ task'[v] = task[v]
  BY <1>1, <1>3 DEF WorkerTypes
<1> QED
  BY <1>1, <1>3, <1>4, <1>5 DEF InPool

LEMMA Ended ==
  ASSUME WorkerTypes, NEW w \in Worker, Pool!Finish(w)
  PROVE  /\ queue' = queue
         /\ task' = [task EXCEPT ![w] = Idle]
         /\ task' \in [Worker -> Task \union {Idle}]
         /\ InPool' \subseteq InPool \union {Idle}
<1>1. queue' = queue /\ task' = [task EXCEPT ![w] = Idle]
  BY DEF Pool!Finish
<1>2. /\ task' \in [Worker -> Task \union {Idle}]
      /\ \A v \in Worker : task'[v] = Idle \/ task'[v] = task[v]
  BY <1>1 DEF WorkerTypes
<1> QED
  BY <1>1, <1>2 DEF InPool

LEMMA Unlocked ==
  ASSUME WorkerTypes, LockTypes, NEW w \in Worker, Unlock(w)
  PROVE  /\ Pool!Finish(w)
         /\ wpc' = [wpc EXCEPT ![w] = "idle"]
         /\ userMoney' = [userMoney EXCEPT ![w] = 0]
         /\ userLock' = [u \in KnownUser |-> IF userLock[u] = w THEN Nobody ELSE userLock[u]]
         /\ taskLock' = IF taskLock = w THEN Nobody ELSE taskLock
         /\ WorkerTypes' /\ LockTypes'
<1>1. /\ Pool!Finish(w)
      /\ wpc' = [wpc EXCEPT ![w] = "idle"]
      /\ userMoney' = [userMoney EXCEPT ![w] = 0]
  BY DEF Unlock, Goto
<1>2. "idle" \in WorkerLocation
  BY DEF WorkerLocation
<1>3. WorkerTypes'
  BY <1>1, <1>2, Ended DEF WorkerTypes
<1>4. LockTypes'
  BY DEF Unlock, LockTypes
<1> QED
  BY <1>1, <1>3, <1>4 DEF Unlock

LEMMA Emptied ==
  ASSUME Restart
  PROVE  queue' \in Seq(Task) /\ InPool' \subseteq {Idle}
<1>1. queue' = <<>> /\ task' = [w \in Worker |-> Idle]
  BY DEF Restart
<1>2. Len(queue') = 0 /\ queue' \in Seq(Task)
  BY ONLY <1>1
<1> QED
  BY <1>1, <1>2 DEF InPool

(* A worker in a process task has a message.                               *)
LEMMA Working ==
  ASSUME WorkerTypes, TaskMessages, WorkerTasks, NEW w \in Worker,
         wpc[w] \in {"query", "business", "status", "finish"}
  PROVE  /\ task[w] \in InPool /\ task[w] \in Task /\ task[w].kind = "process"
         /\ task[w].msg \in DOMAIN Topic
         /\ OrderOf(w) \in Order /\ Topic[task[w].msg].money \in Int
<1>1. task[w] \in InPool
  BY DEF InPool
<1>2. task[w].kind = "process" /\ task[w].msg # 0
  BY <1>1 DEF TaskMessages, WorkerTasks
<1>3. task[w] \in Task
  BY <1>2 DEF WorkerTypes, Idle
<1>4. task[w].msg \in DOMAIN Topic
  BY <1>2, <1>3, Messages DEF Task
<1> QED
  BY <1>1, <1>2, <1>3, <1>4, Messages DEF OrderOf

(* Type correctness.                                                       *)

LEMMA NextConsumerTypes ==
  ConsumerTypes /\ [Next]_vars => ConsumerTypes'
<1> SUFFICES ASSUME ConsumerTypes, [Next]_vars PROVE ConsumerTypes'
  OBVIOUS
<1> USE Messages, Current DEF ConsumerTypes, ConsumerLocation, CommitConsumer,
        CGoto, Pool!Add, Msg, None, consumerVars, workerVars, tableVars,
        historyVars, boundVars
<1>1. CASE Consumer
  BY <1>1 DEF Consumer, ConsumerStart, Consume, ConsumeWithoutId, InsertTask,
    InsertTaskFails, UpdateAcceptedOffset, UpdateAcceptedOffsetFails, ConvertRecord,
    InsertStatus,
    AddProcessTask, AddClearTask, ConsumerCommit, ConsumerCommitFails,
    ConsumerRollback, ConsumerUndo
<1>2. ASSUME NEW w \in Worker, Work(w) PROVE ConsumerTypes'
  BY <1>2 DEF Work, TakeTask, QueryUser, ProcessThrows, StatementFails, UpdateMoney,
    UpdateTaskStatus, Finish, FinishFails, Rollback, Clear
<1>3. CASE Restart
  BY <1>3 DEF Restart
<1>4. CASE UNCHANGED vars
  BY <1>4 DEF vars
<1> QED
  BY <1>1, <1>2, <1>3, <1>4 DEF Next

LEMMA NextWorkerTypes ==
  /\ ConsumerTypes /\ WorkerTypes /\ LockTypes /\ TableTypes /\ TaskMessages /\
     WorkerTasks /\ [Next]_vars
  => WorkerTypes'
<1> SUFFICES ASSUME ConsumerTypes, WorkerTypes, LockTypes, TableTypes, TaskMessages,
                    WorkerTasks, [Next]_vars
    PROVE  WorkerTypes'
  OBVIOUS
<1> USE DEF WorkerTypes, WorkerLocation, Goto, CommitConsumer, consumerVars,
        workerVars, tableVars, historyVars, boundVars
<1>1. CASE Consumer
  <2>1. CASE AddProcessTask
    <3>1. [kind |-> "process", id |-> taskId, msg |-> pos] \in Task
      BY Messages DEF Task, ConsumerTypes, None
    <3> QED
      BY <2>1, <3>1, Added DEF WorkerTypes, AddProcessTask,
         consumerVars, workerVars, tableVars, historyVars, boundVars
  <2>2. CASE AddClearTask
    <3>1. [kind |-> "clear", id |-> None, msg |-> 0] \in Task
      BY Messages DEF Task, ConsumerTypes, None
    <3> QED
      BY <2>2, <3>1, Added DEF WorkerTypes, AddClearTask,
         consumerVars, workerVars, tableVars, historyVars, boundVars
  <2>3. CASE ConsumerStart \/ Consume \/ ConsumeWithoutId \/ InsertTask
          \/ InsertTaskFails \/ UpdateAcceptedOffset \/ UpdateAcceptedOffsetFails
                    \/ ConvertRecord
          \/ InsertStatus \/ ConsumerCommit \/ ConsumerCommitFails
          \/ ConsumerRollback
    BY <2>3 DEF ConsumerStart, Consume, ConsumeWithoutId, InsertTask,
      InsertTaskFails, UpdateAcceptedOffset, UpdateAcceptedOffsetFails, ConvertRecord,
      InsertStatus,
      ConsumerCommit, ConsumerCommitFails, ConsumerRollback, ConsumerUndo
  <2> QED
    BY <1>1, <2>1, <2>2, <2>3 DEF Consumer
<1>2. ASSUME NEW w \in Worker, Work(w) PROVE WorkerTypes'
  <2>1. CASE TakeTask(w)
    BY <2>1, Taken DEF TakeTask
  <2>2. CASE QueryUser(w)
    BY <2>2 DEF QueryUser, TableTypes
  <2>3. CASE UpdateMoney(w)
    <3>1. Topic[task[w].msg].money \in Int
      BY <2>3, Messages, Working DEF UpdateMoney
    <3> QED
      BY <2>3, <3>1 DEF UpdateMoney
  <2>4. CASE Finish(w)
    BY <2>4, Unlocked DEF Finish
  <2>5. CASE FinishFails(w)
    BY <2>5, Unlocked DEF FinishFails
  <2>6. CASE Rollback(w)
    BY <2>6, Unlocked DEF Rollback
  <2>7. CASE Clear(w)
    BY <2>7, Ended DEF Clear
  <2>8. CASE ProcessThrows(w) \/ StatementFails(w) \/ UpdateTaskStatus(w)
    BY <2>8 DEF ProcessThrows, StatementFails, UpdateTaskStatus
  <2> QED
    BY <1>2, <2>1, <2>2, <2>3, <2>4, <2>5, <2>6, <2>7, <2>8 DEF Work
<1>3. CASE Restart
  BY <1>3, Emptied DEF Restart
<1>4. CASE UNCHANGED vars
  BY <1>4 DEF vars
<1> QED
  BY <1>1, <1>2, <1>3, <1>4 DEF Next

LEMMA NextLockTypes ==
  WorkerTypes /\ LockTypes /\ [Next]_vars => LockTypes'
<1> SUFFICES ASSUME WorkerTypes, LockTypes, [Next]_vars PROVE LockTypes'
  OBVIOUS
<1> USE DEF LockTypes, CommitConsumer, consumerVars, workerVars, tableVars,
        historyVars, boundVars
<1>1. CASE Consumer
  BY <1>1 DEF Consumer, ConsumerStart, Consume, ConsumeWithoutId, InsertTask,
    InsertTaskFails, UpdateAcceptedOffset, UpdateAcceptedOffsetFails, ConvertRecord,
    InsertStatus,
    AddProcessTask, AddClearTask, ConsumerCommit, ConsumerCommitFails,
    ConsumerRollback, ConsumerUndo
<1>2. ASSUME NEW w \in Worker, Work(w) PROVE LockTypes'
  <2>1. CASE Finish(w)
    BY <2>1, Unlocked DEF Finish
  <2>2. CASE FinishFails(w)
    BY <2>2, Unlocked DEF FinishFails
  <2>3. CASE Rollback(w)
    BY <2>3, Unlocked DEF Rollback
  <2>4. CASE TakeTask(w) \/ QueryUser(w) \/ ProcessThrows(w) \/ StatementFails(w)
          \/ UpdateMoney(w) \/ UpdateTaskStatus(w) \/ Clear(w)
    BY <2>4 DEF TakeTask, QueryUser, ProcessThrows, StatementFails, UpdateMoney,
      UpdateTaskStatus, Clear
  <2> QED
    BY <1>2, <2>1, <2>2, <2>3, <2>4 DEF Work
<1>3. CASE Restart
  BY <1>3 DEF Restart
<1>4. CASE UNCHANGED vars
  BY <1>4 DEF vars
<1> QED
  BY <1>1, <1>2, <1>3, <1>4 DEF Next

LEMMA NextTableTypes ==
  /\ ConsumerTypes /\ WorkerTypes /\ TableTypes /\ TaskMessages /\ WorkerTasks /\
     [Next]_vars
  => TableTypes'
<1> SUFFICES ASSUME ConsumerTypes, WorkerTypes, TableTypes, TaskMessages,
                    WorkerTasks, [Next]_vars
    PROVE  TableTypes'
  OBVIOUS
<1> USE DEF TableTypes, consumerVars, workerVars, tableVars, historyVars, boundVars
<1>1. CASE Consumer
  <2>1. CASE ConsumerStart
    BY <2>1 DEF ConsumerStart, CommitConsumer, ConsumerTypes
  <2>2. CASE InsertTaskFails
    BY <2>2, Current DEF InsertTaskFails
  <2>3. CASE InsertStatus
    BY <2>3, Current DEF InsertStatus
  <2>4. CASE ConsumerCommit
    BY <2>4 DEF ConsumerCommit, CommitConsumer, ConsumerTypes
  <2>5. CASE ConsumerCommitFails
    BY <2>5, Current DEF ConsumerCommitFails, ConsumerUndo
  <2>6. CASE Consume \/ ConsumeWithoutId \/ InsertTask \/ UpdateAcceptedOffset
            \/ UpdateAcceptedOffsetFails
          \/ ConvertRecord \/ AddProcessTask \/ AddClearTask \/ ConsumerRollback
    BY <2>6 DEF Consume, ConsumeWithoutId, InsertTask, UpdateAcceptedOffset,
      UpdateAcceptedOffsetFails,
      ConvertRecord, AddProcessTask, AddClearTask, ConsumerRollback, ConsumerUndo
  <2> QED
    BY <1>1, <2>1, <2>2, <2>3, <2>4, <2>5, <2>6 DEF Consumer
<1>2. ASSUME NEW w \in Worker, Work(w) PROVE TableTypes'
  <2>1. CASE Finish(w)
    <3>1. OrderOf(w) \in Order
      BY <2>1, Working DEF Finish
    <3>2. money' \in [KnownUser -> Int]
      BY <2>1 DEF Finish, WorkerTypes
    <3>3. status' \in [Order -> {NoRow, 0, 1}] /\ charged' \in [Order -> Nat]
      BY <2>1, <3>1 DEF Finish
    <3>4. /\ DOMAIN statusMap' \subseteq Order
          /\ \A k \in DOMAIN statusMap' : statusMap'[k] \in {0, 1}
      BY <2>1 DEF Finish
    <3> QED
      BY <2>1, <3>2, <3>3, <3>4 DEF Finish
  <2>2. CASE TakeTask(w) \/ QueryUser(w) \/ ProcessThrows(w) \/ StatementFails(w)
          \/ UpdateMoney(w) \/ UpdateTaskStatus(w) \/ FinishFails(w) \/ Rollback(w)
          \/ Clear(w)
    BY <2>2 DEF TakeTask, QueryUser, ProcessThrows, StatementFails, UpdateMoney,
      UpdateTaskStatus, FinishFails, Rollback, Clear
  <2> QED
    BY <1>2, <2>1, <2>2 DEF Work
<1>3. CASE Restart
  BY <1>3 DEF Restart
<1>4. CASE UNCHANGED vars
  BY <1>4 DEF vars
<1> QED
  BY <1>1, <1>2, <1>3, <1>4 DEF Next

LEMMA NextBoundTypes ==
  BoundTypes /\ [Next]_vars => BoundTypes'
<1> SUFFICES ASSUME BoundTypes, [Next]_vars PROVE BoundTypes'
  OBVIOUS
<1> USE UserAssumption DEF BoundTypes, Fault, CommitConsumer, Unlock, consumerVars,
        workerVars, tableVars, historyVars, boundVars
<1>1. CASE Consumer
  BY <1>1 DEF Consumer, ConsumerStart, Consume, ConsumeWithoutId, InsertTask,
    InsertTaskFails, UpdateAcceptedOffset, UpdateAcceptedOffsetFails, ConvertRecord,
    InsertStatus,
    AddProcessTask, AddClearTask, ConsumerCommit, ConsumerCommitFails,
    ConsumerRollback, ConsumerUndo
<1>2. ASSUME NEW w \in Worker, Work(w) PROVE BoundTypes'
  BY <1>2 DEF Work, TakeTask, QueryUser, ProcessThrows, StatementFails, UpdateMoney,
    UpdateTaskStatus, Finish, FinishFails, Rollback, Clear
<1>3. CASE Restart
  BY <1>3 DEF Restart
<1>4. CASE UNCHANGED vars
  BY <1>4 DEF vars
<1> QED
  BY <1>1, <1>2, <1>3, <1>4 DEF Next

(* Tasks.                                                                  *)

(* A process task in the pool was there, or is the consumer's.             *)
FromPool ==
  \A k \in InPool' :
    k.kind = "process" => k \in InPool \/ (AddProcessTask /\ k.msg = pos)

LEMMA PoolStep ==
  ConsumerTypes /\ WorkerTypes /\ LockTypes /\ [Next]_vars => FromPool
<1> SUFFICES ASSUME ConsumerTypes, WorkerTypes, LockTypes, [Next]_vars PROVE FromPool
  OBVIOUS
<1> USE DEF FromPool, InPool, Idle, consumerVars, workerVars, tableVars,
        historyVars, boundVars
<1>1. CASE Consumer
  <2>1. CASE AddProcessTask
    <3> DEFINE k == [kind |-> "process", id |-> taskId, msg |-> pos]
    <3>1. k \in Task
      BY Messages DEF Task, ConsumerTypes
    <3>2. InPool' \subseteq InPool \union {k}
      BY <2>1, <3>1, Added DEF AddProcessTask
    <3> QED
      BY ONLY <2>1, <3>2
  <2>2. CASE AddClearTask
    <3> DEFINE k == [kind |-> "clear", id |-> None, msg |-> 0]
    <3>1. k \in Task
      BY Messages DEF Task, None
    <3>2. InPool' \subseteq InPool \union {k}
      BY <2>2, <3>1, Added DEF AddClearTask
    <3> QED
      BY ONLY <3>2
  <2>3. CASE ConsumerStart \/ Consume \/ ConsumeWithoutId \/ InsertTask
          \/ InsertTaskFails \/ UpdateAcceptedOffset \/ UpdateAcceptedOffsetFails
                    \/ ConvertRecord
          \/ InsertStatus \/ ConsumerCommit \/ ConsumerCommitFails
          \/ ConsumerRollback
    BY <2>3 DEF ConsumerStart, Consume, ConsumeWithoutId, InsertTask,
      InsertTaskFails, UpdateAcceptedOffset, UpdateAcceptedOffsetFails, ConvertRecord,
      InsertStatus,
      ConsumerCommit, ConsumerCommitFails, ConsumerRollback, ConsumerUndo
  <2> QED
    BY <1>1, <2>1, <2>2, <2>3 DEF Consumer
<1>2. ASSUME NEW w \in Worker, Work(w) PROVE FromPool
  <2>1. CASE TakeTask(w)
    <3>1. InPool' \subseteq InPool
      BY <2>1, Taken DEF TakeTask
    <3> QED
      BY ONLY <3>1
  <2>2. CASE Finish(w)
    <3>1. InPool' \subseteq InPool \union {Idle}
      BY <2>2, Unlocked, Ended DEF Finish
    <3> QED
      BY ONLY <3>1 DEF Idle
  <2>3. CASE FinishFails(w)
    <3>1. InPool' \subseteq InPool \union {Idle}
      BY <2>3, Unlocked, Ended DEF FinishFails
    <3> QED
      BY ONLY <3>1 DEF Idle
  <2>4. CASE Rollback(w)
    <3>1. InPool' \subseteq InPool \union {Idle}
      BY <2>4, Unlocked, Ended DEF Rollback
    <3> QED
      BY ONLY <3>1 DEF Idle
  <2>5. CASE Clear(w)
    <3>1. InPool' \subseteq InPool \union {Idle}
      BY <2>5, Unlocked, Ended DEF Clear
    <3> QED
      BY ONLY <3>1 DEF Idle
  <2>6. CASE QueryUser(w) \/ ProcessThrows(w) \/ StatementFails(w) \/ UpdateMoney(w)
          \/ UpdateTaskStatus(w)
    BY <2>6 DEF QueryUser, ProcessThrows, StatementFails, UpdateMoney,
      UpdateTaskStatus
  <2> QED
    BY <1>2, <2>1, <2>2, <2>3, <2>4, <2>5, <2>6 DEF Work
<1>3. CASE Restart
  <2>1. InPool' \subseteq {Idle}
    BY <1>3, Emptied
  <2> QED
    BY ONLY <2>1 DEF Idle
<1>4. CASE UNCHANGED vars
  BY <1>4 DEF vars
<1> QED
  BY <1>1, <1>2, <1>3, <1>4 DEF Next

LEMMA NextTaskMessages ==
  ConsumerTypes /\ WorkerTypes /\ LockTypes /\ TaskMessages /\ Converted /\ [Next]_vars
  => TaskMessages'
BY PoolStep DEF FromPool, AddProcessTask, TaskMessages, ConsumerTypes, Converted, Msg

LEMMA NextWorkerTasks ==
  WorkerTypes /\ LockTypes /\ WorkerTasks /\ [Next]_vars => WorkerTasks'
<1> SUFFICES ASSUME WorkerTypes, LockTypes, WorkerTasks, [Next]_vars
    PROVE  WorkerTasks'
  OBVIOUS
<1> USE DEF WorkerTasks, WorkerTypes, Goto, CommitConsumer, Pool!Add, consumerVars,
        workerVars, tableVars, historyVars, boundVars
<1>1. CASE Consumer
  BY <1>1 DEF Consumer, ConsumerStart, Consume, ConsumeWithoutId, InsertTask,
    InsertTaskFails, UpdateAcceptedOffset, UpdateAcceptedOffsetFails, ConvertRecord,
    InsertStatus,
    AddProcessTask, AddClearTask, ConsumerCommit, ConsumerCommitFails,
    ConsumerRollback, ConsumerUndo
<1>2. ASSUME NEW w \in Worker, Work(w) PROVE WorkerTasks'
  <2>1. CASE TakeTask(w)
    BY <2>1, Taken DEF TakeTask, Task, Idle
  <2>2. CASE Finish(w)
    <3>1. wpc' = [wpc EXCEPT ![w] = "idle"] /\ task' = [task EXCEPT ![w] = Idle]
      BY <2>2, Unlocked, Ended DEF Finish
    <3> QED
      BY ONLY <3>1, WorkerTypes, WorkerTasks DEF WorkerTypes, WorkerTasks
  <2>3. CASE FinishFails(w)
    <3>1. wpc' = [wpc EXCEPT ![w] = "idle"] /\ task' = [task EXCEPT ![w] = Idle]
      BY <2>3, Unlocked, Ended DEF FinishFails
    <3> QED
      BY ONLY <3>1, WorkerTypes, WorkerTasks DEF WorkerTypes, WorkerTasks
  <2>4. CASE Rollback(w)
    <3>1. wpc' = [wpc EXCEPT ![w] = "idle"] /\ task' = [task EXCEPT ![w] = Idle]
      BY <2>4, Unlocked, Ended DEF Rollback
    <3> QED
      BY ONLY <3>1, WorkerTypes, WorkerTasks DEF WorkerTypes, WorkerTasks
  <2>5. CASE Clear(w)
    BY <2>5, Ended DEF Clear
  <2>6. CASE QueryUser(w) \/ ProcessThrows(w) \/ StatementFails(w) \/ UpdateMoney(w)
          \/ UpdateTaskStatus(w)
    BY <2>6 DEF QueryUser, ProcessThrows, StatementFails, UpdateMoney,
      UpdateTaskStatus
  <2> QED
    BY <1>2, <2>1, <2>2, <2>3, <2>4, <2>5, <2>6 DEF Work
<1>3. CASE Restart
  BY <1>3 DEF Restart
<1>4. CASE UNCHANGED vars
  BY <1>4 DEF vars
<1> QED
  BY <1>1, <1>2, <1>3, <1>4 DEF Next

LEMMA NextConverted ==
  ConsumerTypes /\ Converted /\ [Next]_vars => Converted'
<1> SUFFICES ASSUME ConsumerTypes, Converted, [Next]_vars PROVE Converted'
  OBVIOUS
<1> USE DEF Converted, ConsumerTypes, CGoto, CommitConsumer, Msg, consumerVars,
        workerVars, tableVars, historyVars, boundVars
<1>1. CASE Consumer
  BY <1>1 DEF Consumer, ConsumerStart, Consume, ConsumeWithoutId, InsertTask,
    InsertTaskFails, UpdateAcceptedOffset, UpdateAcceptedOffsetFails, ConvertRecord,
    InsertStatus,
    AddProcessTask, AddClearTask, ConsumerCommit, ConsumerCommitFails,
    ConsumerRollback, ConsumerUndo
<1>2. ASSUME NEW w \in Worker, Work(w) PROVE Converted'
  BY <1>2 DEF Work, TakeTask, QueryUser, ProcessThrows, StatementFails, UpdateMoney,
    UpdateTaskStatus, Finish, FinishFails, Rollback, Clear
<1>3. CASE Restart
  BY <1>3 DEF Restart
<1>4. CASE UNCHANGED vars
  BY <1>4 DEF vars
<1> QED
  BY <1>1, <1>2, <1>3, <1>4 DEF Next

(* Locks and rows.                                                         *)

LEMMA NextBalances ==
  /\ WorkerTypes /\ LockTypes /\ TableTypes /\ TaskMessages /\ WorkerTasks /\
     Balances /\ [Next]_vars
  => Balances'
<1> SUFFICES ASSUME WorkerTypes, LockTypes, TableTypes, TaskMessages, WorkerTasks,
                    Balances, [Next]_vars
    PROVE  Balances'
  OBVIOUS
<1>0. Nobody \notin Worker
  BY UserAssumption
<1> USE DEF Balances, WorkerTypes, LockTypes, TableTypes, Goto, UserOf,
        CommitConsumer, Pool!Add, consumerVars, workerVars, tableVars, historyVars,
        boundVars
<1>1. CASE Consumer
  BY <1>1 DEF Consumer, ConsumerStart, Consume, ConsumeWithoutId, InsertTask,
    InsertTaskFails, UpdateAcceptedOffset, UpdateAcceptedOffsetFails, ConvertRecord,
    InsertStatus,
    AddProcessTask, AddClearTask, ConsumerCommit, ConsumerCommitFails,
    ConsumerRollback, ConsumerUndo
<1>2. ASSUME NEW w \in Worker, Work(w) PROVE Balances'
  <2>1. CASE TakeTask(w)
    <3>1. /\ wpc'[w] \in {"query", "clear"} /\ wpc' = [wpc EXCEPT ![w] = wpc'[w]]
          /\ task' = [task EXCEPT ![w] = Head(queue)]
          /\ userMoney' = userMoney /\ userLock' = userLock /\ money' = money
      BY <2>1, Taken DEF TakeTask
    <3> QED
      BY ONLY <3>1, w \in Worker, WorkerTypes, LockTypes, Balances
         DEF WorkerTypes, LockTypes, Balances, UserOf
  <2>2. CASE QueryUser(w)
    <3>1. /\ wpc' = [wpc EXCEPT ![w] = "business"] /\ task' = task
          /\ UserOf(w) \in KnownUser /\ userLock[UserOf(w)] = Nobody
          /\ userLock' = [userLock EXCEPT ![UserOf(w)] = w]
          /\ userMoney' = [userMoney EXCEPT ![w] = money[UserOf(w)]] /\ money' = money
      BY <2>2 DEF QueryUser
    <3>2. \A v \in Worker : wpc'[v] \in {"business", "status", "finish"} /\ v # w =>
            /\ wpc'[v] = wpc[v] /\ userMoney'[v] = userMoney[v]
            /\ UserOf(v) \in KnownUser /\ userLock'[UserOf(v)] = v
      BY ONLY <3>1, w \in Worker, WorkerTypes, LockTypes, Balances, <1>0
         DEF WorkerTypes, LockTypes, Balances
    <3>3. /\ wpc'[w] = "business" /\ userMoney'[w] = money[UserOf(w)]
          /\ userLock'[UserOf(w)] = w
      BY ONLY <3>1, w \in Worker, WorkerTypes, LockTypes DEF WorkerTypes, LockTypes
    <3> QED
      BY ONLY <3>1, <3>2, <3>3, w \in Worker, Balances DEF Balances, UserOf
  <2>3. CASE ProcessThrows(w)
    BY <2>3 DEF ProcessThrows
  <2>4. CASE StatementFails(w)
    BY <2>4 DEF StatementFails
  <2>5. CASE UpdateMoney(w)
    <3>1. /\ wpc[w] = "business" /\ wpc' = [wpc EXCEPT ![w] = "status"] /\ task' = task
          /\ userLock' = [userLock EXCEPT ![UserOf(w)] = w]
          /\ userMoney' = [userMoney EXCEPT ![w] = userMoney[w] - Topic[task[w].msg].money]
          /\ money' = money
      BY <2>5 DEF UpdateMoney
    <3>2. userLock[UserOf(w)] = w /\ UserOf(w) \in KnownUser
      BY <3>1 DEF Balances
    <3>3. userLock' = userLock
      BY <3>1, <3>2 DEF LockTypes
    <3> QED
      BY ONLY <3>1, <3>2, <3>3, w \in Worker, WorkerTypes, Balances
         DEF WorkerTypes, Balances, UserOf
  <2>6. CASE UpdateTaskStatus(w)
    BY <2>6 DEF UpdateTaskStatus
  <2>7. CASE Finish(w)
    <3>1. /\ wpc' = [wpc EXCEPT ![w] = "idle"] /\ task' = [task EXCEPT ![w] = Idle]
          /\ userMoney' = [userMoney EXCEPT ![w] = 0]
          /\ userLock' = [u \in KnownUser |-> IF userLock[u] = w THEN Nobody ELSE userLock[u]]
      BY <2>7, Unlocked, Ended DEF Finish
    <3>2. \A u \in KnownUser : userLock[u] # w => money'[u] = money[u]
      BY <2>7 DEF Finish
    <3> QED
      BY ONLY <3>1, <3>2, w \in Worker, WorkerTypes, LockTypes, Balances
         DEF WorkerTypes, LockTypes, Balances, UserOf
  <2>8. CASE FinishFails(w)
    <3>1. /\ wpc' = [wpc EXCEPT ![w] = "idle"] /\ task' = [task EXCEPT ![w] = Idle]
          /\ userMoney' = [userMoney EXCEPT ![w] = 0]
          /\ userLock' = [u \in KnownUser |-> IF userLock[u] = w THEN Nobody ELSE userLock[u]]
      BY <2>8, Unlocked, Ended DEF FinishFails
    <3>2. money' = money
      BY <2>8 DEF FinishFails, tableVars
    <3> QED
      BY ONLY <3>1, <3>2, w \in Worker, WorkerTypes, LockTypes, Balances
         DEF WorkerTypes, LockTypes, Balances, UserOf
  <2>9. CASE Rollback(w)
    <3>1. /\ wpc' = [wpc EXCEPT ![w] = "idle"] /\ task' = [task EXCEPT ![w] = Idle]
          /\ userMoney' = [userMoney EXCEPT ![w] = 0]
          /\ userLock' = [u \in KnownUser |-> IF userLock[u] = w THEN Nobody ELSE userLock[u]]
      BY <2>9, Unlocked, Ended DEF Rollback
    <3>2. money' = money
      BY <2>9 DEF Rollback, tableVars
    <3> QED
      BY ONLY <3>1, <3>2, w \in Worker, WorkerTypes, LockTypes, Balances
         DEF WorkerTypes, LockTypes, Balances, UserOf
  <2>10. CASE Clear(w)
    <3>1. /\ wpc' = [wpc EXCEPT ![w] = "idle"] /\ task' = [task EXCEPT ![w] = Idle]
          /\ userMoney' = userMoney /\ userLock' = userLock /\ money' = money
      BY <2>10, Ended DEF Clear
    <3> QED
      BY ONLY <3>1, w \in Worker, WorkerTypes, LockTypes, Balances
         DEF WorkerTypes, LockTypes, Balances, UserOf
  <2> QED
    BY <1>2, <2>1, <2>2, <2>3, <2>4, <2>5, <2>6, <2>7, <2>8, <2>9, <2>10 DEF Work
<1>3. CASE Restart
  BY <1>3 DEF Restart
<1>4. CASE UNCHANGED vars
  BY <1>4 DEF vars
<1> QED
  BY <1>1, <1>2, <1>3, <1>4 DEF Next

LEMMA NextFresh ==
  ConsumerTypes /\ TableTypes /\ Fresh /\ [Next]_vars => Fresh'
<1> SUFFICES ASSUME ConsumerTypes, TableTypes, Fresh, [Next]_vars PROVE Fresh'
  OBVIOUS
<1> USE DEF Fresh, ConsumerTypes, TableTypes, CGoto, CommitConsumer, Msg, None,
        consumerVars, workerVars, tableVars, historyVars, boundVars
<1>1. CASE Consumer
  <2>1. CASE InsertTask
    BY <2>1, Current, Messages DEF InsertTask
  <2>2. CASE ConsumerStart \/ Consume \/ ConsumeWithoutId \/ InsertTaskFails
          \/ UpdateAcceptedOffset \/ UpdateAcceptedOffsetFails \/ ConvertRecord
                    \/ InsertStatus \/ AddProcessTask
          \/ AddClearTask \/ ConsumerCommit \/ ConsumerCommitFails
          \/ ConsumerRollback
    BY <2>2 DEF ConsumerStart, Consume, ConsumeWithoutId, InsertTaskFails,
      UpdateAcceptedOffset, UpdateAcceptedOffsetFails, ConvertRecord, InsertStatus,
      AddProcessTask,
      AddClearTask, ConsumerCommit, ConsumerCommitFails, ConsumerRollback,
      ConsumerUndo
  <2> QED
    BY <1>1, <2>1, <2>2 DEF Consumer
<1>2. ASSUME NEW w \in Worker, Work(w) PROVE Fresh'
  <2>1. CASE Finish(w)
    BY <2>1, Messages DEF Finish
  <2>2. CASE TakeTask(w) \/ QueryUser(w) \/ ProcessThrows(w) \/ StatementFails(w)
          \/ UpdateMoney(w) \/ UpdateTaskStatus(w) \/ FinishFails(w) \/ Rollback(w)
          \/ Clear(w)
    BY <2>2 DEF TakeTask, QueryUser, ProcessThrows, StatementFails, UpdateMoney,
      UpdateTaskStatus, FinishFails, Rollback, Clear
  <2> QED
    BY <1>2, <2>1, <2>2 DEF Work
<1>3. CASE Restart
  BY <1>3 DEF Restart
<1>4. CASE UNCHANGED vars
  BY <1>4 DEF vars
<1> QED
  BY <1>1, <1>2, <1>3, <1>4 DEF Next

(* An order keeps its row, unless the open transaction is undone.          *)
RowKept ==
  \A o \in Order : HasRow(o) =>
    HasRow(o)' \/ (ConsumerRollback /\ o = Msg.order) \/ Restart

LEMMA RowsStay ==
  ConsumerTypes /\ TableTypes /\ Fresh /\ [Next]_vars => RowKept
<1> SUFFICES ASSUME ConsumerTypes, TableTypes, Fresh, [Next]_vars PROVE RowKept
  OBVIOUS
<1> USE DEF RowKept, HasRow, Fresh, ConsumerTypes, TableTypes, CGoto,
        CommitConsumer, consumerVars, workerVars, tableVars, historyVars, boundVars
<1>1. CASE Consumer
  <2>1. CASE ConsumerStart
    BY <2>1, Messages DEF ConsumerStart, NoRow
  <2>2. CASE InsertTask
    BY <2>2, Messages DEF InsertTask
  <2>3. CASE InsertTaskFails
    BY <2>3, Messages DEF InsertTaskFails
  <2>4. CASE ConsumerCommit
    BY <2>4, Messages DEF ConsumerCommit, NoRow
  <2>5. CASE Consume \/ ConsumeWithoutId \/ UpdateAcceptedOffset
            \/ UpdateAcceptedOffsetFails \/ ConvertRecord
          \/ InsertStatus \/ AddProcessTask \/ AddClearTask \/ ConsumerCommitFails
          \/ ConsumerRollback
    BY <2>5 DEF Consume, ConsumeWithoutId, UpdateAcceptedOffset,
      UpdateAcceptedOffsetFails, ConvertRecord,
      InsertStatus, AddProcessTask, AddClearTask, ConsumerCommitFails,
      ConsumerRollback, ConsumerUndo
  <2> QED
    BY <1>1, <2>1, <2>2, <2>3, <2>4, <2>5 DEF Consumer
<1>2. ASSUME NEW w \in Worker, Work(w) PROVE RowKept
  <2>1. CASE Finish(w)
    BY <2>1 DEF Finish, NoRow
  <2>2. CASE TakeTask(w) \/ QueryUser(w) \/ ProcessThrows(w) \/ StatementFails(w)
          \/ UpdateMoney(w) \/ UpdateTaskStatus(w) \/ FinishFails(w) \/ Rollback(w)
          \/ Clear(w)
    BY <2>2 DEF TakeTask, QueryUser, ProcessThrows, StatementFails, UpdateMoney,
      UpdateTaskStatus, FinishFails, Rollback, Clear
  <2> QED
    BY <1>2, <2>1, <2>2 DEF Work
<1>3. CASE Restart
  BY <1>3 DEF Restart
<1>4. CASE UNCHANGED vars
  BY <1>4 DEF vars
<1> QED
  BY <1>1, <1>2, <1>3, <1>4 DEF Next

LEMMA NextBackedTasks ==
  /\ ConsumerTypes /\ WorkerTypes /\ LockTypes /\ TableTypes
  /\ TaskMessages /\ WorkerTasks /\ Converted /\ Fresh /\ Backed /\ [Next]_vars
  => \A k \in InPool' : k.kind = "process" => HasRow(Topic[k.msg].order)'
<1> SUFFICES ASSUME ConsumerTypes, WorkerTypes, LockTypes, TableTypes,
                    TaskMessages, WorkerTasks, Converted, Fresh, Backed, [Next]_vars,
                    NEW k \in InPool', k.kind = "process"
             PROVE  HasRow(Topic[k.msg].order)'
  OBVIOUS
<1> DEFINE o == Topic[k.msg].order
<1>1. k.msg \in DOMAIN Topic
  <2>1. WorkerTypes' /\ TaskMessages'
    BY NextWorkerTypes, NextTaskMessages
  <2>2. k \in Task
    BY <2>1 DEF InPool, WorkerTypes, Idle
  <2>3. k.msg # 0
    BY <2>1 DEF TaskMessages
  <2> QED
    BY <2>2, <2>3, Messages DEF Task
<1>2. o \in Order
  BY <1>1, Messages
<1>3. ~Restart
  BY Emptied DEF Idle
<1>4. k \in InPool \/ (cpc = "add" /\ k.msg = pos)
  BY PoolStep DEF FromPool, AddProcessTask
<1>5. HasRow(o)
  BY <1>4 DEF Backed, Msg
<1>6. ~(ConsumerRollback /\ o = Msg.order)
  BY <1>4 DEF TaskMessages, Converted, ConsumerRollback
<1>7. HasRow(o)'
  BY <1>2, <1>3, <1>5, <1>6, RowsStay DEF RowKept
<1> QED
  BY <1>7

(* The consumer has its message from the insert to the end of the loop.    *)
MessageKept ==
  cpc' \notin {"start", "consume", "insert"} =>
    \/ InsertTask \/ InsertTaskFails
    \/ cpc \notin {"start", "consume", "insert"} /\ Msg' = Msg

LEMMA Held ==
  ConsumerTypes /\ [Next]_vars => MessageKept
<1> SUFFICES ASSUME ConsumerTypes, [Next]_vars PROVE MessageKept
  OBVIOUS
<1> USE DEF MessageKept, CGoto, Msg, CommitConsumer, consumerVars, workerVars,
        tableVars, historyVars, boundVars
<1>1. CASE Consumer
  BY <1>1 DEF Consumer, ConsumerStart, Consume, ConsumeWithoutId, InsertTask,
    InsertTaskFails, UpdateAcceptedOffset, UpdateAcceptedOffsetFails, ConvertRecord,
    InsertStatus,
    AddProcessTask, AddClearTask, ConsumerCommit, ConsumerCommitFails,
    ConsumerRollback, ConsumerUndo
<1>2. ASSUME NEW w \in Worker, Work(w) PROVE MessageKept
  BY <1>2 DEF Work, TakeTask, QueryUser, ProcessThrows, StatementFails, UpdateMoney,
    UpdateTaskStatus, Finish, FinishFails, Rollback, Clear
<1>3. CASE Restart
  BY <1>3 DEF Restart
<1>4. CASE UNCHANGED vars
  BY <1>4 DEF vars
<1> QED
  BY <1>1, <1>2, <1>3, <1>4 DEF Next

LEMMA NextBackedMessage ==
  ConsumerTypes /\ TableTypes /\ Fresh /\ Backed /\ [Next]_vars =>
  (cpc \notin {"start", "consume", "insert"} => HasRow(Msg.order))'
<1> SUFFICES ASSUME ConsumerTypes, TableTypes, Fresh, Backed, [Next]_vars,
                    cpc' \notin {"start", "consume", "insert"}
             PROVE  HasRow(Msg.order)'
  OBVIOUS
<1>1. CASE InsertTask
  BY <1>1 DEF InsertTask, HasRow, Msg, tableVars
<1>2. CASE InsertTaskFails
  BY <1>2 DEF InsertTaskFails, HasRow, Msg
<1>3. CASE ~(InsertTask \/ InsertTaskFails)
  <2>1. /\ cpc \notin {"start", "consume", "insert"} /\ Msg' = Msg
    BY <1>3, Held DEF MessageKept
  <2>2. ~ConsumerRollback /\ ~Restart
    BY DEF ConsumerRollback, ConsumerUndo, CGoto, Restart
  <2>3. Msg.order \in Order /\ HasRow(Msg.order)
    BY <2>1, Current DEF Backed
  <2>4. \E o \in Order : o = Msg.order /\ HasRow(o)'
    BY <2>1, <2>2, <2>3, RowsStay DEF RowKept
  <2> QED
    BY <2>1, <2>4 DEF HasRow
<1> QED
  BY <1>1, <1>2, <1>3

LEMMA NextScanned ==
  ConsumerTypes /\ WorkerTypes /\ LockTypes /\ Scanned /\ [Next]_vars => Scanned'
<1> SUFFICES ASSUME ConsumerTypes, WorkerTypes, LockTypes, Scanned, [Next]_vars
    PROVE  Scanned'
  OBVIOUS
<1>0. Nobody \notin Worker
  BY UserAssumption
<1> USE DEF Scanned, WorkerTypes, LockTypes, Goto, CommitConsumer, Pool!Add,
        consumerVars, workerVars, tableVars, historyVars, boundVars
<1>1. CASE Consumer
  <2>1. CASE InsertTask
    BY <2>1, <1>0 DEF InsertTask
  <2>2. CASE ConsumerStart \/ Consume \/ ConsumeWithoutId \/ InsertTaskFails
          \/ UpdateAcceptedOffset \/ UpdateAcceptedOffsetFails \/ ConvertRecord
                    \/ InsertStatus \/ AddProcessTask
          \/ AddClearTask \/ ConsumerCommit \/ ConsumerCommitFails
          \/ ConsumerRollback
    BY <2>2 DEF ConsumerStart, Consume, ConsumeWithoutId, InsertTaskFails,
      UpdateAcceptedOffset, UpdateAcceptedOffsetFails, ConvertRecord, InsertStatus,
      AddProcessTask,
      AddClearTask, ConsumerCommit, ConsumerCommitFails, ConsumerRollback,
      ConsumerUndo
  <2> QED
    BY <1>1, <2>1, <2>2 DEF Consumer
<1>2. ASSUME NEW w \in Worker, Work(w) PROVE Scanned'
  <2>1. CASE TakeTask(w)
    BY <2>1, Taken DEF TakeTask
  <2>2. CASE UpdateTaskStatus(w)
    <3>1. \A v \in Worker : wpc[v] # "finish"
      BY <2>2, <1>0 DEF UpdateTaskStatus
    <3>2. wpc' = [wpc EXCEPT ![w] = "finish"] /\ taskLock' = w /\ inserted' = None
      BY <2>2 DEF UpdateTaskStatus
    <3> QED
      BY ONLY <3>1, <3>2, WorkerTypes DEF WorkerTypes, Scanned
  <2>3. CASE Finish(w)
    BY <2>3, <1>0, Unlocked, Ended DEF Finish
  <2>4. CASE FinishFails(w)
    BY <2>4, <1>0, Unlocked, Ended DEF FinishFails
  <2>5. CASE Rollback(w)
    BY <2>5, <1>0, Unlocked, Ended DEF Rollback
  <2>6. CASE Clear(w)
    BY <2>6, Ended DEF Clear
  <2>7. CASE QueryUser(w) \/ ProcessThrows(w) \/ StatementFails(w) \/ UpdateMoney(w)
    BY <2>7 DEF QueryUser, ProcessThrows, StatementFails, UpdateMoney
  <2> QED
    BY <1>2, <2>1, <2>2, <2>3, <2>4, <2>5, <2>6, <2>7 DEF Work
<1>3. CASE Restart
  BY <1>3 DEF Restart
<1>4. CASE UNCHANGED vars
  BY <1>4 DEF vars
<1> QED
  BY <1>1, <1>2, <1>3, <1>4 DEF Next

(* The inductive invariant.                                                *)

LEMMA InitInv ==
  Init => IInv
<1> SUFFICES ASSUME Init PROVE IInv
  OBVIOUS
<1>1. Len(queue) = 0 /\ queue \in Seq(Task) /\ InPool \subseteq {Idle}
  <2>1. queue = <<>> /\ task = [w \in Worker |-> Idle]
    BY DEF Init
  <2>2. Len(queue) = 0 /\ queue \in Seq(Task)
    BY ONLY <2>1
  <2> QED
    BY <2>1, <2>2 DEF InPool
<1>2. ConsumerTypes
  BY Messages DEF Init, ConsumerTypes, ConsumerLocation
<1>3. WorkerTypes /\ LockTypes
  BY <1>1 DEF Init, WorkerTypes, LockTypes, WorkerLocation
<1>4. TableTypes
  BY UserAssumption DEF Init, TableTypes
<1>5. BoundTypes
  BY UserAssumption DEF Init, BoundTypes
<1>6. TaskMessages /\ WorkerTasks /\ Converted
  BY <1>1 DEF Init, TaskMessages, WorkerTasks, Converted, Idle
<1>7. Balances /\ Fresh /\ Scanned
  BY DEF Init, Balances, Fresh, Scanned
<1>8. Backed
  BY <1>1 DEF Init, Backed, Idle
<1> QED
  BY <1>2, <1>3, <1>4, <1>5, <1>6, <1>7, <1>8 DEF IInv, Types

LEMMA NextInv ==
  IInv /\ [Next]_vars => IInv'
<1> SUFFICES ASSUME IInv, [Next]_vars PROVE IInv'
  OBVIOUS
<1>1. Types'
  BY NextConsumerTypes, NextWorkerTypes, NextLockTypes, NextTableTypes, NextBoundTypes
     DEF IInv, Types
<1>2. TaskMessages' /\ WorkerTasks' /\ Converted'
  BY NextTaskMessages, NextWorkerTasks, NextConverted DEF IInv, Types
<1>3. Balances' /\ Fresh' /\ Scanned'
  BY NextBalances, NextFresh, NextScanned DEF IInv, Types
<1>4. Backed'
  BY NextBackedTasks, NextBackedMessage DEF IInv, Types, Backed
<1> QED
  BY <1>1, <1>2, <1>3, <1>4 DEF IInv

LEMMA Invariance ==
  Spec => []IInv
BY InitInv, NextInv, PTL DEF Spec

(* Every variable stays in its type.                                       *)
THEOREM TypeCorrect == Spec => []TypeOK
<1>1. IInv => TypeOK
  BY DEF IInv, Types, ConsumerTypes, WorkerTypes, LockTypes, TableTypes, BoundTypes, TypeOK
<1> QED
  BY <1>1, Invariance, PTL

-----------------------------------------------------------------------------
(* The charges.                                                            *)

LEMMA NextCharges ==
  IInv /\ ChargeMatchesTask /\ [Next]_vars => ChargeMatchesTask'
<1> SUFFICES ASSUME IInv, ChargeMatchesTask, [Next]_vars PROVE ChargeMatchesTask'
  OBVIOUS
<1>0. ConsumerTypes /\ TableTypes /\ Fresh
  BY DEF IInv, Types
<1> USE DEF ChargeMatchesTask, NoRow, CommitConsumer, consumerVars, workerVars,
        tableVars, historyVars, boundVars
<1>1. CASE Consumer
  <2>1. CASE ConsumerStart
    BY <2>1, <1>0, Messages DEF ConsumerStart, Fresh, TableTypes, ConsumerTypes
  <2>2. CASE ConsumerCommit
    BY <2>2, <1>0, Messages DEF ConsumerCommit, Fresh, TableTypes, ConsumerTypes
  <2>3. CASE Consume \/ ConsumeWithoutId \/ InsertTask \/ InsertTaskFails
          \/ UpdateAcceptedOffset \/ UpdateAcceptedOffsetFails \/ ConvertRecord
                    \/ InsertStatus \/ AddProcessTask
          \/ AddClearTask \/ ConsumerCommitFails \/ ConsumerRollback
    BY <2>3 DEF Consume, ConsumeWithoutId, InsertTask, InsertTaskFails,
      UpdateAcceptedOffset, UpdateAcceptedOffsetFails, ConvertRecord, InsertStatus,
      AddProcessTask,
      AddClearTask, ConsumerCommitFails, ConsumerRollback, ConsumerUndo
  <2> QED
    BY <1>1, <2>1, <2>2, <2>3 DEF Consumer
<1>2. ASSUME NEW w \in Worker, Work(w) PROVE ChargeMatchesTask'
  <2>1. CASE Finish(w)
    <3>1. wpc[w] = "finish" /\ inserted = None
      BY <2>1 DEF Finish, IInv, Scanned
    <3>2. OrderOf(w) \in Order /\ task[w] \in InPool /\ task[w].kind = "process"
      BY <3>1, Working DEF IInv, Types
    <3>3. OrderOf(w) \in lost \/ status[OrderOf(w)] # NoRow
      BY <3>1, <3>2, Messages DEF IInv, Backed, HasRow, OrderOf
    <3>4. /\ status' = [status EXCEPT ![OrderOf(w)] = IF @ = NoRow THEN NoRow ELSE 1]
          /\ charged' = [charged EXCEPT ![OrderOf(w)] = charged[OrderOf(w)] + 1]
          /\ lost' = lost
      BY <2>1 DEF Finish
    <3> QED
      BY ONLY <3>2, <3>3, <3>4, <1>0, ChargeMatchesTask
         DEF ChargeMatchesTask, TableTypes, NoRow
  <2>2. CASE TakeTask(w) \/ QueryUser(w) \/ ProcessThrows(w) \/ StatementFails(w)
          \/ UpdateMoney(w) \/ UpdateTaskStatus(w) \/ FinishFails(w) \/ Rollback(w)
          \/ Clear(w)
    BY <2>2 DEF TakeTask, QueryUser, ProcessThrows, StatementFails, UpdateMoney,
      UpdateTaskStatus, FinishFails, Rollback, Clear
  <2> QED
    BY <1>2, <2>1, <2>2 DEF Work
<1>3. CASE Restart
  BY <1>3 DEF Restart
<1>4. CASE UNCHANGED vars
  BY <1>4 DEF vars
<1> QED
  BY <1>1, <1>2, <1>3, <1>4 DEF Next

(* ChargeMatchesTask for any topic: the row says 1 exactly when its order  *)
(* was charged, whoever commits first, the consumer or the process task    *)
(* (userservicemain.cpp:125-206, CUserConsumerProcessTask.cpp:29-110).     *)
THEOREM RowSaysCharged == Spec => []ChargeMatchesTask
<1>1. Init => ChargeMatchesTask
  BY DEF Init, ChargeMatchesTask, NoRow
<1>2. IInv /\ ChargeMatchesTask /\ [Next]_vars => ChargeMatchesTask'
  BY NextCharges
<1> QED
  BY <1>1, <1>2, Invariance, PTL DEF Spec

-----------------------------------------------------------------------------
(* The offset.                                                             *)

(* Every message consumed has its row, if only in the open transaction.    *)
Covered ==
  \A i \in 1..pos :
    \/ i = pos /\ cpc = "insert"
    \/ HasRow(Topic[i].order)
    \/ Topic[i].order \in TooBig

OpenOffset ==
  /\ newOffset # None =>
       newOffset = pos - 1 /\ cpc \notin {"start", "consume", "insert", "offset"}
  /\ accepted > 0 => accepted + 1 <= Len(Topic)

LEMMA NextOpenOffset ==
  ConsumerTypes /\ OpenOffset /\ [Next]_vars => OpenOffset'
<1> SUFFICES ASSUME ConsumerTypes, OpenOffset, [Next]_vars PROVE OpenOffset'
  OBVIOUS
<1> USE Messages DEF OpenOffset, ConsumerTypes, CGoto, CommitConsumer, None,
        consumerVars, workerVars, tableVars, historyVars, boundVars
<1>1. CASE Consumer
  BY <1>1 DEF Consumer, ConsumerStart, Consume, ConsumeWithoutId, InsertTask,
    InsertTaskFails, UpdateAcceptedOffset, UpdateAcceptedOffsetFails, ConvertRecord,
    InsertStatus,
    AddProcessTask, AddClearTask, ConsumerCommit, ConsumerCommitFails,
    ConsumerRollback, ConsumerUndo
<1>2. ASSUME NEW w \in Worker, Work(w) PROVE OpenOffset'
  BY <1>2 DEF Work, TakeTask, QueryUser, ProcessThrows, StatementFails, UpdateMoney,
    UpdateTaskStatus, Finish, FinishFails, Rollback, Clear
<1>3. CASE Restart
  BY <1>3 DEF Restart
<1>4. CASE UNCHANGED vars
  BY <1>4 DEF vars
<1> QED
  BY <1>1, <1>2, <1>3, <1>4 DEF Next

(* The consumer goes to the next message at the end of its loop.           *)
LoopOrder ==
  \/ Restart
  \/ cpc = "consume" /\ pos' = pos + 1 /\ cpc' = "insert"
  \/ pos' = pos /\ (cpc = "insert" => cpc' \in {"insert", "offset"})

LEMMA Progress ==
  ConsumerTypes /\ [Next]_vars => LoopOrder
<1> SUFFICES ASSUME ConsumerTypes, [Next]_vars PROVE LoopOrder
  OBVIOUS
<1> USE DEF InsertTask, InsertTaskFails
<1> USE DEF LoopOrder, ConsumerTypes, CGoto, CommitConsumer, consumerVars,
        workerVars, tableVars, historyVars, boundVars
<1>1. CASE Consumer
  <2>1. CASE InsertTask
    BY <2>1
  <2>2. CASE InsertTaskFails
    BY <2>2
  <2>3. CASE ConsumerStart \/ Consume \/ ConsumeWithoutId \/ UpdateAcceptedOffset
            \/ UpdateAcceptedOffsetFails
          \/ ConvertRecord \/ InsertStatus \/ AddProcessTask \/ AddClearTask
          \/ ConsumerCommit \/ ConsumerCommitFails \/ ConsumerRollback
    BY <2>3 DEF ConsumerStart, Consume, ConsumeWithoutId, UpdateAcceptedOffset,
      UpdateAcceptedOffsetFails,
      ConvertRecord, InsertStatus, AddProcessTask, AddClearTask, ConsumerCommit,
      ConsumerCommitFails, ConsumerRollback, ConsumerUndo
  <2> QED
    BY <1>1, <2>1, <2>2, <2>3 DEF Consumer
<1>2. ASSUME NEW w \in Worker, Work(w) PROVE LoopOrder
  BY <1>2 DEF Work, TakeTask, QueryUser, ProcessThrows, StatementFails, UpdateMoney,
    UpdateTaskStatus, Finish, FinishFails, Rollback, Clear
<1>3. CASE Restart
  BY <1>3
<1>4. CASE UNCHANGED vars
  BY <1>4 DEF vars
<1> QED
  BY <1>1, <1>2, <1>3, <1>4 DEF Next

LEMMA NextCovered ==
  IInv /\ Covered /\ [Next]_vars => Covered'
<1> SUFFICES ASSUME IInv, Covered, [Next]_vars, NEW i \in 1..pos',
                    ~(i = pos' /\ cpc' = "insert")
             PROVE  HasRow(Topic[i].order)' \/ Topic[i].order \in TooBig
  BY DEF Covered, HasRow
<1>1. ConsumerTypes /\ TableTypes /\ Fresh /\ Backed /\ Converted
  BY DEF IInv, Types
<1>2. ~Restart /\ pos \in Nat
  BY <1>1 DEF Restart, ConsumerTypes
<1>3. i \in 1..pos /\ i \in DOMAIN Topic
  BY <1>1, <1>2, Progress, Messages DEF LoopOrder, ConsumerTypes
<1>4. CASE i = pos /\ cpc = "insert"
  <2>1. cpc' = "offset" /\ pos' = pos
    BY <1>1, <1>2, <1>4, Progress DEF LoopOrder
  <2>2. HasRow(Msg.order)'
    BY <1>1, <2>1, NextBackedMessage
  <2> QED
    BY <1>4, <2>1, <2>2 DEF Msg, HasRow
<1>5. CASE ~(i = pos /\ cpc = "insert") /\ Topic[i].order \notin TooBig
  <2>1. Topic[i].order \in Order /\ HasRow(Topic[i].order)
    BY <1>3, <1>5, Messages DEF Covered
  <2>2. ~(ConsumerRollback /\ Topic[i].order = Msg.order)
    BY <1>1, <1>5 DEF Converted, ConsumerRollback
  <2> QED
    BY <1>1, <1>2, <2>1, <2>2, RowsStay DEF RowKept
<1> QED
  BY <1>4, <1>5

LEMMA CommitAccepts ==
  ASSUME IInv, Covered, OpenOffset, AcceptedMeansRecorded, CommitConsumer,
         cpc # "insert", lost' = lost
  PROVE  AcceptedMeansRecorded'
<1> SUFFICES ASSUME NEW i \in 1..accepted' + 1, accepted' > 0
             PROVE  status'[Topic[i].order] # NoRow \/ Topic[i].order \in TooBig \union lost
  BY DEF AcceptedMeansRecorded
<1> DEFINE o == Topic[i].order
<1>1. ConsumerTypes /\ TableTypes /\ Fresh
  BY DEF IInv, Types
<1>2. \A p \in Order : status[p] # NoRow \/ inserted = p => status'[p] # NoRow
  BY <1>1, Messages DEF CommitConsumer, TableTypes, ConsumerTypes, NoRow
<1>3. CASE newOffset = None
  <2>1. i \in 1..accepted + 1 /\ accepted > 0
    BY <1>3 DEF CommitConsumer
  <2>2. status[o] # NoRow \/ o \in TooBig \union lost
    BY <2>1 DEF AcceptedMeansRecorded
  <2>3. o \in Order
    BY <1>1, <2>1, Messages DEF OpenOffset, ConsumerTypes
  <2> QED
    BY <1>2, <2>2, <2>3
<1>4. CASE newOffset # None
  <2>1. i \in 1..pos
    BY <1>1, <1>4 DEF CommitConsumer, OpenOffset, ConsumerTypes
  <2>2. o \in Order
    BY <1>1, <2>1, Messages DEF ConsumerTypes
  <2>3. HasRow(o) \/ o \in TooBig
    BY <2>1 DEF Covered
  <2> QED
    BY <1>2, <2>2, <2>3 DEF HasRow
<1> QED
  BY <1>3, <1>4

LEMMA NextAccepted ==
  /\ IInv /\ Covered /\ OpenOffset /\ AcceptedMeansRecorded /\ [Next]_vars
  => AcceptedMeansRecorded'
<1> SUFFICES ASSUME IInv, Covered, OpenOffset, AcceptedMeansRecorded, [Next]_vars
    PROVE  AcceptedMeansRecorded'
  OBVIOUS
<1>0. ConsumerTypes /\ TableTypes
  BY DEF IInv, Types
<1> USE DEF AcceptedMeansRecorded, consumerVars, workerVars, tableVars, historyVars,
        boundVars
<1>1. CASE Consumer
  <2>1. CASE ConsumerStart
    BY <2>1, CommitAccepts DEF ConsumerStart
  <2>2. CASE ConsumerCommit
    BY <2>2, CommitAccepts DEF ConsumerCommit
  <2>3. CASE Consume \/ ConsumeWithoutId \/ InsertTask \/ InsertTaskFails
          \/ UpdateAcceptedOffset \/ UpdateAcceptedOffsetFails \/ ConvertRecord
                    \/ InsertStatus \/ AddProcessTask
          \/ AddClearTask \/ ConsumerCommitFails \/ ConsumerRollback
    BY <2>3 DEF Consume, ConsumeWithoutId, InsertTask, InsertTaskFails,
      UpdateAcceptedOffset, UpdateAcceptedOffsetFails, ConvertRecord, InsertStatus,
      AddProcessTask,
      AddClearTask, ConsumerCommitFails, ConsumerRollback, ConsumerUndo
  <2> QED
    BY <1>1, <2>1, <2>2, <2>3 DEF Consumer
<1>2. ASSUME NEW w \in Worker, Work(w) PROVE AcceptedMeansRecorded'
  <2>1. CASE Finish(w)
    <3>1. /\ status' = [status EXCEPT ![OrderOf(w)] = IF @ = NoRow THEN NoRow ELSE 1]
          /\ accepted' = accepted /\ lost' = lost
      BY <2>1 DEF Finish
    <3>2. \A o \in Order : status[o] # NoRow => status'[o] # NoRow
      BY ONLY <3>1, <1>0 DEF TableTypes, NoRow
    <3>3. \A i \in 1..accepted + 1 : accepted > 0 => Topic[i].order \in Order
      BY <1>0, Messages DEF OpenOffset, ConsumerTypes
    <3> QED
      BY <3>1, <3>2, <3>3
  <2>2. CASE TakeTask(w) \/ QueryUser(w) \/ ProcessThrows(w) \/ StatementFails(w)
          \/ UpdateMoney(w) \/ UpdateTaskStatus(w) \/ FinishFails(w) \/ Rollback(w)
          \/ Clear(w)
    BY <2>2 DEF TakeTask, QueryUser, ProcessThrows, StatementFails, UpdateMoney,
      UpdateTaskStatus, FinishFails, Rollback, Clear
  <2> QED
    BY <1>2, <2>1, <2>2 DEF Work
<1>3. CASE Restart
  BY <1>3 DEF Restart
<1>4. CASE UNCHANGED vars
  BY <1>4 DEF vars
<1> QED
  BY <1>1, <1>2, <1>3, <1>4 DEF Next

(* AcceptedMeansRecorded for any topic: up to the accepted offset every    *)
(* order has its row, for row and offset are committed together, also      *)
(* when the process dies in between (userservicemain.cpp:125-206).         *)
THEOREM AcceptedAreRecorded == Spec => []AcceptedMeansRecorded
<1>1. Init => Covered /\ OpenOffset /\ AcceptedMeansRecorded
  BY DEF Init, Covered, OpenOffset, AcceptedMeansRecorded
<1>2. IInv /\ Covered /\ OpenOffset /\ AcceptedMeansRecorded /\ [Next]_vars
      => Covered' /\ OpenOffset' /\ AcceptedMeansRecorded'
  BY NextCovered, NextOpenOffset, NextAccepted DEF IInv, Types
<1> QED
  BY <1>1, <1>2, Invariance, PTL DEF Spec

-----------------------------------------------------------------------------
(* How often an order is charged.                                          *)

Mine(o) == {i \in DOMAIN Topic : Topic[i].order = o}

(* The consumer has not put the task of message i into the pool yet.       *)
Unadded(i) == i > pos \/ (i = pos /\ cpc \in {"insert", "offset", "convert", "map", "add"})

(* The messages about o that may still lead to a charge in this life.      *)
Live(o) == {i \in Mine(o) : Unadded(i) \/ \E k \in InPool : k.kind = "process" /\ k.msg = i}

(* A message has one task in the pool.                                     *)
Same(j, k) == j.kind = "process" /\ k.kind = "process" /\ j.msg = k.msg

AddedTasks == \A k \in InPool : k.kind = "process" => k.msg \in Int /\ ~Unadded(k.msg)

OneTask ==
  /\ \A i, j \in 1..Len(queue) : Same(queue[i], queue[j]) => i = j
  /\ \A i \in 1..Len(queue), w \in Worker : ~Same(queue[i], task[w])
  /\ \A v, w \in Worker : Same(task[v], task[w]) => v = w

Counted ==
  \A o \in Order :
    charged[o] + Cardinality(Live(o)) <= (restarts + 1) * Cardinality(Mine(o))

LEMMA MineIsFinite ==
  ASSUME NEW o \in Order
  PROVE  /\ Cardinality(Mine(o)) \in Nat
         /\ \A S : S \subseteq Mine(o) =>
              IsFiniteSet(S) /\ Cardinality(S) \in Nat /\ Cardinality(S) <= Cardinality(Mine(o))
<1>1. IsFiniteSet(1..Len(Topic))
  BY Messages, FS_Interval
<1>2. Mine(o) \subseteq 1..Len(Topic)
  BY Messages DEF Mine
<1>3. IsFiniteSet(Mine(o))
  BY <1>1, <1>2, FS_Subset
<1> QED
  BY <1>3, FS_Subset, FS_CardinalityType

(* The ways a step changes the pool.                                       *)
PoolChange ==
  \/ AddProcessTask \/ AddClearTask \/ Restart
  \/ \E w \in Worker : Pool!Start(w) \/ Pool!Finish(w)
  \/ UNCHANGED <<queue, task>>

LEMMA PoolChanges ==
  [Next]_vars => PoolChange
<1> SUFFICES ASSUME [Next]_vars PROVE PoolChange
  OBVIOUS
<1> USE DEF PoolChange, workerVars
<1>1. CASE Consumer
  BY <1>1 DEF Consumer, ConsumerStart, Consume, ConsumeWithoutId, InsertTask,
     InsertTaskFails, UpdateAcceptedOffset, UpdateAcceptedOffsetFails, ConvertRecord,
     InsertStatus, ConsumerCommit,
     ConsumerCommitFails, ConsumerRollback, ConsumerUndo
<1>2. ASSUME NEW w \in Worker, Work(w) PROVE PoolChange
  <2>1. CASE Finish(w) \/ FinishFails(w) \/ Rollback(w)
    BY <2>1 DEF Finish, FinishFails, Rollback, Unlock
  <2>2. CASE TakeTask(w) \/ Clear(w)
    BY <2>2 DEF TakeTask, Clear
  <2>3. CASE QueryUser(w) \/ ProcessThrows(w) \/ StatementFails(w) \/ UpdateMoney(w)
             \/ UpdateTaskStatus(w)
    BY <2>3 DEF QueryUser, ProcessThrows, StatementFails, UpdateMoney, UpdateTaskStatus
  <2> QED
    BY <1>2, <2>1, <2>2, <2>3 DEF Work
<1>3. CASE Restart
  BY <1>3
<1>4. CASE UNCHANGED vars
  BY <1>4 DEF vars
<1> QED
  BY <1>1, <1>2, <1>3, <1>4 DEF Next

LEMMA AddedLast ==
  ASSUME WorkerTypes, NEW k \in Task, Pool!Add(k)
  PROVE  /\ task' = task /\ Len(queue) \in Nat /\ Len(queue') = Len(queue) + 1
         /\ \A i \in 1..Len(queue) : queue'[i] = queue[i]
         /\ queue'[Len(queue) + 1] = k
<1>1. queue' = Append(queue, k) /\ task' = task /\ queue \in Seq(Task)
  BY DEF Pool!Add, WorkerTypes
<1> QED
  BY ONLY <1>1, k \in Task

LEMMA TakenFirst ==
  ASSUME WorkerTypes, NEW w \in Worker, Pool!Start(w)
  PROVE  /\ Len(queue) \in Nat /\ Len(queue) > 0 /\ Len(queue') = Len(queue) - 1
         /\ \A i \in 1..Len(queue') : queue'[i] = queue[i + 1]
         /\ task' = [task EXCEPT ![w] = queue[1]]
<1>1. queue # <<>> /\ queue' = Tail(queue) /\ task' = [task EXCEPT ![w] = Head(queue)]
  BY DEF Pool!Start
<1>2. queue \in Seq(Task)
  BY DEF WorkerTypes
<1>3. Head(queue) = queue[1]
  BY ONLY <1>1, <1>2
<1> QED
  BY ONLY <1>1, <1>2, <1>3

(* The consumer never goes back, unless the process is started again.      *)
LEMMA Unadds ==
  ConsumerTypes /\ [Next]_vars => Restart \/ \A i \in Int : Unadded(i)' => Unadded(i)
<1> SUFFICES ASSUME ConsumerTypes, [Next]_vars
             PROVE  Restart \/ \A i \in Int : Unadded(i)' => Unadded(i)
  OBVIOUS
<1> USE DEF Unadded, ConsumerTypes, CGoto, consumerVars
<1>1. CASE Consumer
  <2>1. CASE Consume \/ ConsumeWithoutId
    BY <2>1 DEF Consume, ConsumeWithoutId
  <2>2. CASE InsertTask \/ InsertTaskFails \/ UpdateAcceptedOffset
            \/ UpdateAcceptedOffsetFails \/ ConvertRecord
             \/ InsertStatus \/ AddProcessTask \/ AddClearTask
    BY <2>2 DEF InsertTask, InsertTaskFails, UpdateAcceptedOffset,
      UpdateAcceptedOffsetFails, ConvertRecord,
       InsertStatus, AddProcessTask, AddClearTask
  <2>3. CASE ConsumerStart \/ ConsumerCommit \/ ConsumerCommitFails \/ ConsumerRollback
    BY <2>3 DEF ConsumerStart, ConsumerCommit, ConsumerCommitFails, ConsumerRollback,
       ConsumerUndo
  <2> QED
    BY <1>1, <2>1, <2>2, <2>3 DEF Consumer
<1>2. ASSUME NEW w \in Worker, Work(w) PROVE UNCHANGED <<pos, cpc>>
  BY <1>2 DEF Work, TakeTask, QueryUser, ProcessThrows, StatementFails, UpdateMoney,
     UpdateTaskStatus, Finish, FinishFails, Rollback, Clear
<1>3. CASE UNCHANGED vars
  BY <1>3 DEF vars
<1> QED
  BY <1>1, <1>2, <1>3 DEF Next

LEMMA NextAddedTasks ==
  ConsumerTypes /\ WorkerTypes /\ LockTypes /\ AddedTasks /\ [Next]_vars => AddedTasks'
<1> SUFFICES ASSUME ConsumerTypes, WorkerTypes, LockTypes, AddedTasks, [Next]_vars,
                    NEW k \in InPool', k.kind = "process"
             PROVE  k.msg \in Int /\ ~Unadded(k.msg)'
  BY DEF AddedTasks
<1>1. ~Restart
  BY Emptied DEF Idle
<1>2. CASE k \in InPool
  BY <1>1, <1>2, Unadds DEF AddedTasks
<1>3. CASE AddProcessTask /\ k.msg = pos
  BY <1>3 DEF AddProcessTask, CGoto, Unadded, ConsumerTypes
<1> QED
  BY <1>2, <1>3, PoolStep DEF FromPool

LEMMA NextOneTask ==
  ConsumerTypes /\ WorkerTypes /\ AddedTasks /\ OneTask /\ [Next]_vars => OneTask'
<1> SUFFICES ASSUME ConsumerTypes, WorkerTypes, AddedTasks, OneTask, PoolChange
             PROVE  OneTask'
  BY PoolChanges
<1>1. ASSUME NEW k \in Task, Pool!Add(k), \A j \in InPool : ~Same(j, k)
      PROVE  OneTask'
  <2>1. /\ \A i \in 1..Len(queue) : ~Same(queue[i], k) /\ ~Same(k, queue[i])
        /\ \A w \in Worker : ~Same(k, task[w])
    BY <1>1 DEF InPool, Same
  <2>2. /\ task' = task /\ Len(queue) \in Nat /\ Len(queue') = Len(queue) + 1
        /\ \A i \in 1..Len(queue) : queue'[i] = queue[i]
        /\ queue'[Len(queue) + 1] = k
    BY <1>1, AddedLast
  <2> HIDE DEF Same
  <2> QED
    BY <2>1, <2>2 DEF OneTask
<1>2. CASE AddProcessTask
  <2> DEFINE k == [kind |-> "process", id |-> taskId, msg |-> pos]
  <2>1. k \in Task /\ Pool!Add(k) /\ k.msg = pos /\ Unadded(pos)
    BY <1>2, Messages DEF AddProcessTask, Task, ConsumerTypes, None, Unadded
  <2>2. \A j \in InPool : ~Same(j, k)
    BY <2>1 DEF AddedTasks, Same
  <2> QED
    BY <1>1, <2>1, <2>2
<1>3. CASE AddClearTask
  <2> DEFINE k == [kind |-> "clear", id |-> None, msg |-> 0]
  <2>1. k \in Task /\ Pool!Add(k) /\ k.kind = "clear"
    BY <1>3, Messages DEF AddClearTask, Task, None
  <2>2. \A j \in InPool : ~Same(j, k)
    BY <2>1 DEF Same
  <2> QED
    BY <1>1, <2>1, <2>2
<1>4. CASE Restart
  <2>1. Len(queue') = 0 /\ \A w \in Worker : task'[w] = Idle
    BY <1>4 DEF Restart
  <2> QED
    BY <2>1 DEF OneTask, Same, Idle
<1>5. ASSUME NEW w \in Worker, Pool!Start(w) PROVE OneTask'
  <2>1. /\ Len(queue) \in Nat /\ Len(queue) > 0 /\ Len(queue') = Len(queue) - 1
        /\ \A i \in 1..Len(queue') : queue'[i] = queue[i + 1]
        /\ task' = [task EXCEPT ![w] = queue[1]]
    BY <1>5, TakenFirst
  <2>2. \A v \in Worker : v # w => task'[v] = task[v]
    BY <2>1 DEF WorkerTypes
  <2>3. task'[w] = queue[1]
    BY <2>1 DEF WorkerTypes
  <2>4. \A i, j \in 1..Len(queue') : Same(queue'[i], queue'[j]) => i = j
    BY <2>1 DEF OneTask
  <2>5. \A i \in 1..Len(queue'), v \in Worker : ~Same(queue'[i], task'[v])
    <3> SUFFICES ASSUME NEW i \in 1..Len(queue'), NEW v \in Worker
                 PROVE  ~Same(queue'[i], task'[v])
      OBVIOUS
    <3>1. i + 1 \in 1..Len(queue) /\ i + 1 # 1 /\ 1 \in 1..Len(queue) /\ queue'[i] = queue[i + 1]
      BY <2>1
    <3>2. CASE v = w
      BY <2>3, <3>1, <3>2 DEF OneTask
    <3>3. CASE v # w
      BY <2>2, <3>1, <3>3 DEF OneTask
    <3> QED
      BY <3>2, <3>3
  <2>6. \A u, v \in Worker : Same(task'[u], task'[v]) => u = v
    <3>1. 1 \in 1..Len(queue)
      BY <2>1
    <3>2. \A v \in Worker : ~Same(queue[1], task[v]) /\ ~Same(task[v], queue[1])
      BY <3>1 DEF OneTask, Same
    <3> QED
      BY <2>2, <2>3, <3>2 DEF OneTask
  <2> QED
    BY <2>4, <2>5, <2>6 DEF OneTask
<1>6. ASSUME NEW w \in Worker, Pool!Finish(w) PROVE OneTask'
  <2>1. /\ queue' = queue
        /\ \A v \in Worker : task'[v] = task[v] \/ task'[v].kind # "process"
    BY <1>6, Ended DEF WorkerTypes, Idle
  <2> QED
    BY <2>1 DEF OneTask, Same
<1>7. CASE UNCHANGED <<queue, task>>
  BY <1>7 DEF OneTask
<1> QED
  BY <1>2, <1>3, <1>4, <1>5, <1>6, <1>7 DEF PoolChange

(* A message that is done with stays so, until the process is started      *)
(* again.                                                                  *)
LEMMA LiveShrinks ==
  ASSUME ConsumerTypes, WorkerTypes, LockTypes, [Next]_vars, ~Restart, NEW o \in Order
  PROVE  Live(o)' \subseteq Live(o)
<1> SUFFICES ASSUME NEW i \in Mine(o), i \in Live(o)' PROVE i \in Live(o)
  BY DEF Live, Mine
<1>1. i \in Int
  BY Messages DEF Mine
<1>2. CASE Unadded(i)'
  BY <1>1, <1>2, Unadds DEF Live
<1>3. ASSUME NEW k \in InPool', k.kind = "process", k.msg = i PROVE i \in Live(o)
  <2>1. CASE k \in InPool
    BY <1>3, <2>1 DEF Live
  <2>2. CASE AddProcessTask /\ i = pos
    BY <2>2 DEF AddProcessTask, Live, Unadded
  <2> QED
    BY <1>3, <2>1, <2>2, PoolStep DEF FromPool
<1> QED
  BY <1>2, <1>3 DEF Live

(* A charge is the end of its message.                                     *)
LEMMA ChargeEnds ==
  ASSUME ConsumerTypes, WorkerTypes, LockTypes, TaskMessages, WorkerTasks, AddedTasks,
         OneTask, NEW w \in Worker, Finish(w), NEW o \in Order, o = OrderOf(w)
  PROVE  task[w].msg \in Live(o) /\ task[w].msg \notin Live(o)'
<1>1. /\ task[w] \in InPool /\ task[w].kind = "process"
      /\ task[w].msg \in DOMAIN Topic
  BY Working DEF Finish
<1>2. task[w].msg \in Live(o)
  BY <1>1 DEF Live, Mine, OrderOf
<1>3. UNCHANGED <<pos, cpc>> /\ queue' = queue /\ task' = [task EXCEPT ![w] = Idle]
  BY Unlocked, Ended DEF Finish, consumerVars
<1>4. PICK m : m = task[w].msg
  OBVIOUS
<1>5. ~Unadded(m)'
  BY <1>1, <1>3, <1>4 DEF AddedTasks, Unadded
<1>6. \A k \in InPool' : ~(k.kind = "process" /\ k.msg = m)
  <2>1. \A i \in 1..Len(queue') : ~Same(queue'[i], task[w])
    BY <1>3 DEF OneTask
  <2>2. \A v \in Worker : ~Same(task'[v], task[w])
    BY <1>3 DEF OneTask, Same, Idle, WorkerTypes
  <2> QED
    BY <1>1, <1>4, <2>1, <2>2 DEF InPool, Same
<1>7. m \notin Live(o)'
  BY <1>5, <1>6 DEF Live
<1> QED
  BY <1>2, <1>4, <1>7

LEMMA NextCounted ==
  /\ Types /\ TaskMessages /\ WorkerTasks /\ AddedTasks /\ OneTask /\ Counted
  /\ [Next]_vars
  => Counted'
<1> SUFFICES ASSUME Types, TaskMessages, WorkerTasks, AddedTasks, OneTask, Counted,
                    [Next]_vars, NEW o \in Order
             PROVE  charged'[o] + Cardinality(Live(o)')
                      <= (restarts' + 1) * Cardinality(Mine(o))
  BY DEF Counted
<1> DEFINE N == Cardinality(Mine(o))
           L == Cardinality(Live(o))
           M == Cardinality(Live(o)')
<1>1. N \in Nat /\ L \in Nat /\ M \in Nat /\ M <= N
  BY MineIsFinite DEF Live
<1>2. charged[o] \in Nat /\ restarts \in Nat /\ charged[o] + L <= (restarts + 1) * N
  BY DEF Counted, Types, TableTypes, BoundTypes
<1>3. CASE Restart
  <2>1. charged' = charged /\ restarts' = restarts + 1
    BY <1>3 DEF Restart, historyVars
  <2> HIDE DEF N, L, M
  <2>2. (restarts + 1 + 1) * N = (restarts + 1) * N + N /\ (restarts + 1) * N \in Int
    BY <1>1, <1>2
  <2> QED
    BY <1>1, <1>2, <2>1, <2>2 DEF N, M
<1>4. CASE ~Restart
  <2>1. restarts' = restarts
    <3> USE DEF boundVars, Fault
    <3>1. CASE Consumer
      BY <3>1 DEF Consumer, ConsumerStart, Consume, ConsumeWithoutId, InsertTask,
         InsertTaskFails, UpdateAcceptedOffset, UpdateAcceptedOffsetFails, ConvertRecord,
         InsertStatus,
         AddProcessTask, AddClearTask, ConsumerCommit, ConsumerCommitFails,
         ConsumerRollback, ConsumerUndo
    <3>2. ASSUME NEW w \in Worker, Work(w) PROVE restarts' = restarts
      BY <3>2 DEF Work, TakeTask, QueryUser, ProcessThrows, StatementFails, UpdateMoney,
         UpdateTaskStatus, Finish, FinishFails, Rollback, Clear
    <3> QED
      BY <1>4, <3>1, <3>2 DEF Next, vars
  <2>2. Live(o)' \subseteq Live(o)
    BY <1>4, LiveShrinks DEF Types
  <2>3. IsFiniteSet(Live(o))
    BY MineIsFinite DEF Live
  <2>4. M <= L
    BY <2>2, <2>3, FS_Subset
  <2>5. CASE charged' = charged
    <3> HIDE DEF N, L, M
    <3>1. charged[o] + M <= (restarts + 1) * N
      <4>1. (restarts + 1) * N \in Int
        BY <1>1, <1>2
      <4> QED
        BY <1>1, <1>2, <2>4, <4>1
    <3> QED
      BY <2>1, <2>5, <3>1 DEF N, M
  <2>6. ASSUME NEW w \in Worker, Finish(w) PROVE charged'[o] + M <= (restarts' + 1) * N
    <3>1. CASE o = OrderOf(w)
      <4>1. task[w].msg \in Live(o) /\ task[w].msg \notin Live(o)'
        BY <2>6, <3>1, ChargeEnds DEF Types
      <4>2. M <= L - 1
        <5>1. Live(o)' \subseteq Live(o) \ {task[w].msg}
          BY <2>2, <4>1
        <5>2. IsFiniteSet(Live(o) \ {task[w].msg})
              /\ Cardinality(Live(o) \ {task[w].msg}) = L - 1
          BY <2>3, <4>1, FS_RemoveElement
        <5> QED
          BY <5>1, <5>2, FS_Subset
      <4>3. charged'[o] = charged[o] + 1
        BY <2>6, <3>1 DEF Finish, Types, TableTypes
      <4> HIDE DEF N, L, M
      <4>4. (restarts + 1) * N \in Int
        BY <1>1, <1>2
      <4> QED
        BY <1>1, <1>2, <2>1, <4>2, <4>3, <4>4
    <3>2. CASE o # OrderOf(w)
      <4>1. charged'[o] = charged[o]
        BY <2>6, <3>2 DEF Finish, Types, TableTypes
      <4> HIDE DEF N, L, M
      <4>2. (restarts + 1) * N \in Int
        BY <1>1, <1>2
      <4> QED
        BY <1>1, <1>2, <2>1, <2>4, <4>1, <4>2
    <3> QED
      BY <3>1, <3>2
  <2>7. charged' = charged \/ \E w \in Worker : Finish(w)
    <3> USE DEF historyVars
    <3>1. CASE Consumer
      BY <3>1 DEF Consumer, ConsumerStart, Consume, ConsumeWithoutId, InsertTask,
         InsertTaskFails, UpdateAcceptedOffset, UpdateAcceptedOffsetFails, ConvertRecord,
         InsertStatus,
         AddProcessTask, AddClearTask, ConsumerCommit, ConsumerCommitFails,
         ConsumerRollback, ConsumerUndo
    <3>2. ASSUME NEW w \in Worker, Work(w), ~Finish(w) PROVE charged' = charged
      BY <3>2 DEF Work, TakeTask, QueryUser, ProcessThrows, StatementFails, UpdateMoney,
         UpdateTaskStatus, FinishFails, Rollback, Clear
    <3> QED
      BY <1>4, <3>1, <3>2 DEF Next, vars
  <2> QED
    BY <2>5, <2>6, <2>7
<1> QED
  BY <1>3, <1>4

(* ChargedOncePerDelivery for any topic: a message is charged once in each *)
(* life of the process, because it has one task in the pool and a charge   *)
(* ends that task (CUserConsumerProcessTask.cpp:100-110).                  *)
THEOREM ChargedOnce == Spec => []ChargedOncePerDelivery
<1>1. Init => AddedTasks /\ OneTask /\ Counted
  <2> SUFFICES ASSUME Init PROVE AddedTasks /\ OneTask /\ Counted
    OBVIOUS
  <2>1. Len(queue) = 0 /\ \A w \in Worker : task[w].kind # "process"
    BY DEF Init, Idle
  <2>2. AddedTasks
    BY <2>1 DEF AddedTasks, InPool
  <2>3. OneTask
    BY <2>1 DEF OneTask, Same
  <2>4. Counted
    <3> SUFFICES ASSUME NEW o \in Order
                 PROVE  charged[o] + Cardinality(Live(o))
                          <= (restarts + 1) * Cardinality(Mine(o))
      BY DEF Counted
    <3>1. Cardinality(Live(o)) <= Cardinality(Mine(o)) /\ Cardinality(Live(o)) \in Nat
          /\ Cardinality(Mine(o)) \in Nat
      BY MineIsFinite DEF Live
    <3>2. charged[o] = 0 /\ restarts = 0
      BY DEF Init
    <3> QED
      BY ONLY <3>1, <3>2
  <2> QED
    BY <2>2, <2>3, <2>4
<1>2. IInv /\ AddedTasks /\ OneTask /\ Counted /\ [Next]_vars
      => AddedTasks' /\ OneTask' /\ Counted'
  BY NextAddedTasks, NextOneTask, NextCounted DEF IInv, Types
<1>3. IInv /\ Counted => ChargedOncePerDelivery
  <2> SUFFICES ASSUME IInv, Counted, NEW o \in Order
               PROVE  charged[o] <= (restarts + 1) * Cardinality(Mine(o))
    BY DEF ChargedOncePerDelivery, Mine
  <2>1. Cardinality(Live(o)) \in Nat /\ Cardinality(Mine(o)) \in Nat
    BY MineIsFinite DEF Live
  <2>2. charged[o] \in Nat /\ restarts \in Nat
    BY DEF IInv, Types, TableTypes, BoundTypes
  <2>3. (restarts + 1) * Cardinality(Mine(o)) \in Nat
    BY <2>1, <2>2
  <2> QED
    BY <2>1, <2>2, <2>3 DEF Counted
<1> QED
  BY <1>1, <1>2, <1>3, Invariance, PTL DEF Spec

-----------------------------------------------------------------------------
(* The books.                                                              *)

LEMMA InitRefines ==
  Init => Books!Init
BY DEF Init, Books!Init

LEMMA CommitRefines ==
  ASSUME IInv, CommitConsumer, charged' = charged
  PROVE  [Books!Next]_<<money, status, charged>>
<1>1. ConsumerTypes /\ Fresh
  BY DEF IInv, Types
<1>2. CASE inserted = None
  BY <1>2 DEF CommitConsumer
<1>3. CASE inserted # None
  <2>1. inserted \in Order /\ status[inserted] = NoRow
    BY <1>1, <1>3 DEF ConsumerTypes, Fresh
  <2>2. Books!Record(inserted)
    BY <1>3, <2>1 DEF CommitConsumer, Books!Record
  <2> QED
    BY <2>1, <2>2 DEF Books!Next
<1> QED
  BY <1>2, <1>3

LEMMA FinishRefines ==
  ASSUME OneMessage, IInv, NEW w \in Worker, Finish(w)
  PROVE  Books!Next
<1> DEFINE o == OrderOf(w)
<1>1. wpc[w] = "finish"
  BY DEF Finish
<1>2. o \in Order /\ task[w].msg \in DOMAIN Topic
  BY <1>1, Working DEF IInv, Types
<1>3. Topic[MsgOf(o)].user = UserOf(w) /\ Topic[MsgOf(o)].money = Topic[task[w].msg].money
  BY <1>2, TheMessage DEF OrderOf, UserOf
<1>4. UserOf(w) \in KnownUser /\ userMoney[w] = money[UserOf(w)] - Topic[task[w].msg].money
  BY <1>1 DEF IInv, Balances
<1>5. Books!Charge(o)
  BY <1>2, <1>3, <1>4 DEF Finish, Books!Charge
<1> QED
  BY <1>2, <1>5 DEF Books!Next

LEMMA StepRefines ==
  ASSUME OneMessage
  PROVE  IInv /\ [Next]_vars => [Books!Next]_<<money, status, charged>>
<1> SUFFICES ASSUME IInv, [Next]_vars PROVE [Books!Next]_<<money, status, charged>>
  OBVIOUS
<1>1. CASE ConsumerStart \/ ConsumerCommit
  BY <1>1, CommitRefines DEF ConsumerStart, ConsumerCommit, historyVars
<1>2. CASE \E w \in Worker : Finish(w)
  BY <1>2, FinishRefines
<1>3. CASE UNCHANGED <<money, status, charged>>
  BY <1>3
<1>4. ASSUME ~(ConsumerStart \/ ConsumerCommit), ~\E w \in Worker : Finish(w)
      PROVE  UNCHANGED <<money, status, charged>>
  <2> USE DEF tableVars, historyVars
  <2>1. CASE Consumer
    BY <1>4, <2>1 DEF Consumer, ConsumerUndo,
       Consume, ConsumeWithoutId, InsertTask, InsertTaskFails, UpdateAcceptedOffset,
       UpdateAcceptedOffsetFails,
       ConvertRecord, InsertStatus, AddProcessTask, AddClearTask,
       ConsumerCommitFails, ConsumerRollback
  <2>2. ASSUME NEW w \in Worker, Work(w) PROVE UNCHANGED <<money, status, charged>>
    BY <1>4, <2>2 DEF Work,
       TakeTask, QueryUser, ProcessThrows, StatementFails, UpdateMoney, UpdateTaskStatus,
       FinishFails, Rollback, Clear
  <2>3. CASE Restart
    BY <2>3 DEF Restart
  <2>4. CASE UNCHANGED vars
    BY <2>4 DEF vars
  <2> QED
    BY <2>1, <2>2, <2>3, <2>4 DEF Next
<1> QED
  BY <1>1, <1>2, <1>3, <1>4

(* Whatever the process does, fails at or dies in, the database keeps the  *)
(* books of Ledger: a balance computed from what was read statements       *)
(* earlier takes off exactly the price, with the mark in the row, or       *)
(* nothing happens (CUserConsumerProcessTask.cpp:29-110), provided that    *)
(* two messages about the same order say the same.                         *)
THEOREM ServiceImplementsLedger ==
  ASSUME OneMessage
  PROVE  Spec => ImplementsLedger
<1>1. Init => Books!Init
  BY InitRefines
<1>2. IInv /\ [Next]_vars => [Books!Next]_<<money, status, charged>>
  BY StepRefines
<1> QED
  BY <1>1, <1>2, Invariance, PTL DEF Spec, ImplementsLedger, Books!Spec
=============================================================================
