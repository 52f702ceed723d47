----------------------------- MODULE UserService -----------------------------
(***************************************************************************)
(* The user service.  consumer() reads the order messages from Kafka and,  *)
(* in one transaction on a connection it never gives back, records a task  *)
(* row and the offset; inside that transaction it hands a                  *)
(* CUserConsumerProcessTask and a CClearProcessedTaskStatus to the thread  *)
(* pool.  The process task charges the user in a transaction of its own.   *)
(*                                                                         *)
(* MySQL (InnoDB, REPEATABLE READ, autocommit off) is modelled by its      *)
(* locks, which all last until commit or rollback:                         *)
(*   - "for update" on user locks the row of that user;                    *)
(*   - user_product_relation and user_message_queue_task have no index on  *)
(*     what the statements select by, so "for update" and "update" lock    *)
(*     every row and every gap: whoever did holds the whole table, and     *)
(*     waits for rows that others inserted and have not committed.         *)
(* The pool is the one TaskQueue promises and ThreadPool shows.            *)
(***************************************************************************)
EXTENDS Integers, Sequences, FiniteSets

CONSTANTS
  Worker,      \* the threads of consumerThreadPool
  User,        \* the users named in the messages
  KnownUser,   \* those that are rows of table user
  Buyer,       \* those with a row in user_product_relation
  Topic,       \* the messages: a sequence of [order, user, money]
  TooBig,      \* the orders whose number does not fit in an int
  InitMoney,   \* what every user has at first
  MaxFaults,   \* bound: statements and commits that fail
  MaxRestarts, \* bound: how often the process dies and is started again
  Nobody       \* no worker

Order == {Topic[i].order : i \in DOMAIN Topic}

ASSUME UserAssumption ==
  /\ Topic \in Seq([order : Nat, user : User, money : Nat])
  /\ KnownUser \subseteq User
  /\ Buyer \subseteq User
  /\ TooBig \subseteq Nat
  /\ InitMoney \in Int
  /\ MaxFaults \in Nat
  /\ MaxRestarts \in Nat
  /\ Nobody \notin Worker

VARIABLES
  cpc,        \* where consumer() is in its loop
  pos,        \* how many messages it has consumed since it was started
  taskId,     \* umsgTaskId of the last one
  lastId,     \* the Redis counter of user_message_queue_task_id
  inserted,   \* its open transaction: the order of the task row inserted
  newOffset,  \* its open transaction: the accepted offset
  queue,      \* the tasks in the pool
  statusMap,  \* m_mapTaskStatus: from the numbers in it to a status
  wpc,        \* where each worker is
  task,       \* task[w]: what it works on
  userMoney,  \* userMoney[w]: the balance it has read, then the new one
  userLock,   \* userLock[u]: the worker whose transaction locks row u
  relationLock, taskLock, \* the worker whose transaction holds the table
  money,      \* committed: user.money
  status,     \* committed: the status of each order's task row, or NoRow
  accepted,   \* committed: accepted_offset
  charged,    \* history: how often each order was charged
  lost,       \* history: the orders a failure of the database was ignored for
  faults, restarts

consumerVars == <<cpc, pos, taskId, lastId, inserted, newOffset>>
workerVars == <<wpc, task, userMoney, userLock, relationLock, taskLock>>
tableVars == <<money, status, accepted>>
historyVars == <<charged, lost>>
boundVars == <<faults, restarts>>
vars == <<consumerVars, queue, statusMap, workerVars, tableVars, historyVars, boundVars>>

NoRow == -1
None == -1
Idle == [kind |-> "none", id |-> None, msg |-> 0]
Task == [kind : {"process", "clear"}, id : Int, msg : 0..Len(Topic)]

Pool == INSTANCE TaskQueue WITH busy <- task, closed <- FALSE, NoTask <- Idle

ConsumerLocation ==
  {"start", "consume", "insert", "offset", "convert", "map", "add", "addclear",
   "commit", "rollback"}
WorkerLocation ==
  {"idle", "query", "business", "status", "finish", "rollback", "clear"}

CGoto(l) == cpc' = l
Goto(w, l) == wpc' = [wpc EXCEPT ![w] = l]
Msg == Topic[pos]
UserOf(w) == Topic[task[w].msg].user
OrderOf(w) == Topic[task[w].msg].order
Fault == faults < MaxFaults /\ faults' = faults + 1 /\ UNCHANGED restarts

Init ==
  /\ cpc = "start"
  /\ pos = 0
  /\ taskId = 0
  /\ lastId = 0
  /\ inserted = None
  /\ newOffset = None
  /\ queue = <<>>
  /\ statusMap = [k \in {} |-> 0]
  /\ wpc = [w \in Worker |-> "idle"]
  /\ task = [w \in Worker |-> Idle]
  /\ userMoney = [w \in Worker |-> 0]
  /\ userLock = [u \in KnownUser |-> Nobody]
  /\ relationLock = Nobody
  /\ taskLock = Nobody
  /\ money = [u \in KnownUser |-> InitMoney]
  /\ status = [o \in Order |-> NoRow]
  /\ accepted = 0
  /\ charged = [o \in Order |-> 0]
  /\ lost = {}
  /\ faults = 0
  /\ restarts = 0

(***************************************************************************)
(* The consumer.                                                           *)
(***************************************************************************)
CommitConsumer ==
  /\ status' = IF inserted = None THEN status
               ELSE [status EXCEPT ![inserted] = 0]
  /\ accepted' = IF newOffset = None THEN accepted ELSE newOffset
  /\ inserted' = None
  /\ newOffset' = None
  /\ UNCHANGED money

(* TransationStart is mysql_commit.                                        *)
ConsumerStart ==
  /\ cpc = "start"
  /\ CommitConsumer
  /\ CGoto("consume")
  /\ UNCHANGED <<pos, taskId, lastId, queue, statusMap, workerVars, historyVars, boundVars>>

(* consume returns the next message, and getId numbers its task.           *)
Consume ==
  /\ cpc = "consume"
  /\ pos < Len(Topic)
  /\ pos' = pos + 1
  /\ lastId' = lastId + 1
  /\ taskId' = lastId + 1
  /\ CGoto("insert")
  /\ UNCHANGED <<inserted, newOffset, queue, statusMap, workerVars, tableVars,
                 historyVars, boundVars>>

(* INCR fails: getId returns 0, and the task has that number.              *)
ConsumeWithoutId ==
  /\ cpc = "consume"
  /\ pos < Len(Topic)
  /\ Fault
  /\ pos' = pos + 1
  /\ taskId' = 0
  /\ CGoto("insert")
  /\ UNCHANGED <<lastId, inserted, newOffset, queue, statusMap, workerVars, tableVars,
                 historyVars>>

(* Mutant: the row replaces the one that is there.                         *)
InsertTaskReplaces ==
  /\ cpc = "insert"
  /\ taskLock = Nobody
  /\ inserted' = Msg.order
  /\ CGoto("offset")
  /\ UNCHANGED <<pos, taskId, lastId, newOffset, queue, statusMap, workerVars, tableVars,
                 historyVars, boundVars>>

(* The task row's key is the ORDER id (CTUserMessageQueueTask.cpp:44): the *)
(* insert fails when the order has a row already, and the result is not    *)
(* looked at.                                                              *)
InsertTask ==
  /\ cpc = "insert"
  /\ taskLock = Nobody
  /\ inserted' = IF status[Msg.order] = NoRow THEN Msg.order ELSE None
  /\ CGoto("offset")
  /\ UNCHANGED <<pos, taskId, lastId, newOffset, queue, statusMap, workerVars, tableVars,
                 historyVars, boundVars>>

(* The insert fails for another reason, or waits too long for the table.   *)
InsertTaskFails ==
  /\ cpc = "insert"
  /\ Fault
  /\ lost' = lost \union {Msg.order}
  /\ CGoto("offset")
  /\ UNCHANGED <<pos, taskId, lastId, inserted, newOffset, queue, statusMap, workerVars,
                 tableVars, charged>>

(* Mutant: the offset is committed at once, apart from the row.            *)
UpdateAcceptedOffsetAtOnce ==
  /\ cpc = "offset"
  /\ accepted' = pos - 1
  /\ CGoto("convert")
  /\ UNCHANGED <<pos, taskId, lastId, inserted, newOffset, queue, statusMap, workerVars,
                 money, status, historyVars, boundVars>>

UpdateAcceptedOffset ==
  /\ cpc = "offset"
  /\ newOffset' = pos - 1
  /\ CGoto("convert")
  /\ UNCHANGED <<pos, taskId, lastId, inserted, queue, statusMap, workerVars, tableVars,
                 historyVars, boundVars>>

(* The update fails, nobody notices, and the row is committed without it.  *)
UpdateAcceptedOffsetFails ==
  /\ cpc = "offset"
  /\ Fault
  /\ CGoto("convert")
  /\ UNCHANGED <<pos, taskId, lastId, inserted, newOffset, queue, statusMap, workerVars,
                 tableVars, historyVars>>

(* stoi throws for a number that does not fit.                             *)
ConvertRecord ==
  /\ cpc = "convert"
  /\ CGoto(IF Msg.order \in TooBig THEN "rollback" ELSE "map")
  /\ UNCHANGED <<pos, taskId, lastId, inserted, newOffset, queue, statusMap, workerVars,
                 tableVars, historyVars, boundVars>>

(* map::insert keeps the entry that is there.                              *)
InsertStatus ==
  /\ cpc = "map"
  /\ statusMap' = IF Msg.order \in DOMAIN statusMap THEN statusMap
                  ELSE [k \in DOMAIN statusMap \union {Msg.order} |->
                          IF k = Msg.order THEN 0 ELSE statusMap[k]]
  /\ CGoto("add")
  /\ UNCHANGED <<pos, taskId, lastId, inserted, newOffset, queue, workerVars, tableVars,
                 historyVars, boundVars>>

AddProcessTask ==
  /\ cpc = "add"
  /\ Pool!Add([kind |-> "process", id |-> taskId, msg |-> pos])
  /\ CGoto("addclear")
  /\ UNCHANGED <<pos, taskId, lastId, inserted, newOffset, statusMap, workerVars, tableVars,
                 historyVars, boundVars>>

AddClearTask ==
  /\ cpc = "addclear"
  /\ Pool!Add([kind |-> "clear", id |-> None, msg |-> 0])
  /\ CGoto("commit")
  /\ UNCHANGED <<pos, taskId, lastId, inserted, newOffset, statusMap, workerVars, tableVars,
                 historyVars, boundVars>>

ConsumerCommit ==
  /\ cpc = "commit"
  /\ CommitConsumer
  /\ CGoto("start")
  /\ UNCHANGED <<pos, taskId, lastId, queue, statusMap, workerVars, historyVars, boundVars>>

ConsumerUndo ==
  /\ inserted' = None
  /\ newOffset' = None
  /\ CGoto("start")
  /\ UNCHANGED <<pos, taskId, lastId, queue, statusMap, workerVars, tableVars, charged>>

(* The commit fails and nobody notices: the row and the offset are gone,   *)
(* the tasks are in the pool.                                              *)
ConsumerCommitFails ==
  /\ cpc = "commit"
  /\ Fault
  /\ lost' = lost \union {Msg.order}
  /\ ConsumerUndo

ConsumerRollback ==
  /\ cpc = "rollback"
  /\ ConsumerUndo
  /\ UNCHANGED <<lost, boundVars>>

Consumer ==
  \/ ConsumerStart
  \/ Consume
  \/ ConsumeWithoutId
  \/ InsertTask
  \/ InsertTaskFails
  \/ UpdateAcceptedOffset
  \/ UpdateAcceptedOffsetFails
  \/ ConvertRecord
  \/ InsertStatus
  \/ AddProcessTask
  \/ AddClearTask
  \/ ConsumerCommit
  \/ ConsumerCommitFails
  \/ ConsumerRollback

(***************************************************************************)
(* The workers.                                                            *)
(***************************************************************************)
(* Mutant: the task is read but not erased from the list while others wait.*)
TakeTaskAgain(w) ==
  /\ wpc[w] = "idle"
  /\ queue # <<>>
  /\ task' = [task EXCEPT ![w] = Head(queue)]
  /\ queue' = IF Len(queue) = 1 THEN <<>> ELSE queue
  /\ Goto(w, IF Head(queue).kind = "process" THEN "query" ELSE "clear")
  /\ UNCHANGED <<consumerVars, statusMap, userMoney, userLock, relationLock, taskLock,
                 tableVars, historyVars, boundVars>>

TakeTask(w) ==
  /\ wpc[w] = "idle"
  /\ Pool!Start(w)
  /\ Goto(w, IF Head(queue).kind = "process" THEN "query" ELSE "clear")
  /\ UNCHANGED <<consumerVars, statusMap, userMoney, userLock, relationLock, taskLock,
                 tableVars, historyVars, boundVars>>

(* Mutant: the select is not "for update".                                 *)
QueryUserNoLock(w) ==
  /\ wpc[w] = "query"
  /\ UserOf(w) \in KnownUser
  /\ userMoney' = [userMoney EXCEPT ![w] = money[UserOf(w)]]
  /\ Goto(w, "business")
  /\ UNCHANGED <<consumerVars, queue, statusMap, task, userLock, relationLock, taskLock,
                 tableVars, historyVars, boundVars>>

QueryUser(w) ==
  /\ wpc[w] = "query"
  /\ UserOf(w) \in KnownUser
  /\ userLock[UserOf(w)] = Nobody
  /\ userLock' = [userLock EXCEPT ![UserOf(w)] = w]
  /\ userMoney' = [userMoney EXCEPT ![w] = money[UserOf(w)]]
  /\ Goto(w, "business")
  /\ UNCHANGED <<consumerVars, queue, statusMap, task, relationLock, taskLock,
                 tableVars, historyVars, boundVars>>

(* No such user: money stays empty and stof throws.  No relation: the      *)
(* query fails, that is not an error, and stoi throws on the amount.       *)
ProcessThrows(w) ==
  /\ \/ wpc[w] = "query" /\ UserOf(w) \notin KnownUser
     \/ wpc[w] = "business" /\ UserOf(w) \notin Buyer
  /\ Goto(w, "rollback")
  /\ UNCHANGED <<consumerVars, queue, statusMap, task, userMoney, userLock, relationLock,
                 taskLock, tableVars, historyVars, boundVars>>

StatementFails(w) ==
  /\ wpc[w] \in {"query", "business", "status"}
  /\ Fault
  /\ Goto(w, "rollback")
  /\ UNCHANGED <<consumerVars, queue, statusMap, task, userMoney, userLock, relationLock,
                 taskLock, tableVars, historyVars>>

(* The relation is found, a new one is inserted (with a number from getId) *)
(* and the new balance is computed and written.                            *)
UpdateMoney(w) ==
  /\ wpc[w] = "business"
  /\ UserOf(w) \in Buyer
  /\ relationLock = Nobody
  /\ relationLock' = w
  /\ userLock[UserOf(w)] \in {Nobody, w}
  /\ userLock' = [userLock EXCEPT ![UserOf(w)] = w]
  /\ userMoney' = [userMoney EXCEPT ![w] = @ - Topic[task[w].msg].money]
  /\ Goto(w, "status")
  /\ UNCHANGED <<consumerVars, queue, statusMap, task, taskLock, tableVars,
                 historyVars, boundVars>>

(* Mutant: the update goes by the task id, a key, and scans nothing.       *)
UpdateTaskStatusById(w) ==
  /\ wpc[w] = "status"
  /\ inserted # task[w].id
  /\ Goto(w, "finish")
  /\ UNCHANGED <<consumerVars, queue, statusMap, task, userMoney, userLock, relationLock,
                 taskLock, tableVars, historyVars, boundVars>>

(* The update looks at every row, so it waits for the row the consumer has *)
(* not committed.  It succeeds whether or not a row matches.               *)
UpdateTaskStatus(w) ==
  /\ wpc[w] = "status"
  /\ taskLock = Nobody
  /\ inserted = None
  /\ taskLock' = w
  /\ Goto(w, "finish")
  /\ UNCHANGED <<consumerVars, queue, statusMap, task, userMoney, userLock, relationLock,
                 tableVars, historyVars, boundVars>>

Unlock(w) ==
  /\ userLock' = [u \in KnownUser |-> IF userLock[u] = w THEN Nobody ELSE userLock[u]]
  /\ relationLock' = IF relationLock = w THEN Nobody ELSE relationLock
  /\ taskLock' = IF taskLock = w THEN Nobody ELSE taskLock
  /\ Pool!Finish(w)
  /\ userMoney' = [userMoney EXCEPT ![w] = 0]
  /\ Goto(w, "idle")

(* Mutant: the status is counted up instead of set.                        *)
FinishCounts(w) ==
  /\ wpc[w] = "finish"
  /\ statusMap' = [k \in DOMAIN statusMap |-> IF k = task[w].id THEN 1 ELSE statusMap[k]]
  /\ money' = [money EXCEPT ![UserOf(w)] = userMoney[w]]
  /\ status' = [status EXCEPT ![OrderOf(w)] = IF @ = NoRow THEN NoRow ELSE @ + 1]
  /\ charged' = [charged EXCEPT ![OrderOf(w)] = @ + 1]
  /\ Unlock(w)
  /\ UNCHANGED <<consumerVars, queue, accepted, lost, boundVars>>

(* Under m_mapTaskStatusMutex: the entry is looked up by the TASK id,      *)
(* although it was inserted under the order id; then the commit.           *)
Finish(w) ==
  /\ wpc[w] = "finish"
  /\ statusMap' = [k \in DOMAIN statusMap |-> IF k = task[w].id THEN 1 ELSE statusMap[k]]
  /\ money' = [money EXCEPT ![UserOf(w)] = userMoney[w]]
  /\ status' = [status EXCEPT ![OrderOf(w)] = IF @ = NoRow THEN NoRow ELSE 1]
  /\ charged' = [charged EXCEPT ![OrderOf(w)] = @ + 1]
  /\ Unlock(w)
  /\ UNCHANGED <<consumerVars, queue, accepted, lost, boundVars>>

(* The commit fails and nobody notices: the entry is marked all the same.  *)
FinishFails(w) ==
  /\ wpc[w] = "finish"
  /\ Fault
  /\ statusMap' = [k \in DOMAIN statusMap |-> IF k = task[w].id THEN 1 ELSE statusMap[k]]
  /\ Unlock(w)
  /\ UNCHANGED <<consumerVars, queue, tableVars, historyVars>>

(* Mutant: the connection goes back without a rollback.                    *)
RollbackForgotten(w) ==
  /\ wpc[w] = "rollback"
  /\ task' = [task EXCEPT ![w] = Idle]
  /\ Goto(w, "idle")
  /\ UNCHANGED <<consumerVars, queue, statusMap, userMoney, userLock, relationLock,
                 taskLock, tableVars, historyVars, boundVars>>

Rollback(w) ==
  /\ wpc[w] = "rollback"
  /\ Unlock(w)
  /\ UNCHANGED <<consumerVars, queue, statusMap, tableVars, historyVars, boundVars>>

(* CClearProcessedTaskStatus erases an entry with status 1 and then steps  *)
(* the erased iterator: the loop may go on, end early, or bring the        *)
(* process down (Restart).                                                 *)
Clear(w) ==
  /\ wpc[w] = "clear"
  /\ LET marked == {k \in DOMAIN statusMap : statusMap[k] # 0}
     IN \E gone \in SUBSET marked :
          /\ marked # {} => gone # {}
          /\ statusMap' = [k \in DOMAIN statusMap \ gone |-> statusMap[k]]
  /\ Pool!Finish(w)
  /\ Goto(w, "idle")
  /\ UNCHANGED <<consumerVars, queue, userMoney, userLock, relationLock, taskLock,
                 tableVars, historyVars, boundVars>>

Work(w) ==
  \/ TakeTask(w)
  \/ QueryUser(w)
  \/ ProcessThrows(w)
  \/ StatementFails(w)
  \/ UpdateMoney(w)
  \/ UpdateTaskStatus(w)
  \/ Finish(w)
  \/ FinishFails(w)
  \/ Rollback(w)
  \/ Clear(w)

(* The process dies and starts again: open transactions are undone, and    *)
(* consumption starts at OFFSET_BEGINNING, not after the accepted offset   *)
(* (userservicemain.cpp:110-113).                                          *)
Restart ==
  /\ restarts < MaxRestarts
  /\ restarts' = restarts + 1
  /\ cpc' = "start"
  /\ pos' = 0
  /\ taskId' = 0
  /\ inserted' = None
  /\ newOffset' = None
  /\ queue' = <<>>
  /\ statusMap' = [k \in {} |-> 0]
  /\ wpc' = [w \in Worker |-> "idle"]
  /\ task' = [w \in Worker |-> Idle]
  /\ userMoney' = [w \in Worker |-> 0]
  /\ userLock' = [u \in KnownUser |-> Nobody]
  /\ relationLock' = Nobody
  /\ taskLock' = Nobody
  /\ UNCHANGED <<lastId, tableVars, historyVars, faults>>

Next ==
  \/ Consumer
  \/ \E w \in Worker : Work(w)
  \/ Restart

Spec == Init /\ [][Next]_vars

(* The scheduler runs the consumer and every worker.                       *)
FairSpec == Spec /\ WF_vars(Consumer) /\ \A w \in Worker : WF_vars(Work(w))

-----------------------------------------------------------------------------
TypeOK ==
  /\ cpc \in ConsumerLocation
  /\ pos \in 0..Len(Topic)
  /\ taskId \in Nat
  /\ lastId \in Nat
  /\ inserted \in Order \union {None}
  /\ newOffset \in Nat \union {None}
  /\ queue \in Seq(Task)
  /\ DOMAIN statusMap \subseteq Order
  /\ \A k \in DOMAIN statusMap : statusMap[k] \in {0, 1}
  /\ wpc \in [Worker -> WorkerLocation]
  /\ task \in [Worker -> Task \union {Idle}]
  /\ userMoney \in [Worker -> Int]
  /\ userLock \in [KnownUser -> Worker \union {Nobody}]
  /\ relationLock \in Worker \union {Nobody}
  /\ taskLock \in Worker \union {Nobody}
  /\ money \in [KnownUser -> Int]
  /\ status \in [Order -> {NoRow, 0, 1}]
  /\ accepted \in Nat
  /\ charged \in [Order -> Nat]
  /\ lost \subseteq Order
  /\ faults \in 0..MaxFaults
  /\ restarts \in 0..MaxRestarts

MsgOf(o) == CHOOSE i \in DOMAIN Topic : Topic[i].order = o
Books ==
  INSTANCE Ledger WITH
    Account <- KnownUser,
    Owner <- [o \in Order |-> Topic[MsgOf(o)].user],
    Price <- [o \in Order |-> Topic[MsgOf(o)].money]

(* The database keeps the books of Ledger: what a process task reads into  *)
(* a variable, computes with and writes back statements later takes the    *)
(* price off the balance of that moment, with the mark in the task row, or *)
(* changes nothing; and an order that is consumed again after a restart    *)
(* never gets its row reset (CUserConsumerProcessTask.cpp:29-110).         *)
ImplementsLedger == Books!Spec

(* A task row says 1 exactly when its order was charged.  The process task *)
(* runs while the row is still in the consumer's open transaction and      *)
(* nothing in the code makes it wait: the scan of the task table does.     *)
(* Orders for which a failing insert or commit was ignored are excepted:   *)
(* they are charged with no row.                                           *)
ChargeMatchesTask ==
  \A o \in Order :
    /\ status[o] = 1 => charged[o] > 0
    /\ charged[o] > 0 /\ o \notin lost => status[o] = 1

(* The accepted offset never runs ahead of the tasks: up to it, every      *)
(* order has a row, unless its number was too big (it is dropped) or a     *)
(* failure was ignored.  (Offset 0 is also the value before any message.)  *)
AcceptedMeansRecorded ==
  accepted > 0 =>
    \A i \in 1..accepted + 1 :
      \/ status[Topic[i].order] # NoRow
      \/ Topic[i].order \in TooBig \union lost

(* Nothing but a redelivery charges an order again: once for each message  *)
(* about it, in each life of the process.                                  *)
ChargedOncePerDelivery ==
  \A o \in Order :
    charged[o] <= (restarts + 1) * Cardinality({i \in DOMAIN Topic : Topic[i].order = o})

(* Every message is consumed and every task it led to ends: consumer and   *)
(* workers lock tables, rows and the map against each other, and none of   *)
(* them waits for ever.                                                    *)
Settles ==
  <>[](/\ cpc = "consume" /\ pos = Len(Topic)
       /\ queue = <<>> /\ \A w \in Worker : wpc[w] = "idle")
=============================================================================
