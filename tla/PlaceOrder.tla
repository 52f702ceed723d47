------------------------------ MODULE PlaceOrder ------------------------------
(***************************************************************************)
(* The worker threads of the order service at work on CPlaceOrderTask:     *)
(* a connection from the disk pool, a transaction that locks the product,  *)
(* a number from getId (IdService) while the transaction is open, an       *)
(* insert, a Kafka message, and commit or rollback by what the delivery    *)
(* report said before poll(1000) returned.                                 *)
(* Each worker has a producer of its own (CThreadPool.cpp:27).  The        *)
(* producer passes the ADDRESS of a local, &isPersisted, as the opaque of  *)
(* the message.  A report that comes after send returned is served by the  *)
(* next poll of the same thread, through the same call chain, and the      *)
(* address is then the local of that later send.                           *)
(* MySQL, the broker and librdkafka are external.                          *)
(***************************************************************************)
EXTENDS IdService, FiniteSets

CONSTANTS
  DiskConn,    \* the connections of CDiskDBConnPool
  Product,     \* the product ids clients ask for
  NoProduct,   \* not a product
  KnownProduct,\* those that are rows of table product
  MaxOrders,   \* bound: how many orders are placed
  MaxFaults,   \* bound: statements, commits and produce calls that fail
  MaxCrashes   \* bound: how often the process dies and is started again

ASSUME OrderAssumption ==
  /\ NoConn \notin DiskConn
  /\ NoProduct \notin Product
  /\ KnownProduct \subseteq Product
  /\ MaxOrders \in Nat
  /\ MaxFaults \in Nat
  /\ MaxCrashes \in Nat

VARIABLES
  pc,         \* where each worker is in Run
  prod,       \* prod[w]: the product of the order it works on
  ord,        \* ord[w]: the number of that order among all that were placed
  taken,      \* how many orders were placed
  diskWant, diskLoan, \* the MySQL connection pool, seen as ConnAllocator
  rowLock,    \* rowLock[p]: the connection whose transaction locks row p
  pending,    \* pending[c]: the rows of buy_order inserted, not committed
  buyOrder,   \* the committed rows of table buy_order
  inflight,   \* inflight[w]: the messages in the producer of w
  reports,    \* reports[w]: PERSISTED reports that no poll served yet
  topic,      \* the messages in topic secBuy
  faults, crashes

diskVars == <<diskWant, diskLoan>>
dbVars == <<rowLock, pending, buyOrder>>
kafkaVars == <<inflight, reports, topic>>
taskVars == <<prod, ord, taken>>
boundVars == <<faults, crashes>>
vars == <<pc, taskVars, diskVars, dbVars, kafkaVars, boundVars, idVars>>

Disk == INSTANCE ConnAllocator
          WITH Conn <- DiskConn, want <- diskWant, loan <- diskLoan

Location == {"idle", "getconn", "start", "query", "getid", "insert", "produce",
             "poll", "commit", "rollback", "release"}

Goto(w, l) == pc' = [pc EXCEPT ![w] = l]
Conn(w) == diskLoan[w]

(* The row that worker w inserts, and the message it sends about it.        *)
Row(w) == [id |-> id[w], ord |-> ord[w], by |-> w]

Fault == faults < MaxFaults /\ faults' = faults + 1 /\ UNCHANGED crashes

EndTransaction(c) ==
  /\ pending' = [pending EXCEPT ![c] = {}]
  /\ rowLock' = [p \in KnownProduct |-> IF rowLock[p] = c THEN NoConn ELSE rowLock[p]]

Init ==
  /\ pc = [w \in Thread |-> "idle"]
  /\ prod = [w \in Thread |-> NoProduct]
  /\ ord = [w \in Thread |-> 0]
  /\ taken = 0
  /\ Disk!Init
  /\ rowLock = [p \in KnownProduct |-> NoConn]
  /\ pending = [c \in DiskConn |-> {}]
  /\ buyOrder = {}
  /\ inflight = [w \in Thread |-> {}]
  /\ reports = [w \in Thread |-> {}]
  /\ topic = {}
  /\ faults = 0
  /\ crashes = 0
  /\ IdInit

(* A worker runs the task of the next order and asks for a connection.     *)
RunTask(w) ==
  /\ pc[w] = "idle"
  /\ taken < MaxOrders
  /\ \E p \in Product : prod' = [prod EXCEPT ![w] = p]
  /\ ord' = [ord EXCEPT ![w] = taken + 1]
  /\ taken' = taken + 1
  /\ Disk!Ask(w)
  /\ Goto(w, "getconn")
  /\ UNCHANGED <<dbVars, kafkaVars, boundVars, idVars>>

GetDiskConn(w) ==
  /\ pc[w] = "getconn"
  /\ Disk!Lend(w)
  /\ Goto(w, "start")
  /\ UNCHANGED <<taskVars, dbVars, kafkaVars, boundVars, idVars>>

(* TransationStart is mysql_commit: whatever the connection still carried  *)
(* from its previous user would be committed here.                         *)
TransationStart(w) ==
  /\ pc[w] = "start"
  /\ buyOrder' = buyOrder \union pending[Conn(w)]
  /\ EndTransaction(Conn(w))
  /\ Goto(w, "query")
  /\ UNCHANGED <<taskVars, diskVars, kafkaVars, boundVars, idVars>>

(* select ... for update finds the row, waits for its lock and takes it;   *)
(* then getId is called.                                                   *)
QueryByProductID(w) ==
  /\ pc[w] = "query"
  /\ prod[w] \in KnownProduct
  /\ rowLock[prod[w]] = NoConn
  /\ rowLock' = [rowLock EXCEPT ![prod[w]] = Conn(w)]
  /\ CallGetId(w)
  /\ Goto(w, "getid")
  /\ UNCHANGED <<taskVars, diskVars, pending, buyOrder, kafkaVars, boundVars>>

(* No such row: the query succeeds, the price stays empty and stol throws. *)
PriceThrows(w) ==
  /\ pc[w] = "query"
  /\ prod[w] \notin KnownProduct
  /\ Goto(w, "rollback")
  /\ UNCHANGED <<taskVars, diskVars, dbVars, kafkaVars, boundVars, idVars>>

(* The select or the insert fails: an error, or the wait for a lock timed  *)
(* out.  After a failed select, FreeResult frees the result of an earlier  *)
(* query a second time (CMysqlDB.cpp:135-156 never clears m_result): that  *)
(* goes unnoticed, as here, or kills the process, which is Crash.          *)
StatementFails(w) ==
  /\ pc[w] \in {"query", "insert"}
  /\ Fault
  /\ Goto(w, "rollback")
  /\ UNCHANGED <<taskVars, diskVars, dbVars, kafkaVars, idVars>>

GetIdStep(w) ==
  /\ pc[w] = "getid"
  /\ InsideGetId(w)
  /\ UNCHANGED <<pc, taskVars, diskVars, dbVars, kafkaVars, boundVars>>

GetIdReturns(w) ==
  /\ pc[w] = "getid"
  /\ ReturnId(w)
  /\ Goto(w, "insert")
  /\ UNCHANGED <<taskVars, diskVars, dbVars, kafkaVars, boundVars>>

HasId(rows, w) == \E r \in rows : r.id = id[w]

(* The primary key: an insert waits while another open transaction holds   *)
(* the same id, and fails if a committed row has it.                       *)
Insert(w) ==
  /\ pc[w] = "insert"
  /\ \A c \in DiskConn : ~HasId(pending[c], w)
  /\ IF HasId(buyOrder, w)
     THEN Goto(w, "rollback") /\ UNCHANGED pending
     ELSE /\ Goto(w, "produce")
          /\ pending' = [pending EXCEPT ![Conn(w)] = @ \union {Row(w)}]
  /\ UNCHANGED <<taskVars, diskVars, rowLock, buyOrder, kafkaVars, boundVars, idVars>>

(* produce copies the message into the queue of the producer.              *)
Produce(w) ==
  /\ pc[w] = "produce"
  /\ inflight' = [inflight EXCEPT ![w] = @ \union {Row(w)}]
  /\ Goto(w, "poll")
  /\ UNCHANGED <<taskVars, diskVars, dbVars, reports, topic, boundVars, idVars>>

(* produce fails (queue full, no broker): its result is not looked at.     *)
ProduceFails(w) ==
  /\ pc[w] = "produce"
  /\ Fault
  /\ Goto(w, "poll")
  /\ UNCHANGED <<taskVars, diskVars, dbVars, kafkaVars, idVars>>

(* Mutant: send returns whether produce accepted the message.              *)
PollTrustsProduce(w) ==
  /\ pc[w] = "poll"
  /\ reports' = [reports EXCEPT ![w] = {}]
  /\ Goto(w, "commit")
  /\ UNCHANGED <<taskVars, diskVars, dbVars, inflight, topic, boundVars, idVars>>

(* Mutant: a failed send returns without rolling back.                     *)
PollNoRollback(w) ==
  /\ pc[w] = "poll"
  /\ reports' = [reports EXCEPT ![w] = {}]
  /\ Goto(w, IF reports[w] # {} THEN "commit" ELSE "release")
  /\ UNCHANGED <<taskVars, diskVars, dbVars, inflight, topic, boundVars, idVars>>

(* poll(1000) serves the reports that are there: dr_cb sets isPersisted    *)
(* through the opaque of EVERY persisted message, be it this one or one of *)
(* an earlier send.  It returns with none when the second is over, or      *)
(* when an event (error, log) was all there was to serve.                  *)
Poll(w) ==
  /\ pc[w] = "poll"
  /\ reports' = [reports EXCEPT ![w] = {}]
  /\ Goto(w, IF reports[w] # {} THEN "commit" ELSE "rollback")
  /\ UNCHANGED <<taskVars, diskVars, dbVars, inflight, topic, boundVars, idVars>>

TransationCommit(w) ==
  /\ pc[w] = "commit"
  /\ buyOrder' = buyOrder \union pending[Conn(w)]
  /\ EndTransaction(Conn(w))
  /\ Goto(w, "release")
  /\ UNCHANGED <<taskVars, diskVars, kafkaVars, boundVars, idVars>>

(* The connection broke: the server undoes the transaction, and the result *)
(* of TransationCommit is not looked at.                                   *)
CommitFails(w) ==
  /\ pc[w] = "commit"
  /\ Fault
  /\ EndTransaction(Conn(w))
  /\ Goto(w, "release")
  /\ UNCHANGED <<taskVars, diskVars, buyOrder, kafkaVars, idVars>>

TransationRollback(w) ==
  /\ pc[w] = "rollback"
  /\ EndTransaction(Conn(w))
  /\ Goto(w, "release")
  /\ UNCHANGED <<taskVars, diskVars, buyOrder, kafkaVars, boundVars, idVars>>

ReleaseConnection(w) ==
  /\ pc[w] = "release"
  /\ Disk!GiveBack(w)
  /\ prod' = [prod EXCEPT ![w] = NoProduct]
  /\ ord' = [ord EXCEPT ![w] = 0]
  /\ Goto(w, "idle")
  /\ UNCHANGED <<taken, dbVars, kafkaVars, boundVars, idVars>>

(***************************************************************************)
(* The broker and the background thread of librdkafka, at their own pace.  *)
(***************************************************************************)
Leaves(w, m) == inflight' = [inflight EXCEPT ![w] = @ \ {m}]

Acknowledge(w, m) ==
  /\ m \in inflight[w]
  /\ Leaves(w, m)
  /\ topic' = topic \union {m}
  /\ reports' = [reports EXCEPT ![w] = @ \union {m}]

(* Stored, but the acknowledgement is lost: reported POSSIBLY_PERSISTED,   *)
(* which dr_cb treats as not persisted.                                    *)
StoreUnacknowledged(w, m) ==
  /\ m \in inflight[w]
  /\ Leaves(w, m)
  /\ topic' = topic \union {m}
  /\ UNCHANGED reports

Lose(w, m) ==
  /\ m \in inflight[w]
  /\ Leaves(w, m)
  /\ UNCHANGED <<topic, reports>>

Broker ==
  /\ \E w \in Thread : \E m \in inflight[w] :
       Acknowledge(w, m) \/ StoreUnacknowledged(w, m) \/ Lose(w, m)
  /\ UNCHANGED <<pc, taskVars, diskVars, dbVars, boundVars, idVars>>

(* The process dies and is started again: the server undoes the open       *)
(* transactions, and what the producers still held is gone.                *)
Crash ==
  /\ crashes < MaxCrashes
  /\ crashes' = crashes + 1
  /\ pc' = [w \in Thread |-> "idle"]
  /\ diskWant' = {}
  /\ diskLoan' = [w \in Thread |-> NoConn]
  /\ rowLock' = [p \in KnownProduct |-> NoConn]
  /\ pending' = [c \in DiskConn |-> {}]
  /\ inflight' = [w \in Thread |-> {}]
  /\ reports' = [w \in Thread |-> {}]
  /\ prod' = [w \in Thread |-> NoProduct]
  /\ ord' = [w \in Thread |-> 0]
  /\ IdCrash
  /\ UNCHANGED <<taken, buyOrder, topic, faults>>

PassMidnight ==
  /\ Midnight
  /\ UNCHANGED <<pc, taskVars, diskVars, dbVars, kafkaVars, boundVars>>

(* What a worker does with the task it has taken.                          *)
Work(w) ==
  \/ GetDiskConn(w)
  \/ TransationStart(w)
  \/ QueryByProductID(w)
  \/ PriceThrows(w)
  \/ StatementFails(w)
  \/ GetIdStep(w)
  \/ GetIdReturns(w)
  \/ Insert(w)
  \/ Produce(w)
  \/ ProduceFails(w)
  \/ Poll(w)
  \/ TransationCommit(w)
  \/ CommitFails(w)
  \/ TransationRollback(w)
  \/ ReleaseConnection(w)

Next ==
  \/ \E w \in Thread : RunTask(w) \/ Work(w)
  \/ Broker
  \/ PassMidnight
  \/ Crash

Spec == Init /\ [][Next]_vars

(* The scheduler runs every worker; MySQL, Redis and poll answer.          *)
FairSpec == Spec /\ \A w \in Thread : WF_vars(Work(w))

-----------------------------------------------------------------------------
OrderRow == [id : Number \union {NoId}, ord : 1..MaxOrders, by : Thread]

TypeOK ==
  /\ IdTypeOK
  /\ pc \in [Thread -> Location]
  /\ prod \in [Thread -> Product \union {NoProduct}]
  /\ ord \in [Thread -> 0..MaxOrders]
  /\ taken \in 0..MaxOrders
  /\ diskWant \subseteq Thread
  /\ diskLoan \in [Thread -> DiskConn \union {NoConn}]
  /\ rowLock \in [KnownProduct -> DiskConn \union {NoConn}]
  /\ pending \in [DiskConn -> SUBSET OrderRow]
  /\ buyOrder \subseteq OrderRow
  /\ inflight \in [Thread -> SUBSET OrderRow]
  /\ reports \in [Thread -> SUBSET OrderRow]
  /\ topic \subseteq OrderRow
  /\ faults \in 0..MaxFaults
  /\ crashes \in 0..MaxCrashes

(* A connection goes back to the pool with no open work: no row inserted   *)
(* and not committed, no product locked.  The next user of the connection  *)
(* begins with mysql_commit, so a leftover would become an order that was  *)
(* turned down, and a leftover lock would stop every order for that        *)
(* product.  It is about every early exit of Run: break, exception, and    *)
(* the failure of send.                                                    *)
CleanWhenPooled ==
  \A c \in Disk!Free :
    /\ pending[c] = {}
    /\ \A p \in KnownProduct : rowLock[p] # c

Of(rows, w) == {r \in rows : r.by = w}

(* Orders are not made up: each worker has committed at most as many       *)
(* orders as it has put messages into the topic, whatever reports came     *)
(* late, whatever failed, whenever the process died.  It cannot be said    *)
(* of each order and ITS message, because a late report stands for the     *)
(* message that is being sent when it comes.                               *)
OrdersBackedByMessages ==
  \A w \in Thread : Cardinality(Of(buyOrder, w)) <= Cardinality(Of(topic, w))

(* Every order a worker takes comes to an end: the connection of MySQL is  *)
(* held while the one of Redis is waited for, and rows and keys are locked *)
(* through poll, but nobody waits for ever.                                *)
OrderEnds == \A w \in Thread : (pc[w] # "idle") ~> (pc[w] = "idle")
=============================================================================
