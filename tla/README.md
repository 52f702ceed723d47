# Verification of sec-buy

TLA+ models of the two services of this repository, model-checked with TLC on
small instances, and theorems about them proved with TLAPS for every value of
the constants: every safety property that a passing run checks has one.

    tlc -workers 2 -config ConnPool_pool.cfg MCConnPool    # a run
    tlapm ConnPoolProofs.tla                               # the proofs of a module

`PROJECT.json` holds, for a machine, what this file says for a reader: the
components, the runs, the mutants that show that each property can fail, the
source lines behind each definition, the hazards, the findings, the theorems.
Paths below are relative to `src/` of the repository, where the code itself is
in `src/src/` and `src/include/`.

## 1. The system

A flash-sale shop. A client sends a product and a user over TCP to
**orderservice**, which stores an order in MySQL and puts a message in Kafka.
**userservice** consumes the messages, records each as a task, and charges the
user's balance.

    client --TCP--> CServer (1 thread) --AddTask--> CThreadPool --Run--> CPlaceOrderTask
                                                                          |  MySQL pool, Redis pool (getId)
                                                                          v
                                                            MySQL buy_order, Kafka topic secBuy
                                                                          |
    userservice: consumer() (1 thread) <------------------consume---------+
          |  insert task row + offset, in one transaction
          +--AddTask--> CThreadPool --Run--> CUserConsumerProcessTask (charge)
                                             CClearProcessedTaskStatus (clean the map)
    both: every thread --LOG_*--> ring_log --persister thread--> file

### Inventory

| component | state | operations | hard behaviour | what makes it correct |
|---|---|---|---|---|
| Connection pools (`src/dao/CDiskDBConnPool.cpp`, `src/memdb/CMemDBConnectionPool.cpp`, the template in `src/connectionpool/CConnectionPool.cpp`, `src/messagequeue/CMsgProducerPool.cpp`) | idle list, `m_curSize`, mutex, condition | `GetConnection`, `ReleaseConnection`, creation on demand | signal after the unlock, creation racing return | nobody shares a connection, none is lost, nobody sleeps for ever beside an idle one |
| Thread pool (`src/thread/CThreadPool.cpp`) | task list, mutex, condition, `shutdown` | `AddTask`, `RunTask` loop, `Quit` | `Quit` writes `shutdown` without the mutex | each task starts once, in order; Quit destroys nothing in use; Quit returns |
| Ring log (`src/log/log.cpp`) | ring of buffers, `_curr_buf`, `_prst_buf`, `_lst_lts`, `_level` | `try_append`, `persist`, stop and wait of the signal handlers | the buffer is written outside the lock; memory limit; exit | no accepted line is lost or reordered but for named exceptions; when the process leaves, the lines are on disk |
| Event loop, server, sockets (`src/orderservice`, `src/event`) | event table, epoll set, client table, list of clients, an iterator that survives calls | accept, receive, the pass that clears clients | descriptors are closed and reused within a batch; iterators over erased nodes | tables agree with the kernel; no event meets another client; passes end; clients are cleared |
| Place-order task (`src/threadtask/CPlaceOrderTask.cpp`), Kafka producer (`src/messagequeue`) | transaction, row lock, message and report | `Run`, `send`, `dr_cb` | six ways out of `Run`; late and lost reports; a resource waited for with two others in hand | connections come back clean; orders have messages; every order ends |
| Log files (`decis_file` of `src/log/log.cpp`, `utc_timer` of `include/log/log.h`) | the date of the timer, the open file with its date, `_log_cnt` | `get_curr_time`, `decis_file` | the date is set by every logger without a lock and read field after field; every `fopen` truncates; `fopen` may fail half-way through a rotation | no buffer written is lost from the files, and they are in order |
| Redis locks (`src/memdb/CRedis.cpp`) | three keys | `tryLockV1`, `V2`, `V3` | two commands where one is needed; late losers write over winners; error replies | nobody is told TRUE while the last winner may rely on the lock, but by an error reply; it can be won again |
| Id service (`src/idservice/idhelper.cpp`) | Redis counters, the static buffer of `localtime` | `getId` | the date is read twice, around a blocking call, from a shared buffer | a number is given once |
| User service (`src/userservice`, `src/threadtask/CUserConsumerProcessTask.cpp`, `CClearProcessedTaskStatus.cpp`) | task rows, offset, balances, the map of task statuses | `consumer`, the process task, the clear task | a task runs before the transaction that records it commits; restart at the beginning of the topic; locks of several tables | the database keeps simple books: a charge changes balance and row at once; a charge has its row; nothing but a redelivery charges twice |

Components that are not modelled: the accept task and the check task (nothing
creates them), the shop relation table, the configuration reader (read once, before any thread),
the fcntl mutex (its only use is commented out), the stand-alone load
generators. Each is in `PROJECT.json` with its reason.

## 2. The plan

Most important behaviour first; a module is written to be proved about (no
RECURSIVE operator, assumptions named, one action per step of the code).

1. **ConnAllocator**, **ConnPool**, **ConnPoolProofs** - done.
2. **TaskQueue**, **ThreadPool**, **ThreadPoolProofs** - done.
3. **RingLog**, with signal handlers that interrupt a thread anywhere, **RingLogProofs** - done.
4. **LogFiles**, **LogFilesProofs** - done.
5. **EventServer**, **EventServerProofs** - done.
6. **IdService** (on ConnAllocator), **PlaceOrder** (on IdService and ConnAllocator), **PlaceOrderProofs** - done.
7. **Ledger**, **UserService** (on TaskQueue), **UserServiceProofs** - done.
8. **RedisLock**, **RedisLockProofs** - done.

How the modules compose:

- `ConnPool` implements `ConnAllocator` (property `ImplementsAllocator`, theorem
  `PoolImplementsAllocator`; with fairness, property `ImplementsLending`).
  `IdService` and `PlaceOrder` then use two instances of `ConnAllocator`, `Mem`
  (Redis) and `Disk` (MySQL), in place of two pools in detail.
- `PlaceOrder` EXTENDS `IdService`: `getId` runs inside the task, with the
  row lock and the MySQL connection held.
- `ThreadPool` implements `TaskQueue` (property `ImplementsQueue`, theorem
  `PoolImplementsQueue`; with fairness, property `WorkConserving`), and
  `UserService` is written with the actions of `TaskQueue`: it adds, takes and
  finishes tasks by `Pool!Add`, `Pool!Start` and `Pool!Finish`.
- `UserService` implements `Ledger` (property `ImplementsLedger`).
- `RingLog` and `LogFiles` share the persister: `RingLog` says which buffer is
  written and what is in it, with one file; `LogFiles` says which file.

## 3. The modules

### ConnPool, ConnAllocator

`ConnPool` is `GetConnection` / `ReleaseConnection` cut at what other threads
can see: the critical section that takes or sleeps, the creation, the push,
and the signal, which comes **after** the unlock (`CDiskDBConnPool.cpp:152`). The
MySQL and Redis pools have this code line for line, so one module is both.
`Signals = FALSE` is the producer pool, whose release does not signal.
A woken thread goes back to the mutex and tests again, with everyone else; POSIX
signals wake one waiter or none, and spurious wake-ups are allowed by the code's
loop. `Keeper` is a set of threads that never give back, as `consumer()` of
userservice never does.

`ConnAllocator` is what a pool promises: a thread asks, gets a connection that
nobody has, gives it back. Its fairness says that somebody who asks is
served while a connection is free or can be made - **not** that everybody is:
a waiter can be overtaken for ever by newcomers, and the code does nothing against it.

### ThreadPool, TaskQueue

`TaskQueue` is what a pool promises to whoever adds tasks: each is started once, by
one free worker, first in first out; and a free worker and a queued task do not
stay apart for ever until the pool is asked to close.

The worker's critical section is cut at its reads of `shutdown`, lines 36 and
44, because `Quit` writes `shutdown` with no mutex held, and at the fall asleep
of line 39. `AddTask` unlocks before it signals. `Quit` is: set, broadcast,
join each, destroy. A task is a model value added once; whether its `Run` ends
is up to `RunsEnd`.

### RingLog

One action per critical section of `try_append` and of `persist`; the unlocked
reads and writes of `_lst_lts` (147, 164) and the unlocked write of the buffer to
the file (133) are actions of their own. The file may fail to open, and is
retried. A line is a number, given when it is put in a buffer, and a buffer holds
`CellLen` of them; lengths in bytes and formats are left out. An `fwrite` may write only the
first lines of its buffer (`log.h:144`: it says so on stderr, and `persist` clears the buffer all
the same). The lines it leaves out are in `exempt`, like those that the memory limit lets a
logger put in a buffer that is being written. A thread of `Fatal` uses `LOG_FATAL`, which does not
test the level and so logs on after `LOG_STOP`.

A signal may come to any thread of `Interruptible`, wherever it is, with the mutex in
its hand or not, and its handler runs on that thread (`handling`): it logs a line
itself, stops the log, polls until the ring is empty and exits
(`orderservicemain.cpp:9-40`). `is_empty` (`log.h:186`) is four reads without the mutex, each an
action of its own: `_curr_buf`, that buffer's length, `_prst_buf`, that buffer's length
(`LoadCurr`, `TestCurr`, `LoadPrst`, `TestPrst`). What the thread was doing is never resumed; if it was the
persister, nothing is written any more (`written` says whether the buffer it held is on
the disk), and if it held the mutex nobody gets it again (`seized`), the handler included.

### LogFiles

`utc_timer` has no lock: `get_curr_time` is one action per shared field it reads or
writes, for each logger, and the persister reads the month and the day in two steps.
Time is in minutes, the unit in which the date is renewed; year and month are one number.
`decis_file` is one action per branch: the first file, the file of another day (only the
**day** is compared), a rotation (all its renames, from the oldest down), or the file as
it is; `Fopen` truncates, or fails. A write appends one buffer, and buffers are numbered: what
`fwrite` gets into the file counts as the buffer, all its lines or some; `PersistNothing` is the
`fwrite` that gets nothing out. Which lines a short one leaves out is in RingLog.
`raced` is a history variable: it is set when a thread changes the date while another is
in `get_curr_time` or the persister is between its reads.

### EventServer

The single thread alternates between waiting, dispatching each fired descriptor,
accepting a batch, and a clearing pass; `Garbage` are the descriptors whose mask is not 0 in the
memory that `malloc` gives the event table, which is not cleared (`CEventLoop.cpp:26`); the peers connect, send and leave between
any two of its steps. `list` and `iter` are the list and the iterator the server
keeps from one call to the next, as a sequence and a position; an iterator to a
node that was erased is `Erased`, equal to no other. `m_lastCommTime` is set at
accept and never again, so every client a pass meets after the timeout is cleared; the clock is
a choice made at the end of each turn of the loop.

### IdService, PlaceOrder

`getId` is one action per step between two points where other threads can
intervene: wait for a Redis connection, `localtime`, make the key, INCR, format
the number, give back. `tm` is the one buffer behind all calls of `localtime`, and
`format` reads it **again**. A number is `<<day, index>>`.

`PlaceOrder` has one action per statement of `Run`, each with its failure, and a
fault budget. A row locked by another transaction blocks the query. Each worker
has its producer; a message in it is delivered or lost, its report arrives before
the poll ends, or late, or never. The address of `isPersisted` is the opaque of
every message of the worker (the calls nest in the same way each time), so a late
report sets the flag of the next send; this is what `reports` models.
`Crash` loses the messages in the producers and the open transactions.

### UserService, Ledger

`consumer()`: consume, take a number, insert the row, update the offset, convert the
numbers, put the order in the task map, add the two tasks, commit. Row and offset are in one
transaction; the results of the insert, of the update and of the commit are ignored, each of the
three may fail, and the tasks are added **before** it commits. The process task takes the row
of the user, the relation table, and the task table; each lock lasts until its
transaction ends. `Restart` loses what is in memory, rolls back what is open, and
starts at the first message again (`userservicemain.cpp:113`). A message whose
number does not fit an `int` throws (`userservicemain.cpp:174`) when its row and its offset are
already written: the transaction is rolled back and the message dropped. When the INCR for
the task's number fails, the number is 0, and everything goes on with that.

`Ledger` is what that amounts to: an order is recorded, and a charge takes the price
from the balance, counts, and marks the row if there is one, in one step.

### RedisLock

The commands of the three recipes are actions; each recipe has its key. The clock is
shared by the clients and Redis, a call takes no longer than `MaxDelay`, less than the
lease. `CutShort` is a process that dies, or a reply without a string; `GetSetUnheard` one that
dies after Redis has carried out its GETSET. `ExpireError`, `SetnxV1Error` and `SetnxV3Error` are
error replies. `setnx` takes them for success, so `tryLockV1` and `tryLockV3` return TRUE, to a
second caller too. `wins` counts **every** TRUE, `misled` those that were errors, and `until` is the
time until which the last of the other winners may rely on what he won: history variables. The
recipes have no caller in the services and there is no unlock; they are modelled as the
library they are.

### Abstractions shared by several modules

Time is a choice: a timeout may fire whenever the code waits with one. Failures
(`MaxFaults`, `MaxErrors`), process deaths (`MaxCrashes`, `MaxRestarts`), days
(`LastDay`), lines, orders and connections to come (`MaxLine`, `MaxOrders`,
`MaxListed`) are bounded so that TLC ends; each bound is a named constant that
appears as a guard of the action it limits. MySQL, Redis, Kafka, epoll and the
sockets are external: they are modelled from how the code uses them and marked
so in the map. Text, formats and logging are left out.

## 4. What is checked

Sizes are of one run with two workers of TLC. The small runs take seconds, those of half a million
states and more one to three minutes, and `ringlog_lines`, whose liveness takes most of the time,
about three.

| run | instance | distinct states | shows |
|---|---|---|---|
| `connpool` | 4 threads, one keeps its connection; 2 connections, the second made on demand | 809 | `Exclusive`, `NothingLeaks`, `NoLostWakeup`, `Progress`; the pool implements ConnAllocator, and its fairness |
| `threadpool_tasks` | 3 workers, 2 callers of AddTask, 3 tasks, Quit at any moment | 105 013 | `PopsSomething`, `NoLostWakeup`, `DestroysUnused`, `ImplementsQueue`; `WorkConserving` (needs no task to end), `EveryTaskStarts` (if tasks end and nobody quits) |
| `threadpool_quit` | 2 workers, 1 caller, Quit | 2 140 | **violated**: `QuitReturns` |
| `ringlog_lines` | 2 loggers, one with `LOG_FATAL`, 1 persister, a signal to one logger or to the persister; 2 buffers of 2 lines and room for a third, 6 lines and one of the handler, 1 line left out by `fwrite` | 210 344 | `OnlyExemptLinesLost`, `FullMeansPersisting`, `PartialIsCurrent`, `ExitIsFlushed`, `ReachesDisk`, `HandlerExits` |
| `ringlog_userservice` | 2 persisters, no signal | - | **violated**: `FullMeansPersisting` |
| `logfiles` | 2 loggers, 1 minute a day, 2 days a month, 3 days over a month's end; files of 2 buffers, 5 buffers, 1 failing `fopen` or `fwrite` | 2 658 824 (with symmetry) | `OnlyRacesLose`, `SameDayKept` |
| `server_clients` | 4 descriptors, one too high and one never cleared; batches of 2; 4 connections and entries | 56 146 | `TablesAgree`, `ClientsListed`, `EventsReadable`, `ClientsCleared` |
| `server_pass` | 3 connections and entries | 14 313 | **violated**: `PassEnds` |
| `order_safety` | 2 workers, 3 orders, 2 products and an unknown one, 2 connections of each kind, midnight, 1 fault, 1 restart | 1 576 653 (with symmetry) | `CleanWhenPooled`, `OrdersBackedByMessages`, `SameIdMeansTorn` |
| `order_live` | 2 workers, 3 orders, 1 product, 1 Redis connection, 2 failing INCRs, 1 fault | 511 423 | `SameIdMeansTorn`, `OrderEnds` |
| `user_charges` | 4 messages of 2 users, one with too big a number, 2 workers, 1 ignored failure, 1 restart | 506 918 | `ChargeMatchesTask`, `AcceptedMeansRecorded`, `ChargedOncePerDelivery`, `ImplementsLedger`, `Settles` |
| `redislock` | 3 clients, a lease of 2, calls of up to 1, 6 units of time, 2 error replies | 3 496 636 (with symmetry) | `WinsApart`, `ExpiredIsWon`, `StuckMeansCut` |

What the properties mean is said above each in its module. The less obvious ones:

- `NoLostWakeup` (pools): while a thread sleeps, the pool is at its maximum and
  every idle connection has a thread on its way to take it or to signal. This is
  what makes the signal after the unlock right. Without the signal (the producer
  pool) `Progress` fails; that is its mutant.
- `WorkConserving`: it is not assumed that any task ends, and still a free worker
  and a queued task meet.
- `OnlyExemptLinesLost`: at the memory limit a logger that read `_lst_lts` before
  another set it may append to the buffer being written, and that line may be cleared
  unwritten; and `fwrite` may leave lines out. The property says that no other line is ever lost.
- `OnlyRacesLose`: the files, day after day and oldest first, hold every buffer written,
  unless two threads met at a change of the date. That they may meet is the code's:
  the files can then lose a day (section 6). `SameDayKept` holds even then.
- `WinsApart`: in V2 every loser rewrites the expiry, and still nobody is told TRUE while a
  winner may rely on his lock: for the lease less the longest delay of a call. In V1 and V3
  two callers **can** be told TRUE at a time, for an error reply is taken for success; the property
  says that this is the only way, and that such a caller's stray EXPIRE does not shorten the lease
  of anybody.
- `ImplementsLedger`: the balance is read, computed with and written back by several
  workers, and still each charge takes its price off the balance of that moment.
- `ExitIsFlushed`: that `is_empty` was true does **not** mean that the log is on disk. Between the
  read of a pointer and that of the length the persister may clear that buffer and go on to the
  next, and a line may be put there (section 6). What remains is the property: all but exempt
  lines are on disk if `_prst_buf` is, at the exit, the buffer whose length was read, or if nothing
  was accepted since the first of the four reads and the ring can still grow. TLC refutes the
  property without these conditions, and with only one half of the second.
- `HandlerExits`: the stop flag silences all loggers but those that use `LOG_FATAL`; that these
  do not keep the handler for ever is due to the bound on lines.
- `OrdersBackedByMessages`: counts and not identities, because a late report of
  one message may commit the order of the next (see section 6).
- `SameIdMeansTorn`: two equal numbers imply that one of the calls read two dates.
- `ChargeMatchesTask`: the process task may run before its row is
  committed; nothing in the code makes it wait, the scan of the task table does.

### Bounds

The pools have more threads than connections and one connection to create, so
that threads sleep, overtake, and race with the creation. The thread pool has as many
workers as tasks and, as tasks run at their own pace, at other moments fewer free ones. In
the ring the lines fill the buffers, make it grow to its limit, are refused, and go round, and a
logger and the handler meet at the limit, so that a line is late; the same properties, but for the
two of liveness, hold with 3 buffers, room for a fourth and 9 lines (1.4 million states, checked
once). A buffer is a line or two, so that full, half full and empty ones differ. In `logfiles` the second file of a day is
rotated away, a back-dated file comes back, and the day after a month's end has the number
of a day that has a file; the two renames of a third rotation take 7 buffers, which is too much
for a run. The server
may have more entries in its list than a pass visits, and a descriptor can come back twice; one of
its four descriptors is too high for the table, and the mask of one is never cleared.
In `order_safety` two orders are for one product and one for another, in any order,
so rows are waited for and not; the restart may come at any step, and midnight is between any two.
There no INCR fails; in `order_live` two do, one after the other or at once, so that two calls
have no index to give.
In `user_charges` one user has two orders that are charged concurrently, one order
is dropped and one user does not exist; after the restart everything is consumed again.
In `redislock` a lock is won, expires and is won again twice, and a third client is late.
The passing runs fire every action of every module between them. Symmetry
(`logfiles`, `order_safety`, `redislock`) is used only for safety, over sets whose members the
modules do not tell apart.

Deadlock is checked where the modules cannot stop (`connpool`, `logfiles`,
both server runs, `ringlog_userservice`); elsewhere the system stops on purpose: every
worker has exited, the process has left, or the bounds are used up.

### Fairness

Weak fairness of the step of each thread stands for a scheduler that runs every
thread that is not blocked, and for databases that answer. Besides that:

- ConnPool: a borrower that is not a `Keeper` gives back (`ReleaseConnection` is
  reached on every path of both `Run`). Nothing makes a thread ask.
- ThreadPool: that tasks end (`RunsEnd`) is not part of `SchedulerSpec`; it is a
  hypothesis of `EveryTaskStarts` and is added in `FairSpec`, which `threadpool_quit` uses.
  Nobody is made to quit, and TaskQueue promises nothing once somebody has.
- RingLog: the log file cannot fail to open for ever (strong fairness of `FileOpen`, which
  fails and is retried).
- EventServer: a pass is due again and again (strong fairness of `StartPass`), as
  its time is compared at every turn. `ClientsCleared` excepts a loop of refused connections
  that never ends (`AcceptHandler` does not count those) and a pass that spins (the finding).
- PlaceOrder, UserService: weak fairness of each worker and of the consumer. The
  numbers of orders and messages are bounded, so a thread overtaken for ever at the pool
  is not in these runs; `ConnAllocator` says that it may happen.

## 5. What is proved

All proofs are of the specifications that are model-checked, for every value of the constants that
satisfies the module's named assumption. Some theorems need more, and say so: `WakeupsKept` of
the pools is about a pool whose release signals, `ServiceImplementsLedger` needs `OneMessage`, and
what RingLogProofs says of the ring needs `OnePersister`.

**ConnPoolProofs.** From `PoolAssumption`. `IInv` is the conjunction of `TypeOK`, `Exclusive` and
`NothingLeaks` (and `NoLostWakeup` where `Signals`). None is inductive alone: that a returned
connection is not already in the list needs that no two threads hold it; that a new one has a
fresh name needs that the names in use are `0..m_curSize - 1`; that a wake-up is not lost counts
idle connections against threads, which needs the list free of repetitions. Theorems:
`Invariance`, `TypeCorrect`, `ConnectionsExclusive`, `ConnectionsKept`, `WakeupsKept` (if
`Signals`), and `PoolImplementsAllocator`: the initial state maps to the allocator's, and each
step maps to one of the allocator's or to none.

**ThreadPoolProofs.** From `ThreadPoolAssumption`. The inductive invariant `IInv` has, beside the
properties: who holds the mutex (`MutexOwner`: being inside the critical section is owning it, so
at most one worker is); what the test of line 36 still guarantees later in the section, although
`shutdown` may change in between (`Tested`); that a task is added once and what runs was started
(`AddedOnce`, `RunsStarted`); that `shutdown` stays set once Quit has set it, and that every
worker has exited when Quit is done (`QuitKnows`, `AllExited`). `PopIsSafe` is the one that a
reader of lines 36 to 54 would question: the list is dereferenced before it is tested again.
Others: `FirstInFirstStarted`, `TasksOwnedOnce` (proved here and a consequence of the history, so
it has no run), `WakeupsKept`, `DestroyIsSafe`, and `PoolImplementsQueue`: each step of the pool
is one of TaskQueue's or none, for the worker that pops owns the list.

**RingLogProofs.** From `RingLogAssumption`. `TypeCorrect` holds for any number of persisters; its
one hard part is that the number of a line stays in its bound, for which the threads on their way
to an append are counted against the lines left (`Counted`), the handler's line apart. The rest
assumes `OnePersister`, which orderservice satisfies and userservice does not (finding 2 of
section 6). A rank, the distance from `_prst_buf`, is given to every buffer: `Ranked` says that
`next` adds one to it, around the ring, and `Filled` that the full buffers are those of a lower
rank than the current one, or all. Leaving a buffer, running into a full one, putting one in
between and giving one back each keep, extend or shift the ranks (`Reranked`, which also says that
two buffers with lines stay in their order). With `FreeIsEmpty` and `BeingWritten` (what the
persister has in its hand is full) that is inductive, and `FullIsPersisted` and
`PartialOneIsCurrent` follow. For the lines every step is one of three: it keeps what is in the
buffers, puts one line in the current buffer, or moves the content of `_prst_buf` to the disk
(`LineStep`). `OnlyTheExemptAreLost` then follows from `Stored` (not exempt means on disk or
in a buffer, and the other way round), `Sorted` and `Ordered` (lines rise along the disk and the
ranks): the new line is above all others, and the buffers after the current one are empty. What is
written and not cleared belongs to the disk, also when a signal has cut the persister off there
(`WrittenIsFull`). `TheExitIsFlushed` has two cases. If `_prst_buf` is the buffer that was found
empty (`PollsLast`), it is not full, for a full buffer has lines (`FullHasLines`); so it is the
current one, and every other is empty. If the time was `Quiet`, the current buffer was found empty
first and nothing has been put anywhere since (`PollsCurr`, `PollsPrst`): but for `_prst_buf` the
ring was empty from there on, and the persister leaves it only once it is written. That needs to
know what a logger between its locks may still do to the ring: there is at most one between GiveUp and Retest
(`OneRetest`), below the limit none (`Roomy`), the buffer it comes back to is empty
(`RetestEmpty`), and between the buffer being written and the current one there is no empty one
(`NoGap`).

**LogFilesProofs.** From `LogFilesAssumption`, for any number of loggers, any lengths of the day,
the month and the files, any failures of `fopen` and `fwrite`. `SameDayIsKept` holds whatever the loggers do to
the date: `_log_cnt` may be larger than the number of old files, for a rotation whose `fopen`
fails is done again, but it is never smaller (`Placed`), and there are names enough (`Spare`: each
costs a buffer or a failure). `NothingElseIsLost`: while no two threads have met at a change of
the date, one thread at a time is between its month and its day (`OneMonth`), the date does not go
back (`Forward`), and what the persister has read is a date that was, not before that of the open
file (`Reading`); so the date of the file is the last with files (`LastFiles`), a new one has none
to truncate, and the files of the dates follow each other.

**PlaceOrderProofs.** From `IdAssumption` and `OrderAssumption`, for any number of workers,
connections, orders, faults and deaths. `IdInv`: what INCR gave out under a key is at most its
counter, and two calls that hold or have returned an index under one key have different ones
(`IssuedApart`, `HeldApart`, `HeldNew`); `SameIdIsTorn` follows, for of two equal numbers one then
has another date than its key. `Pendings` and `Locks`: what an open transaction holds is one row
of the worker that has the connection and is still before its commit or rollback; `PooledAreClean`
follows with `Loans` (nobody else has it). `OrdersAreBacked` counts, for a report may serve the
wrong order: stored orders, reports not served and a commit about to be made are together no more
than the messages delivered (`Backed`), as each message is delivered once (`Sent`, `NotSent`).
Also `TypeCorrect`, which no run repeats.

**EventServerProofs.** From `ServerAssumption`. `Invariance` of `Inv`, for any number of
descriptors, any batch sizes and any content of the uncleared table; the part that makes it inductive, `NoneFired`, says that when the
loop polls or runs a clear pass no fired event is left, which is why the pass cannot take a client
from under an event. `TablesAlwaysAgree`, `ClientsAlwaysListed`, `EventsAlwaysReadable`.

**RedisLockProofs.** From `LockAssumption` (the delay is shorter than the lease), for any number
of clients, any lease and any bounds. That wins are apart is a fact about keys: `V1Kept` says that
one client at most is on its way to EXPIRE, that the key outlives what its winner may rely on, and
that the promise is unlimited only while he is on his way; `V2Kept` that the value of the key is
never earlier than what the last winner may rely on. The second needs `Young` (no call began
longer ago than `MaxDelay`): with it even a late loser writes a time beyond the winner's, and who
read an expired value and finds another in its place cannot be the first. Every TRUE is counted,
those of error replies too; what is proved is that a TRUE told while another may rely on the lock
is one of these, and that it and the stray EXPIRE after it take nothing from him. Theorems:
`WinnersApart`, `ExpiredGoesToAWinner`, `OnlyACutLeavesTheKey`, `TypeCorrect`.

**UserServiceProofs.** From `UserAssumption`, for any topic, any number of workers and users, any
bounds. `IInv` beside the types: what waits in the pool or is worked on is about a message whose
number could be converted (`TaskMessages`, `Converted`); a worker between reading the balance and
the commit holds that user's row, and the row still has the balance read (`Balances`); the row in
the consumer's open transaction is new and of the current message (`Fresh`); every task in the
pool has its row, if only in that transaction, or a failure was ignored (`Backed`); and who is
about to commit a charge has the task table locked while that transaction holds no row
(`Scanned`). The last two are what `RowSaysCharged` needs: without the scan a charge could be
committed before its row. `ServiceImplementsLedger` follows step by step, a commit of the consumer
being a `Record` and a `Finish` a `Charge`; it needs the hypothesis `OneMessage` (two messages
about the same order say the same), because Ledger knows one owner and one price for an order;
PlaceOrder shows when ids, and so orders, may coincide. `AcceptedAreRecorded` adds `Covered`
(every message consumed in this life has its row, if only in the open transaction) and
`OpenOffset`. `ChargedOnce` counts: the charges of an order and the deliveries of this life that
may still charge it (`Live`) are together no more than its messages times the lives of the process
(`Counted`), because a message has one task, in the pool or with a worker (`OneTask`), and none
before the consumer adds it. Also `TypeCorrect`.

**Only model-checked.** Liveness under fairness (`Progress`, `ImplementsLending`,
`WorkConserving`, `EveryTaskStarts`, `ReachesDisk`, `HandlerExits`, `ClientsCleared`, `OrderEnds`,
`Settles`), which the prover cannot do, and the three violations of section 6.

## 6. What was found

Three runs show where the code does not do what it says:

1. **Quit may never return** (`QuitReturns`, `src/thread/CThreadPool.cpp:114`).
   `shutdown` is set and broadcast without the mutex. A worker that has tested it at line
   36 and not yet slept at line 39 misses both, and `Quit` joins it for ever. The
   comments promise to stop all the threads and wake all the waiting ones.
2. **Two persisters in userservice** (`FullMeansPersisting`, `src/userservice/userservicemain.cpp:211`).
   `LOG_INIT` runs at `include/userservice/userserviceglobal.h:14` and again there. Two threads then
   clear one ring, against what `src/log/log.cpp:213` takes for granted.
3. **A pass over the clients may never end** (`PassEnds`, `src/orderservice/CServer.cpp:234`).
   The pass remembers where it started by an iterator; once that entry is erased, the
   comparison of line 259 is with a dead node, and on an empty list `count` does not grow.

Behaviour that the models show and that contradicts no line of the repository, so that no run
is about it (most are entries of `hazards`):

- A late delivery report commits an order whose message is not in the topic, and an
  order that was rolled back may have a message that is consumed and charged.
- At midnight, and only then, one number can be given twice.
- From the hundredth order of a day the number has eleven digits, `stoi` throws, and
  the message is dropped.
- `total_money` is the price of one piece.
- The first purchase of a product by a user is rolled back, because the test for
  an existing relation is inverted, and no one retries it.
- Each restart of userservice charges every order of the topic once more.
- The task map is filled under the order's number and looked up under the task's; the
  clear task increments an erased iterator.
- `FreeResult` may free one result twice after a failing query.
- A thread that read the clock before midnight can set the date of the log back after another
  has set it forward: the persister then opens yesterday's file again, which truncates it, and
  with the next line today's, which truncates that (`include/log/log.h:53`, `src/log/log.cpp:249`). At
  the end of a month a date of the new day and the old month truncates the file of the first of the
  old month, and all of the new day goes there, as only the day is compared.
- The wait of the signal handler does not mean that the log is on disk (`include/log/log.h:186`): the
  persister may clear a buffer and go on to the next between the handler's reads of the pointer and
  of the length. The line of a logger that had passed the test of the level when the log was
  stopped, or what is in the full buffers behind, is then forgotten.
- When `fwrite` writes less than the buffer has (`include/log/log.h:144`), that is reported on
  stderr and the buffer is cleared all the same.
- `tryLockV2` answers false to the caller that makes the key: the lock cannot be won until the
  first lease, which nobody holds, is over. `tryLockV3` passes its 3 as part of the value, so its
  lock is for ever. `setnx` takes an error reply for success (`src/memdb/CRedis.cpp:72`, `:90`), so
  with V1 and V3 two callers may be told at a time that they have the lock. There is no unlock.
- The comment above `tryLockV2` fears that under contention the value is overwritten and nobody
  gets the lock; `ExpiredIsWon` shows that this takes a call longer than the lease.

## 7. What is not modelled

Besides the components named in section 1: the race of two first calls of `GetInstance` (each of
the two pools behaves as ConnPool says, but the bound on connections holds for each of them apart);
the lengths of log lines in bytes; a second signal while a handler runs; renames that fail and a
log directory that cannot be written (`_env_ok`); which part of a line a short `fwrite` leaves in
the file (RingLog leaves out whole lines, LogFiles takes what gets there for the buffer); a clock that is set back; the seconds for which the loop sleeps after a refused descriptor; amounts in
`buy_order` and `user_product_relation`; and the use of freed memory after
the undefined behaviours listed in section 6, beyond the outcomes "goes on" and
"the process dies". Each hazard in
`PROJECT.json` that no property covers says why.
