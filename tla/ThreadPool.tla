------------------------------ MODULE ThreadPool ------------------------------
(***************************************************************************)
(* CThreadPool: workers that share a list of tasks behind one mutex and    *)
(* one condition variable, the AddTask that fills the list and the Quit    *)
(* that ends the workers.                                                  *)
(* The worker's critical section is cut into its reads of shutdown,        *)
(* because Quit writes shutdown WITHOUT the mutex: at lines 36 and 44, and *)
(* between the test of line 36 and the sleep of line 39.  AddTask's        *)
(* critical section touches nothing but the list and is one action.        *)
(* A task whose Run throws leaves its worker where a task that returns     *)
(* does (goto loop); its object is not deleted, which no property is about.*)
(***************************************************************************)
EXTENDS Integers, Sequences, FiniteSets, Functions

CONSTANTS
  Worker,     \* the threads of the pool
  Producer,   \* the threads that call AddTask
  Quitter,    \* the thread that calls Quit: a singleton, or empty
  Task,       \* the tasks, each added at most once
  NoTask,
  NoOwner     \* the owner of an unlocked mutex

ASSUME ThreadPoolAssumption ==
  /\ IsFiniteSet(Worker) /\ IsFiniteSet(Producer)
  /\ Worker \intersect Producer = {}
  /\ Worker \intersect Quitter = {} /\ Producer \intersect Quitter = {}
  /\ \A p, q \in Quitter : p = q
  /\ NoTask \notin Task
  /\ NoOwner \notin Worker

VARIABLES
  taskList,   \* m_vecTaskList
  mutex,      \* the worker that holds m_pthreadMutex, or NoOwner
  shutdown,
  pc,
  running,    \* running[w]: the task whose Run worker w executes, or NoTask
  added,      \* history: the tasks in the order AddTask was called
  started     \* history: the tasks in the order workers took them

vars == <<taskList, mutex, shutdown, pc, running, added, started>>

Thread == Worker \union Producer \union Quitter

WorkerAt == {"lock", "test", "sleep", "wait", "decide", "pop", "run", "exited"}
ProducerAt == {"idle", "signal"}
QuitterAt == {"idle", "set", "broadcast", "join", "done"}

At(l) == {t \in Thread : pc[t] = l}
Goto(t, l) == pc' = [pc EXCEPT ![t] = l]
Wake(W) == [t \in Thread |-> IF t \in W THEN "lock" ELSE pc[t]]

Init ==
  /\ taskList = <<>>
  /\ mutex = NoOwner
  /\ shutdown = FALSE
  /\ pc = [t \in Thread |-> IF t \in Worker THEN "lock" ELSE "idle"]
  /\ running = [w \in Worker |-> NoTask]
  /\ added = <<>>
  /\ started = <<>>
-------------------------------------------------------------------------------
(* ThreadFunc *)

Lock(w) ==
  /\ pc[w] = "lock"
  /\ mutex = NoOwner
  /\ mutex' = w
  /\ Goto(w, "test")
  /\ UNCHANGED <<taskList, shutdown, running, added, started>>

(* Mutant: the predicate is not tested again after a wake-up. *)
TestOnce(w) ==
  /\ pc[w] = "test"
  /\ Goto(w, "decide")
  /\ UNCHANGED <<taskList, mutex, shutdown, running, added, started>>

(* Line 36, evaluated with the mutex held: sleep, or leave the loop. *)
Test(w) ==
  /\ pc[w] = "test"
  /\ Goto(w, IF taskList = <<>> /\ ~shutdown THEN "sleep" ELSE "decide")
  /\ UNCHANGED <<taskList, mutex, shutdown, running, added, started>>

(* pthread_cond_wait gives the mutex back and sleeps in one step. *)
CondWait(w) ==
  /\ pc[w] = "sleep"
  /\ mutex' = NoOwner
  /\ Goto(w, "wait")
  /\ UNCHANGED <<taskList, shutdown, running, added, started>>

SpuriousWakeup(w) ==
  /\ pc[w] = "wait"
  /\ Goto(w, "lock")
  /\ UNCHANGED <<taskList, mutex, shutdown, running, added, started>>

(* Line 44: shutdown is read again. *)
Exit(w) ==
  /\ pc[w] = "decide"
  /\ shutdown
  /\ mutex' = NoOwner
  /\ Goto(w, "exited")
  /\ UNCHANGED <<taskList, shutdown, running, added, started>>

GoOn(w) ==
  /\ pc[w] = "decide"
  /\ ~shutdown
  /\ Goto(w, "pop")
  /\ UNCHANGED <<taskList, mutex, shutdown, running, added, started>>

(* Mutant: the newest task is taken first. *)
PopLast(w) ==
  /\ pc[w] = "pop"
  /\ taskList # <<>>
  /\ running' = [running EXCEPT ![w] = taskList[Len(taskList)]]
  /\ started' = Append(started, taskList[Len(taskList)])
  /\ taskList' = SubSeq(taskList, 1, Len(taskList) - 1)
  /\ mutex' = NoOwner
  /\ Goto(w, "run")
  /\ UNCHANGED <<shutdown, added>>

(* Lines 52-61: the front of the list is dereferenced, erased, and the     *)
(* mutex released.  An empty list here would be undefined behaviour: see   *)
(* PopsSomething.                                                          *)
Pop(w) ==
  /\ pc[w] = "pop"
  /\ taskList # <<>>
  /\ running' = [running EXCEPT ![w] = Head(taskList)]
  /\ started' = Append(started, Head(taskList))
  /\ taskList' = Tail(taskList)
  /\ mutex' = NoOwner
  /\ Goto(w, "run")
  /\ UNCHANGED <<shutdown, added>>

(* task->Run returns and the task is deleted, or it throws and the worker  *)
(* goes back to the loop.                                                  *)
RunEnds(w) ==
  /\ pc[w] = "run"
  /\ running' = [running EXCEPT ![w] = NoTask]
  /\ Goto(w, "lock")
  /\ UNCHANGED <<taskList, mutex, shutdown, added, started>>

InPool(w) ==
  \/ Lock(w) \/ Test(w) \/ CondWait(w) \/ Exit(w) \/ GoOn(w) \/ Pop(w)
-------------------------------------------------------------------------------
(* AddTask: lock, push_back, unlock; then signal. *)
AddTask(p) ==
  /\ pc[p] = "idle"
  /\ mutex = NoOwner
  /\ At("done") = {}
  /\ \E k \in Task \ Range(added) :
       /\ taskList' = Append(taskList, k)
       /\ added' = Append(added, k)
  /\ Goto(p, "signal")
  /\ UNCHANGED <<mutex, shutdown, running, started>>

SignalNobody(p) ==
  /\ pc[p] = "signal"
  /\ At("wait") = {}
  /\ Goto(p, "idle")
  /\ UNCHANGED <<taskList, mutex, shutdown, running, added, started>>

(* Mutant: no sleeper is woken when the list holds several tasks. *)
SignalIfFirst(p) ==
  /\ pc[p] = "signal"
  /\ \E w \in At("wait") :
       pc' = [pc EXCEPT ![p] = "idle",
                        ![w] = IF Len(taskList) <= 1 THEN "lock" ELSE "wait"]
  /\ UNCHANGED <<taskList, mutex, shutdown, running, added, started>>

(* Mutant: the signal is forgotten. *)
SignalForgotten(p) ==
  /\ pc[p] = "signal"
  /\ At("wait") # {}
  /\ Goto(p, "idle")
  /\ UNCHANGED <<taskList, mutex, shutdown, running, added, started>>

SignalOne(p) ==
  /\ pc[p] = "signal"
  /\ \E w \in At("wait") : pc' = [pc EXCEPT ![p] = "idle", ![w] = "lock"]
  /\ UNCHANGED <<taskList, mutex, shutdown, running, added, started>>

Signal(p) == SignalNobody(p) \/ SignalOne(p)
-------------------------------------------------------------------------------
(* Quit.  A second call returns false at line 109 and changes nothing. *)
QuitCheck(q) ==
  /\ pc[q] = "idle"
  /\ ~shutdown
  /\ Goto(q, "set")
  /\ UNCHANGED <<taskList, mutex, shutdown, running, added, started>>

QuitSet(q) ==
  /\ pc[q] = "set"
  /\ shutdown' = TRUE
  /\ Goto(q, "broadcast")
  /\ UNCHANGED <<taskList, mutex, running, added, started>>

QuitBroadcast(q) ==
  /\ pc[q] = "broadcast"
  /\ pc' = [Wake(At("wait")) EXCEPT ![q] = "join"]
  /\ UNCHANGED <<taskList, mutex, shutdown, running, added, started>>

(* Mutant: only some worker is waited for before the mutex is destroyed. *)
QuitJoinsOne(q) ==
  /\ pc[q] = "join"
  /\ \E w \in Worker : pc[w] = "exited"
  /\ Goto(q, "done")
  /\ UNCHANGED <<taskList, mutex, shutdown, running, added, started>>

(* All the workers joined: the mutex and the condition are destroyed. *)
QuitJoin(q) ==
  /\ pc[q] = "join"
  /\ \A w \in Worker : pc[w] = "exited"
  /\ Goto(q, "done")
  /\ UNCHANGED <<taskList, mutex, shutdown, running, added, started>>

QuitStep(q) == QuitSet(q) \/ QuitBroadcast(q) \/ QuitJoin(q)
-------------------------------------------------------------------------------
WorkerStep(w) == InPool(w) \/ SpuriousWakeup(w) \/ RunEnds(w)
ProducerStep(p) == AddTask(p) \/ Signal(p)
QuitterStep(q) == QuitCheck(q) \/ QuitStep(q)

Next ==
  \/ \E w \in Worker : WorkerStep(w)
  \/ \E p \in Producer : ProducerStep(p)
  \/ \E q \in Quitter : QuitterStep(q)

(* The scheduler runs every thread that is not blocked.  That a task ends  *)
(* is assumed apart, in RunsEnd: its Run waits for MySQL, Redis and Kafka. *)
Fairness ==
  /\ \A w \in Worker : WF_vars(InPool(w))
  /\ \A p \in Producer : WF_vars(Signal(p))
  /\ \A q \in Quitter : WF_vars(QuitStep(q))

RunsEnd == \A w \in Worker : WF_vars(RunEnds(w))

Spec == Init /\ [][Next]_vars
SchedulerSpec == Spec /\ Fairness
FairSpec == SchedulerSpec /\ RunsEnd
-------------------------------------------------------------------------------
Holding == {"test", "sleep", "decide", "pop"}

TypeOK ==
  /\ taskList \in Seq(Task)
  /\ mutex \in Worker \union {NoOwner}
  /\ shutdown \in BOOLEAN
  /\ pc \in [Thread -> WorkerAt \union ProducerAt \union QuitterAt]
  /\ \A w \in Worker : pc[w] \in WorkerAt
  /\ \A p \in Producer : pc[p] \in ProducerAt
  /\ \A q \in Quitter : pc[q] \in QuitterAt
  /\ running \in [Worker -> Task \union {NoTask}]
  /\ \A w \in Worker : running[w] # NoTask <=> pc[w] = "run"
  /\ added \in Seq(Task)
  /\ started \in Seq(Task)

(* The worker that dereferences begin() (line 54, before the test of line  *)
(* 55) finds a task there, although shutdown may be set at any moment and  *)
(* other workers empty the list.                                           *)
PopsSomething == \A w \in Worker : pc[w] = "pop" => taskList # <<>>

(* Tasks are started in the order in which they were added, and none is    *)
(* lost or started twice: what was added is what was started, followed by  *)
(* what is still in the list.                                              *)
InOrder == added = started \o taskList

(* No task is executed by two workers, or executed while it is queued: its *)
(* object is deleted by the one worker that ran it.                        *)
OneOwner ==
  /\ \A v, w \in Worker : running[v] = running[w] /\ running[v] # NoTask => v = w
  /\ \A w \in Worker : running[w] \notin Range(taskList)

(* A worker sleeps only while each queued task has a thread that will see  *)
(* it: a worker on its way to the list, or an AddTask about to signal.     *)
Coming == {w \in Worker : pc[w] \in {"lock", "test", "decide", "pop"}}
            \union {p \in Producer : pc[p] = "signal"}

NoLostWakeup ==
  ~shutdown /\ At("wait") # {} => Len(taskList) <= Cardinality(Coming)

(* When Quit destroys the mutex and the condition variable, no worker      *)
(* holds the one, sleeps on the other, or runs a task.                     *)
DestroysUnused ==
  At("done") # {} =>
    /\ mutex = NoOwner
    /\ At("wait") = {}
    /\ \A w \in Worker : running[w] = NoTask

(* What the pool promises (TaskQueue): its queue is the list, and a worker *)
(* is busy from the moment it takes a task off the list until Run is over. *)
Queue == INSTANCE TaskQueue WITH
           queue <- taskList, busy <- running, closed <- shutdown

(* Seen from outside, the critical sections, the sleeping and the flag     *)
(* that Quit sets without the mutex are a queue: tasks are started first   *)
(* in first out, none lost, none twice, one at a time by each worker.      *)
ImplementsQueue == Queue!Safety

(* A free worker and a queued task meet, whatever the tasks being executed *)
(* do: only while the list is empty or every worker is busy may no task be *)
(* started for ever (as long as nobody calls Quit).                        *)
WorkConserving == Queue!StartFairness

(* Every task that was added is executed, if every Run ends and nobody     *)
(* calls Quit.                                                             *)
EveryTaskStarts ==
  RunsEnd =>
    \A k \in Task : k \in Range(added) ~> (shutdown \/ k \in Range(started))

(* Quit ends: every worker exits, sleeping or not (line 104: it stops all  *)
(* the threads; line 113: it wakes all the waiting ones).                  *)
QuitReturns == \A q \in Quitter : pc[q] = "set" ~> pc[q] = "done"
===============================================================================
