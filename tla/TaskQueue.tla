------------------------------ MODULE TaskQueue ------------------------------
(***************************************************************************)
(* What a pool of threads promises to whoever adds tasks to it, without    *)
(* saying how: a task is started once, by one worker, first in first out,  *)
(* and as long as the pool is not closed a free worker and a queued task   *)
(* meet.  CThreadPool (ThreadPool) implements this specification, and the  *)
(* user service (UserService) is written against it.  (What stays as it is *)
(* is written out, for a user may put a constant in the place of closed.)  *)
(***************************************************************************)
EXTENDS Sequences

CONSTANTS
  Worker,   \* the threads of the pool
  Task,     \* the tasks that may be added
  NoTask    \* what a free worker works on, not in Task

VARIABLES
  queue,    \* the tasks that no worker has started
  busy,     \* busy[w]: the task worker w executes, or NoTask
  closed    \* somebody asked the pool to end

vars == <<queue, busy, closed>>

Init ==
  /\ queue = <<>>
  /\ busy = [w \in Worker |-> NoTask]
  /\ closed = FALSE

Add(k) ==
  /\ queue' = Append(queue, k)
  /\ busy' = busy /\ closed' = closed

Start(w) ==
  /\ busy[w] = NoTask
  /\ queue # <<>>
  /\ busy' = [busy EXCEPT ![w] = Head(queue)]
  /\ queue' = Tail(queue)
  /\ closed' = closed

Finish(w) ==
  /\ busy[w] # NoTask
  /\ busy' = [busy EXCEPT ![w] = NoTask]
  /\ queue' = queue /\ closed' = closed

(* A worker may still start a task after this: it had made up its mind.    *)
Close ==
  /\ closed' = TRUE
  /\ UNCHANGED <<queue, busy>>

Next ==
  \/ \E k \in Task : Add(k)
  \/ \E w \in Worker : Start(w) \/ Finish(w)
  \/ Close

(***************************************************************************)
(* Weak fairness of starting, written without ENABLED: a free worker and a *)
(* queued task do not stay so for ever while nothing is started.  That a   *)
(* task ends is not promised: it is the caller's.                          *)
(***************************************************************************)
StartSome == \E w \in Worker : Start(w)

StartFairness ==
  \/ []<>(closed \/ queue = <<>> \/ \A w \in Worker : busy[w] # NoTask)
  \/ []<><<StartSome>>_vars

Safety == Init /\ [][Next]_vars
Spec == Safety /\ StartFairness
=============================================================================
