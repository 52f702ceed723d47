----------------------------- MODULE EventServer -----------------------------
(***************************************************************************)
(* The event loop of orderservice (CServer, CEventLoop, CEvent): one thread*)
(* that polls, runs the handler of every fired descriptor, accepts clients,*)
(* turns what they send into tasks, and every m_clearClientInterval seconds*)
(* clears the clients in its list, m_clearClientBatchNumber at a time.     *)
(* The thread's actions interleave with the peers', which connect, send    *)
(* and leave at any moment.                                                *)
(* Abstractions.  m_lastCommTime is set when the table of clients is made  *)
(* and never again, so the test of line 248 is true of every client.  The  *)
(* clock is a choice: a pass may be due at the end of any turn of the loop.*)
(* The task that RecvHandler hands to orderThreadPool is ThreadPool's      *)
(* AddTask and no state of this module.                                    *)
(***************************************************************************)
EXTENDS Integers, Sequences, FiniteSets, SequencesExt

CONSTANTS
  Fd,            \* the descriptors that accept may return
  SetSize,       \* m_setSize: descriptors from here on cannot be registered
  AcceptBatch,   \* m_acceptClientBatchNumber
  ClearBatch,    \* m_clearClientBatchNumber
  Garbage,       \* the descriptors whose mask is not 0 as malloc leaves it
  MaxListed      \* bound: entries of the list and connections to come

Listener == -1   \* the listening socket among the fired descriptors
Erased == 0      \* an iterator to an erased node: equal to no other

ASSUME ServerAssumption ==
  /\ Fd \subseteq Nat \ {0} /\ IsFiniteSet(Fd)
  /\ SetSize \in Nat /\ Garbage \subseteq Fd
  /\ AcceptBatch \in Nat \ {0} /\ ClearBatch \in Nat \ {0}
  /\ MaxListed \in Nat

VARIABLES
  pending,      \* connections in the backlog of the listening socket
  open,         \* accepted descriptors that were not closed
  epoll,        \* those in the epoll set
  data,         \* those with something to read
  gone,         \* those whose peer has left
  masked,       \* those with m_allEvents[fd].mask # AE_NONE
  client,       \* those with m_szClients[fd].m_fd = fd
  clientCount,  \* m_clientCount
  list,         \* m_waitClearClientList
  iter,         \* m_waitClearClientIter, as a position; Len(list) + 1 is end()
  pc,           \* "poll", "dispatch", "accept" or "clear"
  fired,        \* m_firedEvents still to be dispatched
  count,        \* count of AcceptHandler, or of processTimeEvents
  start         \* iterLastTime, as a position or Erased

peers == <<pending, data, gone>>
tables == <<open, epoll, masked, client, clientCount>>
clearing == <<list, iter, start>>
vars == <<peers, tables, clearing, pc, fired, count>>

End == Len(list) + 1

Init ==
  /\ pending = 0 /\ data = {} /\ gone = {}
  /\ open = {} /\ epoll = {} /\ masked = Garbage /\ client = {} /\ clientCount = 0
  /\ list = <<>> /\ iter = 1 /\ start = 1
  /\ pc = "poll" /\ fired = {} /\ count = 0
-------------------------------------------------------------------------------
(* The peers and the kernel. *)

Connect ==
  /\ Len(list) + pending < MaxListed
  /\ pending' = pending + 1
  /\ UNCHANGED <<data, gone, tables, clearing, pc, fired, count>>

Send(fd) ==
  /\ fd \in open \ (data \union gone)
  /\ data' = data \union {fd}
  /\ UNCHANGED <<pending, gone, tables, clearing, pc, fired, count>>

Leave(fd) ==
  /\ fd \in open \ gone
  /\ gone' = gone \union {fd}
  /\ UNCHANGED <<pending, data, tables, clearing, pc, fired, count>>

Ready == (IF pending > 0 THEN {Listener} ELSE {}) \union (epoll \intersect (data \union gone))

(* ApiPoll: what is ready when epoll_wait returns, at the latest after     *)
(* m_eventPollWaitTime, ready or not.                                      *)
ApiPoll ==
  /\ pc = "poll"
  /\ fired' = Ready
  /\ pc' = "dispatch"
  /\ UNCHANGED <<peers, tables, clearing, count>>
-------------------------------------------------------------------------------
(* AcceptHandler *)

AcceptHandler ==
  /\ pc = "dispatch"
  /\ Listener \in fired
  /\ fired' = fired \ {Listener}
  /\ count' = 0
  /\ pc' = "accept"
  /\ UNCHANGED <<peers, tables, clearing>>

(* createFileEvent succeeds: EPOLL_CTL_ADD or EPOLL_CTL_MOD, as the mask   *)
(* says, fits what is in the epoll set.                                    *)
CanRegister(fd) == fd < SetSize /\ (fd \in masked <=> fd \in epoll)

(* Mutant: a client that is accepted is not put in the list. *)
AcceptUnlisted(fd) ==
  /\ pc = "accept" /\ pending > 0 /\ count < AcceptBatch
  /\ fd \notin open
  /\ CanRegister(fd)
  /\ open' = open \union {fd} /\ epoll' = epoll \union {fd}
  /\ masked' = masked \union {fd} /\ client' = client \union {fd}
  /\ clientCount' = clientCount + 1
  /\ pending' = pending - 1
  /\ count' = count + 1
  /\ UNCHANGED <<data, gone, list, iter, start, pc, fired>>

(* createFileEvent, then AddClient. *)
AcceptClient(fd) ==
  /\ pc = "accept" /\ pending > 0 /\ count < AcceptBatch
  /\ fd \notin open
  /\ CanRegister(fd)
  /\ open' = open \union {fd} /\ epoll' = epoll \union {fd}
  /\ masked' = masked \union {fd} /\ client' = client \union {fd}
  /\ clientCount' = clientCount + 1
  /\ list' = Append(list, fd)
  /\ iter' = IF iter = End THEN iter + 1 ELSE iter
  /\ pending' = pending - 1
  /\ count' = count + 1
  /\ UNCHANGED <<data, gone, start, pc, fired>>

(* It fails: the socket is closed again (after sleep(1000)). *)
AcceptRefused(fd) ==
  /\ pc = "accept" /\ pending > 0 /\ count < AcceptBatch
  /\ fd \notin open
  /\ ~CanRegister(fd)
  /\ pending' = pending - 1
  /\ UNCHANGED <<data, gone, tables, clearing, pc, fired, count>>

(* accept finds nobody or no descriptor, or the batch is complete. *)
AcceptDone ==
  /\ pc = "accept"
  /\ pending = 0 \/ count = AcceptBatch \/ Fd \subseteq open
  /\ pc' = "dispatch"
  /\ UNCHANGED <<peers, tables, clearing, fired, count>>

Accepting ==
  \/ AcceptHandler
  \/ \E fd \in Fd : AcceptClient(fd) \/ AcceptRefused(fd)
  \/ AcceptDone
-------------------------------------------------------------------------------
(* Mutant: RemoveClient forgets deleteFileEvent. *)
RemoveKeepsMask(fd) ==
  /\ open' = open \ {fd} /\ epoll' = epoll \ {fd}
  /\ client' = client \ {fd}
  /\ clientCount' = clientCount - 1
  /\ data' = data \ {fd} /\ gone' = gone \ {fd}
  /\ UNCHANGED <<pending, masked>>

(* deleteFileEvent returns true: there is a mask, and EPOLL_CTL_DEL finds  *)
(* the descriptor.                                                         *)
Deletable(fd) == fd \in masked /\ fd \in epoll

(* RemoveClient: deleteFileEvent clears the mask before epoll_ctl has its  *)
(* say; the client is dropped and closed only if both succeed.             *)
RemoveClient(fd) ==
  /\ masked' = masked \ {fd}
  /\ IF Deletable(fd)
     THEN /\ open' = open \ {fd} /\ epoll' = epoll \ {fd}
          /\ client' = client \ {fd}
          /\ clientCount' = clientCount - 1
          /\ data' = data \ {fd} /\ gone' = gone \ {fd}
     ELSE UNCHANGED <<open, epoll, client, clientCount, data, gone>>
  /\ UNCHANGED pending

(* RecvHandler: there is something to read, an order is placed. *)
RecvOrder(fd) ==
  /\ pc = "dispatch" /\ fd \in fired
  /\ fd \in masked /\ fd \in client
  /\ fd \in data
  /\ data' = data \ {fd}
  /\ fired' = fired \ {fd}
  /\ UNCHANGED <<pending, gone, tables, clearing, pc, count>>

(* The peer has left; or the mask is empty, or there is no client.         *)
RecvEnd(fd) ==
  /\ pc = "dispatch" /\ fd \in fired
  /\ IF fd \in masked /\ fd \in client
     THEN fd \in gone \ data /\ RemoveClient(fd)
     ELSE UNCHANGED <<peers, tables>>
  /\ fired' = fired \ {fd}
  /\ UNCHANGED <<clearing, pc, count>>

RecvHandler(fd) == RecvOrder(fd) \/ RecvEnd(fd)
-------------------------------------------------------------------------------
(* processTimeEvents *)

NoPass ==
  /\ pc = "dispatch" /\ fired = {}
  /\ pc' = "poll"
  /\ UNCHANGED <<peers, tables, clearing, fired, count>>

(* Mutant: the pass is made before the last events are dispatched. *)
StartPassEarly ==
  /\ pc = "dispatch"
  /\ list # <<>>
  /\ pc' = "clear"
  /\ start' = iter
  /\ count' = 0
  /\ UNCHANGED <<peers, tables, list, iter, fired>>

StartPass ==
  /\ pc = "dispatch" /\ fired = {}
  /\ list # <<>>
  /\ pc' = "clear"
  /\ start' = iter
  /\ count' = 0
  /\ UNCHANGED <<peers, tables, list, iter, fired>>

(* The end of the loop's body: leave it on coming back to iterLastTime.    *)
ComeBack(i, s) == pc' = IF i = s THEN "poll" ELSE "clear"

(* Mutant: the pass ends at the end of the list. *)
NoWrap ==
  /\ pc = "clear" /\ count < ClearBatch
  /\ iter = End
  /\ pc' = "poll"
  /\ UNCHANGED <<peers, tables, list, iter, start, fired, count>>

Wrap ==
  /\ pc = "clear" /\ count < ClearBatch
  /\ iter = End
  /\ iter' = 1
  /\ ComeBack(1, start)
  /\ UNCHANGED <<peers, tables, list, start, fired, count>>

(* erase(m_waitClearClientIter): iter is now at the next entry; positions  *)
(* after it, end() among them, move down by one.                           *)
EraseEntry ==
  /\ list' = RemoveAt(list, iter)
  /\ start' = IF start = iter THEN Erased
              ELSE IF start > iter THEN start - 1 ELSE start
  /\ ComeBack(iter, start')
  /\ UNCHANGED iter

ClearStale ==
  /\ pc = "clear" /\ count < ClearBatch
  /\ iter # End
  /\ list[iter] \notin client
  /\ EraseEntry
  /\ count' = count + 1
  /\ UNCHANGED <<peers, tables, fired>>

(* The entry goes even if RemoveClient failed. *)
ClearClient ==
  /\ pc = "clear" /\ count < ClearBatch
  /\ iter # End
  /\ list[iter] \in client
  /\ RemoveClient(list[iter])
  /\ EraseEntry
  /\ count' = count + 1
  /\ UNCHANGED fired

BatchDone ==
  /\ pc = "clear" /\ count = ClearBatch
  /\ pc' = "poll"
  /\ UNCHANGED <<peers, tables, clearing, fired, count>>

Pass == Wrap \/ ClearStale \/ ClearClient \/ BatchDone
-------------------------------------------------------------------------------
(* AeMain *)
Loop ==
  \/ ApiPoll \/ Accepting \/ (\E fd \in Fd : RecvHandler(fd))
  \/ NoPass \/ StartPass \/ Pass

Peers == Connect \/ \E fd \in Fd : Send(fd) \/ Leave(fd)

Next == Loop \/ Peers

(* The loop runs, and its clock reaches m_nextClearClientTime again and    *)
(* again.  Nothing makes a peer act.                                       *)
Fairness == WF_vars(Loop) /\ SF_vars(StartPass)

Spec == Init /\ [][Next]_vars
FairSpec == Spec /\ Fairness
-------------------------------------------------------------------------------
TypeOK ==
  /\ pending \in 0..MaxListed
  /\ open \subseteq Fd /\ epoll \subseteq Fd /\ data \subseteq Fd /\ gone \subseteq Fd
  /\ masked \subseteq Fd /\ client \subseteq Fd
  /\ clientCount \in 0..Cardinality(Fd)
  /\ list \in Seq(Fd) /\ Len(list) + pending <= MaxListed
  /\ iter \in 1..End /\ start \in 0..End
  /\ pc \in {"poll", "dispatch", "accept", "clear"}
  /\ fired \subseteq Fd \union {Listener}
  /\ count \in 0..AcceptBatch \union 0..ClearBatch

(* The three tables and the two kernel sets agree: a descriptor is open    *)
(* exactly while it is in the epoll set, has a mask and is a client, and   *)
(* m_clientCount counts them, although AddClient, RecvHandler and the      *)
(* clear pass remove and reuse descriptors in any order.  One whose mask   *)
(* was never cleared (CEventLoop.cpp:26) is refused each time.             *)
TablesAgree ==
  /\ open = client /\ epoll = client /\ masked = client \union Garbage
  /\ client \intersect Garbage = {}
  /\ clientCount = Cardinality(client)

(* Every client is in the list, so a later pass finds it: the stale        *)
(* entries of clients that left, which may name a descriptor in use again, *)
(* never take the place of the new client's own entry.                     *)
ClientsListed == client \subseteq Range(list)

(* An event that waits for its handler belongs to a client that is still   *)
(* there and has something to read or an end to see: recv on the accepted  *)
(* sockets, which block, cannot stop the loop, nor read from a client that *)
(* took the descriptor over after epoll_wait.                              *)
EventsReadable ==
  fired \ {Listener} \subseteq client \intersect (data \union gone)

(* The pass that finds the list empty away from where it started.          *)
Spinning == pc = "clear" /\ list = <<>> /\ start = Erased /\ count < ClearBatch

(* Every client is eventually removed, by its peer or by a pass, however   *)
(* many stale entries and new clients there are, unless the pass spins or  *)
(* refused connections, which AcceptHandler does not count, keep coming.   *)
Refusing == \E fd \in Fd : AcceptRefused(fd)

ClientsCleared ==
  \/ []<><<Refusing>>_vars
  \/ \A fd \in Fd : fd \in client ~> (fd \notin client \/ Spinning)

(* processTimeEvents returns to the loop: it visits m_clearClientBatchNumber*)
(* entries or, as its last message says, breaks when it comes back to the  *)
(* entry it started from.                                                  *)
PassEnds == pc = "clear" ~> pc # "clear"
===============================================================================
