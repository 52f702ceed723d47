--------------------------- MODULE EventServerProofs ---------------------------
(***************************************************************************)
(* Theorems about the event server for every set of descriptors, every     *)
(* size of its tables and every batch.  The state properties together are  *)
(* inductive: that an event is readable rests on the tables agreeing, that *)
(* the list knows every client rests on the iterator being in it, and a    *)
(* pass cannot spoil an event because none is fired then (NoneFired).      *)
(***************************************************************************)
EXTENDS EventServer, FiniteSetTheorems, TLAPS

NoneFired == pc \in {"poll", "clear"} => fired = {}

Inv == TypeOK /\ TablesAgree /\ ClientsListed /\ EventsReadable /\ NoneFired

LEMMA ConcatAt ==
  ASSUME NEW S, NEW a \in Seq(S), NEW b \in Seq(S)
  PROVE  /\ a \o b \in Seq(S)
         /\ Len(a \o b) = Len(a) + Len(b)
         /\ \A k \in 1..Len(a) : (a \o b)[k] = a[k]
         /\ \A k \in 1..Len(b) : (a \o b)[Len(a) + k] = b[k]
OBVIOUS

(* Erasing an entry keeps the others in the list. *)
LEMMA EraseKeeps ==
  ASSUME NEW S, NEW s \in Seq(S), NEW i \in 1..Len(s)
  PROVE  /\ RemoveAt(s, i) \in Seq(S)
         /\ Len(RemoveAt(s, i)) = Len(s) - 1
         /\ Range(s) \ {s[i]} \subseteq Range(RemoveAt(s, i))
<1>0. SubSeq(s, 1, i - 1) \in Seq(S) /\ SubSeq(s, i + 1, Len(s)) \in Seq(S)
  OBVIOUS
<1>1. PICK r \in Seq(S) : r = SubSeq(s, 1, i - 1)
  BY <1>0
<1>2. PICK q \in Seq(S) : q = SubSeq(s, i + 1, Len(s))
  BY <1>0
<1>3. /\ r \o q \in Seq(S)
      /\ Len(r \o q) = Len(s) - 1
      /\ \A k \in 1..i - 1 : (r \o q)[k] = s[k]
      /\ \A k \in 1..Len(s) - i : (r \o q)[i - 1 + k] = s[k + i]
  <2>1. /\ r \o q \in Seq(S)
        /\ Len(r \o q) = Len(r) + Len(q)
        /\ \A k \in 1..Len(r) : (r \o q)[k] = r[k]
        /\ \A k \in 1..Len(q) : (r \o q)[Len(r) + k] = q[k]
    BY ONLY r \in Seq(S), q \in Seq(S), ConcatAt
  <2>2. Len(r) = i - 1 /\ \A k \in 1..i - 1 : r[k] = s[k]
    BY <1>1
  <2>3. Len(q) = Len(s) - i /\ \A k \in 1..Len(s) - i : q[k] = s[k + i]
    BY <1>2
  <2>4. Len(r \o q) = Len(s) - 1
    BY <2>1, <2>2, <2>3
  <2> QED BY <2>1, <2>2, <2>3, <2>4
<1>4. ASSUME NEW k \in 1..Len(s), k # i
      PROVE  \E j \in 1..Len(r \o q) : (r \o q)[j] = s[k]
  <2>1. CASE k < i
    <3>1. k \in 1..i - 1 /\ k \in 1..Len(s) - 1
      BY <2>1
    <3> QED BY <1>3, <3>1
  <2>2. CASE k > i
    <3>1. k - i \in 1..Len(s) - i /\ i - 1 + (k - i) = k - 1 /\ k - i + i = k
      BY <2>2
    <3>2. (r \o q)[i - 1 + (k - i)] = s[(k - i) + i]
      BY <1>3, <3>1
    <3>3. k - 1 \in 1..Len(r \o q)
      <4>1. Len(r \o q) = Len(s) - 1 /\ Len(s) \in Nat
        BY <1>3
      <4> QED BY <4>1, <2>2
    <3> QED BY <3>1, <3>2, <3>3
  <2> QED BY <1>4, <2>1, <2>2
<1>5. RemoveAt(s, i) = r \o q
  BY <1>1, <1>2 DEF RemoveAt
<1>6. ASSUME NEW y \in Range(s), y # s[i] PROVE y \in Range(r \o q)
  <2>1. PICK k \in 1..Len(s) : y = s[k]
    BY DEF Range
  <2>2. PICK j \in 1..Len(r \o q) : (r \o q)[j] = s[k]
    BY <1>4, <1>6, <2>1
  <2>3. DOMAIN (r \o q) = 1..Len(r \o q)
    BY <1>3
  <2> QED BY <2>1, <2>2, <2>3 DEF Range
<1> QED BY <1>3, <1>5, <1>6

LEMMA PushKeeps ==
  ASSUME NEW S, NEW s \in Seq(S), NEW x \in S
  PROVE  /\ Append(s, x) \in Seq(S)
         /\ Len(Append(s, x)) = Len(s) + 1
         /\ Range(s) \union {x} \subseteq Range(Append(s, x))
<1>1. /\ Append(s, x) \in Seq(S) /\ Len(Append(s, x)) = Len(s) + 1
      /\ Append(s, x)[Len(s) + 1] = x
      /\ \A k \in 1..Len(s) : Append(s, x)[k] = s[k]
  OBVIOUS
<1> HIDE DEF Range
<1>2. ASSUME NEW y \in Range(s) PROVE y \in Range(Append(s, x))
  <2>1. PICK k \in 1..Len(s) : y = s[k]
    BY DEF Range
  <2> QED BY <1>1, <2>1 DEF Range
<1>3. x \in Range(Append(s, x))
  BY <1>1 DEF Range
<1> QED BY <1>1, <1>2, <1>3

LEMMA InitInv == Init => Inv
<1> SUFFICES ASSUME Init PROVE Inv
  OBVIOUS
<1>1. Cardinality({}) = 0 /\ Cardinality(Fd) \in Nat
  BY FS_EmptySet, FS_CardinalityType, ServerAssumption
<1>2. list \in Seq(Fd) /\ Len(list) = 0 /\ Range(list) = {}
  BY DEF Init, Range
<1> QED
  BY <1>1, <1>2, ServerAssumption
  DEF Init, Inv, TypeOK, TablesAgree, ClientsListed, EventsReadable, NoneFired, End

(* The tables after a client was added, and after one was removed.         *)
LEMMA AddAgrees ==
  ASSUME Inv, NEW fd \in Fd, fd \notin open,
         open' = open \union {fd}, epoll' = epoll \union {fd},
         masked' = masked \union {fd}, client' = client \union {fd},
         clientCount' = clientCount + 1, fd \notin Garbage
  PROVE  TablesAgree' /\ client' \subseteq Fd /\ clientCount' \in 0..Cardinality(Fd)
<1>1. client \subseteq Fd /\ IsFiniteSet(client) /\ fd \notin client
  BY FS_Subset, ServerAssumption DEF Inv, TypeOK, TablesAgree
<1>2. Cardinality(client \union {fd}) = Cardinality(client) + 1
  BY <1>1, FS_AddElement
<1>3. TablesAgree'
  BY <1>2 DEF Inv, TablesAgree
<1>4. client' \subseteq Fd
  BY <1>1
<1>5. Cardinality(client') \in 0..Cardinality(Fd)
  <2>1. IsFiniteSet(Fd) /\ Cardinality(Fd) \in Nat
    BY FS_CardinalityType, ServerAssumption
  <2>2. IsFiniteSet(client') /\ Cardinality(client') <= Cardinality(Fd)
    BY <2>1, <1>4, FS_Subset
  <2>3. Cardinality(client') \in Nat
    BY <2>2, FS_CardinalityType
  <2> QED BY <2>1, <2>2, <2>3
<1> QED BY <1>3, <1>4, <1>5 DEF TablesAgree

LEMMA RemoveAgrees ==
  ASSUME Inv, NEW fd \in client, RemoveClient(fd)
  PROVE  /\ TablesAgree' /\ client' = client \ {fd}
         /\ clientCount' \in 0..Cardinality(Fd)
         /\ data' = data \ {fd} /\ gone' = gone \ {fd} /\ pending' = pending
<1>1. client \subseteq Fd /\ IsFiniteSet(client) /\ fd \in masked /\ fd \in epoll
  BY FS_Subset, ServerAssumption DEF Inv, TypeOK, TablesAgree
<1>2. /\ open' = open \ {fd} /\ epoll' = epoll \ {fd} /\ masked' = masked \ {fd}
      /\ client' = client \ {fd} /\ clientCount' = clientCount - 1
      /\ data' = data \ {fd} /\ gone' = gone \ {fd} /\ pending' = pending
  BY <1>1 DEF RemoveClient, Deletable
<1>3. Cardinality(client \ {fd}) = Cardinality(client) - 1
  BY <1>1, FS_RemoveElement
<1>4. TablesAgree'
  BY <1>2, <1>3 DEF Inv, TablesAgree
<1>5. client' \subseteq Fd
  BY <1>1, <1>2
<1>6. Cardinality(client') \in 0..Cardinality(Fd)
  <2>1. IsFiniteSet(Fd) /\ Cardinality(Fd) \in Nat
    BY FS_CardinalityType, ServerAssumption
  <2>2. IsFiniteSet(client') /\ Cardinality(client') <= Cardinality(Fd)
    BY <2>1, <1>5, FS_Subset
  <2>3. Cardinality(client') \in Nat
    BY <2>2, FS_CardinalityType
  <2> QED BY <2>1, <2>2, <2>3
<1> QED BY <1>2, <1>4, <1>6 DEF TablesAgree

(* What erasing the entry under the iterator leaves of the list's types.   *)
LEMMA EraseTypes ==
  ASSUME Inv, iter # End, EraseEntry
  PROVE  /\ list' \in Seq(Fd) /\ Len(list') = Len(list) - 1
         /\ iter' \in 1..End' /\ start' \in 0..End' /\ pc' \in {"poll", "clear"}
         /\ Range(list) \ {list[iter]} \subseteq Range(list')
<1>1. list \in Seq(Fd) /\ iter \in 1..Len(list) /\ start \in 0..Len(list) + 1
      /\ Len(list) \in Nat
  BY DEF Inv, TypeOK, End
<1>2. /\ list' = RemoveAt(list, iter) /\ iter' = iter
      /\ start' = IF start = iter THEN 0
                  ELSE IF start > iter THEN start - 1 ELSE start
      /\ pc' \in {"poll", "clear"}
  BY DEF EraseEntry, ComeBack, Erased
<1>3. /\ list' \in Seq(Fd) /\ Len(list') = Len(list) - 1
      /\ Range(list) \ {list[iter]} \subseteq Range(list')
  BY <1>1, <1>2, EraseKeeps
<1>4. iter' \in 1..End' /\ start' \in 0..End'
  <2>1. End' = Len(list)
    BY <1>1, <1>3 DEF End
  <2> QED BY <1>1, <1>2, <2>1
<1> QED BY <1>2, <1>3, <1>4

LEMMA StepInv == Inv /\ [Next]_vars => Inv'
<1> SUFFICES ASSUME Inv, [Next]_vars PROVE Inv'
  OBVIOUS
<1>1. TypeOK /\ TablesAgree /\ ClientsListed /\ EventsReadable /\ NoneFired
  BY DEF Inv
<1>2. /\ list \in Seq(Fd) /\ Len(list) \in Nat /\ pending \in Nat
      /\ Len(list) + pending <= MaxListed /\ MaxListed \in Nat
      /\ Listener \notin Fd
  BY <1>1, ServerAssumption DEF TypeOK, Listener
<1>3. CASE Connect
  BY <1>1, <1>2, <1>3 DEF Connect, tables, clearing, Inv, TypeOK, TablesAgree,
     ClientsListed, EventsReadable, NoneFired, End
<1>4. CASE \E fd \in Fd : Send(fd) \/ Leave(fd)
  BY <1>1, <1>4 DEF Send, Leave, tables, clearing, Inv, TypeOK, TablesAgree,
     ClientsListed, EventsReadable, NoneFired, End
<1>5. CASE ApiPoll
  BY <1>1, <1>5 DEF ApiPoll, Ready, peers, tables, clearing, Inv, TypeOK, TablesAgree,
     ClientsListed, EventsReadable, NoneFired, End
<1>6. CASE AcceptHandler \/ AcceptDone \/ NoPass
  <2>1. UNCHANGED <<pending, data, gone, open, epoll, masked, client, clientCount,
                    list, iter, start>>
    BY <1>6 DEF AcceptHandler, AcceptDone, NoPass, peers, tables, clearing
  <2>2. count' \in 0..AcceptBatch \union 0..ClearBatch
    BY <1>1, <1>6, ServerAssumption DEF TypeOK, AcceptHandler, AcceptDone, NoPass
  <2>3. /\ fired' \subseteq fired
        /\ pc' \in {"accept", "dispatch", "poll"}
        /\ pc' = "poll" => fired' = {}
    BY <1>6 DEF AcceptHandler, AcceptDone, NoPass
  <2>4. TypeOK'
    BY <1>1, <2>1, <2>2, <2>3 DEF TypeOK, End
  <2>5. TablesAgree' /\ ClientsListed'
    BY <1>1, <2>1 DEF TablesAgree, ClientsListed
  <2>6. EventsReadable' /\ NoneFired'
    BY <1>1, <2>1, <2>3 DEF EventsReadable, NoneFired
  <2> QED BY <2>4, <2>5, <2>6 DEF Inv
<1>7. ASSUME NEW fd \in Fd, AcceptClient(fd) PROVE Inv'
  <2>0. fd \notin Garbage
    BY <1>1, <1>7 DEF AcceptClient, CanRegister, TablesAgree
  <2>1. TablesAgree' /\ client' \subseteq Fd /\ clientCount' \in 0..Cardinality(Fd)
    BY <1>7, <2>0, AddAgrees DEF AcceptClient
  <2>2. /\ list' \in Seq(Fd) /\ Len(list') = Len(list) + 1
        /\ Range(list) \union {fd} \subseteq Range(list')
    BY <1>2, <1>7, PushKeeps DEF AcceptClient
  <2>3. TypeOK'
    BY <1>1, <1>2, <1>7, <2>1, <2>2, ServerAssumption
    DEF AcceptClient, TypeOK, TablesAgree, End
  <2>4. ClientsListed'
    BY <1>1, <1>7, <2>2 DEF AcceptClient, ClientsListed
  <2>5. EventsReadable' /\ NoneFired'
    BY <1>1, <1>7 DEF AcceptClient, EventsReadable, NoneFired
  <2> QED BY <2>1, <2>3, <2>4, <2>5 DEF Inv
<1>8. ASSUME NEW fd \in Fd, AcceptRefused(fd) PROVE Inv'
  BY <1>1, <1>2, <1>8 DEF AcceptRefused, tables, clearing, Inv, TypeOK, TablesAgree,
     ClientsListed, EventsReadable, NoneFired, End
<1>9. ASSUME NEW fd \in Fd, RecvOrder(fd) PROVE Inv'
  BY <1>1, <1>9 DEF RecvOrder, tables, clearing, Inv, TypeOK, TablesAgree,
     ClientsListed, EventsReadable, NoneFired, End
<1>10. ASSUME NEW fd \in Fd, RecvEnd(fd) PROVE Inv'
  <2>1. fd \in client
    BY <1>1, <1>2, <1>10 DEF RecvEnd, EventsReadable
  <2>2. RemoveClient(fd) /\ fired' = fired \ {fd}
        /\ UNCHANGED <<clearing, pc, count>>
    BY <1>1, <1>10, <2>1 DEF RecvEnd, TablesAgree
  <2>3. /\ TablesAgree' /\ client' = client \ {fd}
        /\ clientCount' \in 0..Cardinality(Fd)
        /\ data' = data \ {fd} /\ gone' = gone \ {fd} /\ pending' = pending
    BY <2>1, <2>2, RemoveAgrees
  <2>4. TypeOK'
    BY <1>1, <2>2, <2>3 DEF TypeOK, TablesAgree, clearing, End
  <2>5. ClientsListed' /\ EventsReadable' /\ NoneFired'
    BY <1>1, <1>10, <2>2, <2>3
    DEF RecvEnd, ClientsListed, EventsReadable, NoneFired, clearing
  <2> QED BY <2>3, <2>4, <2>5 DEF Inv
<1>11. CASE StartPass
  BY <1>1, <1>2, <1>11, ServerAssumption DEF StartPass, peers, tables, Inv, TypeOK, TablesAgree,
     ClientsListed, EventsReadable, NoneFired, End
<1>12. CASE Wrap
  BY <1>1, <1>2, <1>12 DEF Wrap, ComeBack, peers, tables, Inv, TypeOK, TablesAgree,
     ClientsListed, EventsReadable, NoneFired, End
<1>13. CASE ClearStale
  <2>1. /\ list' \in Seq(Fd) /\ Len(list') = Len(list) - 1
        /\ iter' \in 1..End' /\ start' \in 0..End' /\ pc' \in {"poll", "clear"}
        /\ Range(list) \ {list[iter]} \subseteq Range(list')
    BY <1>13, EraseTypes DEF ClearStale
  <2>2. count' \in 0..ClearBatch
    BY <1>1, <1>13, ServerAssumption DEF ClearStale, TypeOK
  <2>3. TypeOK' /\ TablesAgree' /\ EventsReadable' /\ NoneFired'
    BY <1>1, <1>2, <1>13, <2>1, <2>2
    DEF ClearStale, TypeOK, TablesAgree, EventsReadable, NoneFired, peers, tables
  <2>4. ClientsListed'
    BY <1>1, <1>13, <2>1 DEF ClearStale, ClientsListed, tables
  <2> QED BY <2>3, <2>4 DEF Inv
<1>14. CASE ClearClient
  <2> DEFINE fd == list[iter]
  <2>1. /\ list' \in Seq(Fd) /\ Len(list') = Len(list) - 1
        /\ iter' \in 1..End' /\ start' \in 0..End' /\ pc' \in {"poll", "clear"}
        /\ Range(list) \ {fd} \subseteq Range(list')
    BY <1>14, EraseTypes DEF ClearClient
  <2>2. count' \in 0..ClearBatch
    BY <1>1, <1>14, ServerAssumption DEF ClearClient, TypeOK
  <2>3. /\ TablesAgree' /\ client' = client \ {fd}
        /\ clientCount' \in 0..Cardinality(Fd)
        /\ data' = data \ {fd} /\ gone' = gone \ {fd} /\ pending' = pending
    BY <1>14, RemoveAgrees DEF ClearClient
  <2>4. fired = {} /\ fired' = {}
    BY <1>1, <1>14 DEF ClearClient, NoneFired
  <2>5. TypeOK'
    BY <1>1, <1>2, <2>1, <2>2, <2>3, <2>4 DEF TypeOK, TablesAgree
  <2>6. ClientsListed' /\ EventsReadable' /\ NoneFired'
    BY <1>1, <2>1, <2>3, <2>4 DEF ClientsListed, EventsReadable, NoneFired
  <2> QED BY <2>3, <2>5, <2>6 DEF Inv
<1>15. CASE BatchDone
  BY <1>1, <1>15 DEF BatchDone, peers, tables, clearing, Inv, TypeOK, TablesAgree,
     ClientsListed, EventsReadable, NoneFired, End
<1>16. CASE UNCHANGED vars
  BY <1>1, <1>16 DEF vars, peers, tables, clearing, Inv, TypeOK, TablesAgree,
     ClientsListed, EventsReadable, NoneFired, End
<1> QED
  BY <1>3, <1>4, <1>5, <1>6, <1>7, <1>8, <1>9, <1>10, <1>11, <1>12, <1>13, <1>14,
     <1>15, <1>16
  DEF Next, Peers, Loop, Accepting, RecvHandler, Pass

(* The server's invariant.                                                 *)
THEOREM Invariance == Spec => []Inv
<1>1. Init => Inv
  BY InitInv
<1>2. Inv /\ [Next]_vars => Inv'
  BY StepInv
<1> QED BY <1>1, <1>2, PTL DEF Spec

(* The types hold, the iterator is always in the list or at its end.       *)
THEOREM TypeCorrect == Spec => []TypeOK
BY Invariance, PTL DEF Inv

(* The server's tables and the kernel's sets agree on who is connected,    *)
(* whatever the order in which clients come, leave and are cleared.        *)
THEOREM TablesAlwaysAgree == Spec => []TablesAgree
BY Invariance, PTL DEF Inv

(* No client is forgotten by the list of the clear pass.                   *)
THEOREM ClientsAlwaysListed == Spec => []ClientsListed
BY Invariance, PTL DEF Inv

(* RecvHandler is only called for a client with something to read.         *)
THEOREM EventsAlwaysReadable == Spec => []EventsReadable
BY Invariance, PTL DEF Inv
===============================================================================
