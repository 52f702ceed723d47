------------------------------ MODULE IdService ------------------------------
(***************************************************************************)
(* getId (src/idservice/idhelper.cpp): the number of an order, a task or a *)
(* relation is the date followed by a counter that Redis keeps under a key *)
(* with the same date in its name.  The date is read TWICE through the     *)
(* pointer localtime returns: once for the key, before INCR, and once for  *)
(* the number, after it.  localtime fills one static buffer that all the   *)
(* threads share, so what is read is whatever thread wrote last.           *)
(* The days are 1..LastDay; a number is a pair <<day, index>>, or NoId for *)
(* the 0 that getId returns when INCR answers with an error.               *)
(***************************************************************************)
EXTENDS Integers, Sequences

CONSTANTS
  Thread,     \* the threads that call getId
  MemConn,    \* the connections of CMemDBConnectionPool
  NoConn,
  LastDay,    \* bound: midnight passes LastDay - 1 times
  MaxErrors   \* bound: how many INCR commands fail

ASSUME IdAssumption ==
  /\ NoConn \notin MemConn
  /\ LastDay \in Nat \ {0}
  /\ MaxErrors \in Nat

VARIABLES
  clock,      \* the day the system clock shows
  counter,    \* counter[d]: the Redis value of "order_id:<d>"
  errors,     \* INCR commands that failed so far
  tm,         \* the static struct tm behind localtime
  memWant, memLoan, \* the Redis connection pool, seen as ConnAllocator
  idpc,       \* where each thread is inside getId
  rawtime,    \* rawtime[t]
  idName,     \* idName[t]: the day in the name of the key
  index,      \* index[t]
  id,         \* id[t]: what getId returned last
  issued      \* history: the numbers each thread got, with the day of the key

clientVars == <<rawtime, idName, index, id, issued>>
poolVars == <<memWant, memLoan>>
idVars == <<clock, counter, errors, tm, poolVars, idpc, clientVars>>

Mem == INSTANCE ConnAllocator
         WITH Conn <- MemConn, want <- memWant, loan <- memLoan

Day == 1..LastDay
NoId == <<0, 0>>
Number == Day \X (Nat \ {0})
IdLocation == {"out", "conn", "localtime", "key", "inc", "format", "release"}

GotoId(t, l) == idpc' = [idpc EXCEPT ![t] = l]

IdInit ==
  /\ clock = 1
  /\ counter = [d \in Day |-> 0]
  /\ errors = 0
  /\ tm = 1
  /\ Mem!Init
  /\ idpc = [t \in Thread |-> "out"]
  /\ rawtime = [t \in Thread |-> 1]
  /\ idName = [t \in Thread |-> 1]
  /\ index = [t \in Thread |-> 0]
  /\ id = [t \in Thread |-> NoId]
  /\ issued = [t \in Thread |-> <<>>]

Midnight ==
  /\ clock < LastDay
  /\ clock' = clock + 1
  /\ UNCHANGED <<counter, errors, tm, poolVars, idpc, clientVars>>

(* GetInstance, then GetConnection waits for a connection.                 *)
CallGetId(t) ==
  /\ idpc[t] = "out"
  /\ Mem!Ask(t)
  /\ GotoId(t, "conn")
  /\ UNCHANGED <<clock, counter, errors, tm, clientVars>>

(* The connection is here: time(&rawtime).                                 *)
GetMemConn(t) ==
  /\ idpc[t] = "conn"
  /\ Mem!Lend(t)
  /\ rawtime' = [rawtime EXCEPT ![t] = clock]
  /\ GotoId(t, "localtime")
  /\ UNCHANGED <<clock, counter, errors, tm, idName, index, id, issued>>

(* localtime(&rawtime) fills the static buffer.                            *)
LocalTime(t) ==
  /\ idpc[t] = "localtime"
  /\ tm' = rawtime[t]
  /\ GotoId(t, "key")
  /\ UNCHANGED <<clock, counter, errors, poolVars, clientVars>>

(* sprintf(idName, "%s:%d%02d%02d", ...) reads the buffer.                 *)
KeyName(t) ==
  /\ idpc[t] = "key"
  /\ idName' = [idName EXCEPT ![t] = tm]
  /\ GotoId(t, "inc")
  /\ UNCHANGED <<clock, counter, errors, tm, poolVars, rawtime, index, id, issued>>

(* Mutant: the next value is computed but never written back.              *)
IncNoStore(t) ==
  /\ idpc[t] = "inc"
  /\ index' = [index EXCEPT ![t] = counter[idName[t]] + 1]
  /\ GotoId(t, "format")
  /\ UNCHANGED <<clock, counter, errors, tm, poolVars, rawtime, idName, id, issued>>

(* INCR is atomic in Redis.                                                *)
Inc(t) ==
  /\ idpc[t] = "inc"
  /\ counter' = [counter EXCEPT ![idName[t]] = @ + 1]
  /\ index' = [index EXCEPT ![t] = counter'[idName[t]]]
  /\ GotoId(t, "format")
  /\ UNCHANGED <<clock, errors, tm, poolVars, rawtime, idName, id, issued>>

(* An error reply carries no integer: inc returns 0.                       *)
IncError(t) ==
  /\ idpc[t] = "inc"
  /\ errors < MaxErrors
  /\ errors' = errors + 1
  /\ index' = [index EXCEPT ![t] = 0]
  /\ GotoId(t, "format")
  /\ UNCHANGED <<clock, counter, tm, poolVars, rawtime, idName, id, issued>>

(* Mutant: the test of the index is forgotten.                             *)
FormatIdUnchecked(t) ==
  /\ idpc[t] = "format"
  /\ LET n == <<tm, index[t]>>
     IN /\ id' = [id EXCEPT ![t] = n]
        /\ issued' = [issued EXCEPT ![t] = Append(@, [id |-> n, key |-> idName[t]])]
  /\ GotoId(t, "release")
  /\ UNCHANGED <<clock, counter, errors, tm, poolVars, rawtime, idName, index>>

(* sprintf(idRet, "%d%02d%02d%d", ...) reads the buffer again, if the      *)
(* index is positive.                                                      *)
FormatId(t) ==
  /\ idpc[t] = "format"
  /\ LET n == IF index[t] > 0 THEN <<tm, index[t]>> ELSE NoId
     IN /\ id' = [id EXCEPT ![t] = n]
        /\ issued' = [issued EXCEPT ![t] = Append(@, [id |-> n, key |-> idName[t]])]
  /\ GotoId(t, "release")
  /\ UNCHANGED <<clock, counter, errors, tm, poolVars, rawtime, idName, index>>

(* ReleaseConnection, then getId returns and its locals are gone.          *)
ReturnId(t) ==
  /\ idpc[t] = "release"
  /\ Mem!GiveBack(t)
  /\ rawtime' = [rawtime EXCEPT ![t] = 1]
  /\ idName' = [idName EXCEPT ![t] = 1]
  /\ index' = [index EXCEPT ![t] = 0]
  /\ GotoId(t, "out")
  /\ UNCHANGED <<clock, counter, errors, tm, id, issued>>

(* The steps of getId after the call and before the return.                *)
InsideGetId(t) ==
  \/ GetMemConn(t)
  \/ LocalTime(t)
  \/ KeyName(t)
  \/ Inc(t)
  \/ IncError(t)
  \/ FormatId(t)

(* The process dies: Redis and the clock go on, the numbers issued stay.    *)
IdCrash ==
  /\ memWant' = {}
  /\ memLoan' = [t \in Thread |-> NoConn]
  /\ idpc' = [t \in Thread |-> "out"]
  /\ rawtime' = [t \in Thread |-> 1]
  /\ idName' = [t \in Thread |-> 1]
  /\ index' = [t \in Thread |-> 0]
  /\ id' = [t \in Thread |-> NoId]
  /\ tm' = 1
  /\ UNCHANGED <<clock, counter, errors, issued>>

-----------------------------------------------------------------------------
IdTypeOK ==
  /\ clock \in Day
  /\ counter \in [Day -> Nat]
  /\ errors \in 0..MaxErrors
  /\ tm \in Day
  /\ memWant \subseteq Thread
  /\ memLoan \in [Thread -> MemConn \union {NoConn}]
  /\ idpc \in [Thread -> IdLocation]
  /\ rawtime \in [Thread -> Day]
  /\ idName \in [Thread -> Day]
  /\ index \in [Thread -> Nat]
  /\ id \in [Thread -> Number \union {NoId}]
  /\ issued \in [Thread -> Seq([id : Number \union {NoId}, key : Day])]

Call == UNION {{<<t, i>> : i \in DOMAIN issued[t]} : t \in Thread}
IssuedTo(c) == issued[c[1]][c[2]]

(* A number is torn when its date is not the date of the key its index was *)
(* counted under: the buffer was overwritten between the two reads.        *)
Torn(r) == r.id # NoId /\ r.key # r.id[1]

(* Two calls of getId return the same number only when it is 0 (INCR       *)
(* failed) or when the date of one of them changed under it, between the   *)
(* key and the number.  In every other case, with any number of threads    *)
(* and across midnight, the primary keys made from getId are distinct.     *)
SameIdMeansTorn ==
  \A c, d \in Call :
    c # d /\ IssuedTo(c).id = IssuedTo(d).id /\ IssuedTo(c).id # NoId
      => Torn(IssuedTo(c)) \/ Torn(IssuedTo(d))
=============================================================================
