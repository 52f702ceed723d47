---------------------------- MODULE RedisLockProofs ----------------------------
(***************************************************************************)
(* Theorems about the lock recipes, for every number of clients, every     *)
(* lease and every delay shorter than the lease.  That wins are apart is a *)
(* fact about keys (V1Kept, V2Kept): no key is given up before the last    *)
(* winner's time is over.  In V1 this needs that only one client is on its *)
(* way to EXPIRE; in V2, that no call began longer ago than MaxDelay, so   *)
(* that even a late loser writes a time beyond the winner's.               *)
(***************************************************************************)
EXTENDS RedisLock, TLAPS

Young == \A c \in Client : pc[c] # "idle" => began[c] <= now /\ now <= began[c] + MaxDelay

(* V1: the winner whose EXPIRE is under way, or the time of the last one.  *)
V1Kept ==
  /\ \A c, d \in Client : pc[c] = "expire" /\ pc[d] = "expire" => c = d
  /\ \A c \in Client : pc[c] = "expire" => until[1] = Forever /\ key1 >= began[c] + Lease
  /\ until[1] = Forever => \E c \in Client : pc[c] = "expire"
  /\ until[1] # Forever => until[1] <= key1 /\ until[1] <= now + Lease

V2Kept ==
  /\ until[2] <= key2
  /\ until[2] <= now + Lease - MaxDelay
  /\ \A c \in Client : pc[c] = "getset" => seen[c] < began[c]
  /\ ExpiredIsWon

V3Kept == ~key3 => until[3] = 0

Inv == TypeOK /\ Young /\ V1Kept /\ V2Kept /\ V3Kept /\ StuckMeansCut

LEMMA Horizon ==
  /\ Forever \in Nat /\ Forever \in 0..Forever /\ 0 \in 0..Forever
  /\ \A t \in 0..MaxTime : t + Lease \in 0..Forever /\ t + Lease < Forever
BY LockAssumption DEF Forever

LEMMA Sooner ==
  \A t \in 0..MaxTime : t + Lease - MaxDelay \in 0..Forever /\ t \in 0..Forever
BY LockAssumption DEF Forever

LEMMA Recipes == 1 \in Recipe /\ 2 \in Recipe /\ 3 \in Recipe
BY DEF Recipe

-----------------------------------------------------------------------------
(* Type correctness.                                                       *)

LEMMA InitTypeOK == Init => TypeOK
<1> SUFFICES ASSUME Init PROVE TypeOK
  OBVIOUS
<1> USE LockAssumption DEF Init, Forever, NoKey
<1>1. Times
  BY DEF Times
<1>2. Calls
  BY DEF Calls
<1>3. Promises
  BY DEF Promises
<1>4. Flags
  BY Zenon DEF Flags
<1> QED
  BY <1>1, <1>2, <1>3, <1>4 DEF TypeOK

LEMMA ReturnCalls == ASSUME NEW c \in Client, Calls, Return(c) PROVE Calls'
<1>1. pc' \in [Client -> {"idle", "expire", "stray", "setnx", "get", "getset"}]
  BY DEF Calls, Return, Goto
<1>2. 0 \in 0..MaxTime
  BY LockAssumption
<1>3. began' \in [Client -> 0..MaxTime]
  BY <1>2 DEF Calls, Return
<1>4. seen' \in [Client -> 0..Forever]
  BY Horizon DEF Calls, Return
<1> QED
  BY <1>1, <1>3, <1>4 DEF Calls

LEMMA PromiseMade ==
  ASSUME NEW r \in Recipe, NEW t \in 0..Forever, Promises, Promise(r, t)
  PROVE  until' \in [Recipe -> 0..Forever]
BY DEF Promises, Promise

LEMMA WinMade ==
  ASSUME NEW r \in Recipe, NEW t \in 0..Forever, Promises, Win(r, t)
  PROVE  Promises'
<1>1. wins' \in [Recipe -> Nat]
  BY DEF Promises, Win, Count
<1> QED
  BY <1>1, PromiseMade DEF Promises, Win

LEMMA MisleadMade ==
  ASSUME NEW r \in Recipe, Promises, Mislead(r)
  PROVE  Promises'
<1>1. wins' \in [Recipe -> Nat]
  BY DEF Promises, Mislead, Count
<1>2. misled' \in [Recipe -> Nat]
  BY DEF Promises, Mislead
<1> QED
  BY <1>1, <1>2 DEF Promises, Mislead

LEMMA ErrorCount == ASSUME Times, Error PROVE errors' \in 0..MaxErrors
BY LockAssumption DEF Times, Error

LEMMA NextTimes == Times /\ Calls /\ [Next]_vars => Times'
<1> SUFFICES ASSUME Times, Calls, [Next]_vars PROVE Times'
  OBVIOUS
<1> USE LockAssumption, ErrorCount, Horizon DEF Times, Calls, NoKey, callVars, winVars, Mislead
<1>1. ASSUME NEW c \in Client, tryLockV1(c) PROVE Times'
  <2>1. CASE SetnxV1(c)
    BY <2>1 DEF SetnxV1
  <2>2. CASE SetnxV1Error(c)
    BY <2>2 DEF SetnxV1Error
  <2>3. CASE Expire(c)
    BY <2>3 DEF Expire
  <2>4. CASE ExpireError(c)
    BY <2>4 DEF ExpireError
  <2>5. CASE ExpireOther(c)
    BY <2>5 DEF ExpireOther
  <2>6. CASE ExpireOtherError(c)
    BY <2>6 DEF ExpireOtherError
  <2> QED
    BY <1>1, <2>1, <2>2, <2>3, <2>4, <2>5, <2>6 DEF tryLockV1
<1>2. ASSUME NEW c \in Client, tryLockV2(c) PROVE Times'
  <2>1. CASE CallV2(c)
    BY <2>1 DEF CallV2
  <2>2. CASE SetnxV2(c)
    BY <2>2 DEF SetnxV2
  <2>3. CASE KeyThere(c)
    BY <2>3 DEF KeyThere
  <2>4. CASE NotExpired(c)
    BY <2>4 DEF NotExpired
  <2>5. CASE GetExpired(c)
    BY <2>5 DEF GetExpired
  <2>6. CASE GetSet(c)
    BY <2>6 DEF GetSet
  <2>7. CASE GetSetUnheard(c)
    BY <2>7 DEF GetSetUnheard
  <2> QED
    BY <1>2, <2>1, <2>2, <2>3, <2>4, <2>5, <2>6, <2>7 DEF tryLockV2
<1>3. ASSUME NEW c \in Client, tryLockV3(c) PROVE Times'
  BY <1>3 DEF tryLockV3, SetnxV3, SetnxV3Error
<1>4. ASSUME NEW c \in Client, CutShort(c) PROVE Times'
  BY <1>4 DEF CutShort
<1>5. CASE Tick
  BY <1>5 DEF Tick
<1>6. CASE UNCHANGED vars
  BY <1>6 DEF vars, callVars, winVars
<1> QED
  BY <1>1, <1>2, <1>3, <1>4, <1>5, <1>6 DEF Next


LEMMA NextCalls == Times /\ Calls /\ [Next]_vars => Calls'
<1> SUFFICES ASSUME Times, Calls, [Next]_vars PROVE Calls'
  OBVIOUS
<1> USE LockAssumption, ReturnCalls DEF Calls, Times, Goto, Start, Forever, callVars, winVars, Mislead
<1>1. ASSUME NEW c \in Client, tryLockV1(c) PROVE Calls'
  <2>1. CASE SetnxV1(c)
    BY <2>1 DEF SetnxV1
  <2>2. CASE SetnxV1Error(c)
    BY <2>2 DEF SetnxV1Error
  <2>3. CASE Expire(c)
    BY <2>3 DEF Expire
  <2>4. CASE ExpireError(c)
    BY <2>4 DEF ExpireError
  <2>5. CASE ExpireOther(c)
    BY <2>5 DEF ExpireOther
  <2>6. CASE ExpireOtherError(c)
    BY <2>6 DEF ExpireOtherError
  <2> QED
    BY <1>1, <2>1, <2>2, <2>3, <2>4, <2>5, <2>6 DEF tryLockV1
<1>2. ASSUME NEW c \in Client, tryLockV2(c) PROVE Calls'
  <2>1. CASE CallV2(c)
    BY <2>1 DEF CallV2
  <2>2. CASE SetnxV2(c)
    BY <2>2 DEF SetnxV2
  <2>3. CASE KeyThere(c)
    BY <2>3 DEF KeyThere
  <2>4. CASE NotExpired(c)
    BY <2>4 DEF NotExpired
  <2>5. CASE GetExpired(c)
    BY <2>5 DEF GetExpired
  <2>6. CASE GetSet(c)
    BY <2>6 DEF GetSet
  <2>7. CASE GetSetUnheard(c)
    BY <2>7 DEF GetSetUnheard
  <2> QED
    BY <1>2, <2>1, <2>2, <2>3, <2>4, <2>5, <2>6, <2>7 DEF tryLockV2
<1>3. ASSUME NEW c \in Client, tryLockV3(c) PROVE Calls'
  BY <1>3 DEF tryLockV3, SetnxV3, SetnxV3Error
<1>4. ASSUME NEW c \in Client, CutShort(c) PROVE Calls'
  BY <1>4 DEF CutShort
<1>5. CASE Tick
  BY <1>5 DEF Tick
<1>6. CASE UNCHANGED vars
  BY <1>6 DEF vars, callVars, winVars
<1> QED
  BY <1>1, <1>2, <1>3, <1>4, <1>5, <1>6 DEF Next


LEMMA NextPromises == Times /\ Calls /\ Promises /\ [Next]_vars => Promises'
<1> SUFFICES ASSUME Times, Calls, Promises, [Next]_vars PROVE Promises'
  OBVIOUS
<1> USE Horizon, Sooner, Recipes, WinMade, PromiseMade, MisleadMade
    DEF Promises, Calls, Times, callVars, winVars
<1>1. ASSUME NEW c \in Client, tryLockV1(c) PROVE Promises'
  <2>1. CASE SetnxV1(c)
    BY <2>1 DEF SetnxV1
  <2>2. CASE SetnxV1Error(c)
    BY <2>2 DEF SetnxV1Error
  <2>3. CASE Expire(c)
    BY <2>3 DEF Expire
  <2>4. CASE ExpireError(c)
    BY <2>4 DEF ExpireError
  <2>5. CASE ExpireOther(c)
    BY <2>5 DEF ExpireOther
  <2>6. CASE ExpireOtherError(c)
    BY <2>6 DEF ExpireOtherError
  <2> QED
    BY <1>1, <2>1, <2>2, <2>3, <2>4, <2>5, <2>6 DEF tryLockV1
<1>2. ASSUME NEW c \in Client, tryLockV2(c) PROVE Promises'
  <2>1. CASE CallV2(c)
    BY <2>1 DEF CallV2
  <2>2. CASE SetnxV2(c)
    BY <2>2 DEF SetnxV2
  <2>3. CASE KeyThere(c)
    BY <2>3 DEF KeyThere
  <2>4. CASE NotExpired(c)
    BY <2>4 DEF NotExpired
  <2>5. CASE GetExpired(c)
    BY <2>5 DEF GetExpired
  <2>6. CASE GetSet(c)
    BY <2>6 DEF GetSet
  <2>7. CASE GetSetUnheard(c)
    BY <2>7 DEF GetSetUnheard
  <2> QED
    BY <1>2, <2>1, <2>2, <2>3, <2>4, <2>5, <2>6, <2>7 DEF tryLockV2
<1>3. ASSUME NEW c \in Client, tryLockV3(c) PROVE Promises'
  BY <1>3 DEF tryLockV3, SetnxV3, SetnxV3Error
<1>4. ASSUME NEW c \in Client, CutShort(c) PROVE Promises'
  BY <1>4 DEF CutShort
<1>5. CASE Tick
  BY <1>5 DEF Tick
<1>6. CASE UNCHANGED vars
  BY <1>6 DEF vars, callVars, winVars
<1> QED
  BY <1>1, <1>2, <1>3, <1>4, <1>5, <1>6 DEF Next


LEMMA NextFlags == Flags /\ [Next]_vars => Flags'
<1> SUFFICES ASSUME Flags, [Next]_vars PROVE Flags'
  OBVIOUS
<1> USE DEF Flags
<1>1. ASSUME NEW c \in Client, tryLockV1(c) PROVE Flags'
  BY <1>1, Zenon
     DEF tryLockV1, SetnxV1, SetnxV1Error, Expire, ExpireError, ExpireOther, ExpireOtherError
<1>2. ASSUME NEW c \in Client, tryLockV2(c) PROVE Flags'
  BY <1>2, Zenon
     DEF tryLockV2, CallV2, SetnxV2, KeyThere, NotExpired, GetExpired, GetSet,
         GetSetUnheard
<1>3. ASSUME NEW c \in Client, tryLockV3(c) \/ CutShort(c) PROVE Flags'
  BY <1>3, Zenon DEF tryLockV3, SetnxV3, SetnxV3Error, CutShort
<1>4. CASE Tick \/ UNCHANGED vars
  BY <1>4, Zenon DEF Tick, vars
<1> QED
  BY <1>1, <1>2, <1>3, <1>4 DEF Next

LEMMA NextTypeOK == TypeOK /\ [Next]_vars => TypeOK'
BY NextTimes, NextCalls, NextPromises, NextFlags DEF TypeOK

-----------------------------------------------------------------------------
(* What the recipes keep.                                                  *)

LEMMA Numbers ==
  ASSUME Times, Calls, Promises
  PROVE  /\ now \in Nat /\ key1 \in Nat /\ key2 \in Nat
         /\ \A c \in Client : began[c] \in Nat /\ seen[c] \in Nat
         /\ \A r \in Recipe : until[r] \in Nat
         /\ now + Lease < Forever
         /\ \A c \in Client : began[c] + Lease < Forever
BY LockAssumption, Horizon DEF Times, Calls, Promises

(* What a step of client c does to the line and the time of each client.   *)
LEMMA Gone ==
  ASSUME Calls, NEW c \in Client, NEW l, Goto(c, l)
  PROVE  \A d \in Client : pc'[d] = IF d = c THEN l ELSE pc[d]
BY DEF Calls, Goto

LEMMA Started ==
  ASSUME Calls, NEW c \in Client, NEW l, Start(c, l)
  PROVE  /\ \A d \in Client : pc'[d] = IF d = c THEN l ELSE pc[d]
         /\ \A d \in Client : began'[d] = IF d = c THEN now ELSE began[d]
BY Gone DEF Calls, Start

LEMMA Returned ==
  ASSUME Calls, NEW c \in Client, Return(c)
  PROVE  /\ \A d \in Client : pc'[d] = IF d = c THEN "idle" ELSE pc[d]
         /\ \A d \in Client : d # c => began'[d] = began[d] /\ seen'[d] = seen[d]
BY Gone DEF Calls, Return

LEMMA Promised ==
  ASSUME Promises, NEW r \in Recipe, NEW t, Promise(r, t)
  PROVE  \A q \in Recipe : until'[q] = IF q = r THEN t ELSE until[q]
BY DEF Promises, Promise

LEMMA Won ==
  ASSUME Promises, NEW r \in Recipe, NEW t, Win(r, t)
  PROVE  \A q \in Recipe : until'[q] = IF q = r THEN t ELSE until[q]
BY Promised DEF Win

LEMMA NextYoung ==
  Times /\ Calls /\ Promises /\ Young /\ [Next]_vars => Young'
<1> SUFFICES ASSUME Times, Calls, Promises, Young, [Next]_vars PROVE Young'
  OBVIOUS
<1> USE LockAssumption, Horizon, Recipes, Numbers, Gone, Started, Returned, Promised, Won
    DEF Young, callVars, winVars, Mislead
<1>1. ASSUME NEW c \in Client, tryLockV1(c) PROVE Young'
  <2>1. CASE SetnxV1(c)
    BY <2>1 DEF SetnxV1
  <2>2. CASE SetnxV1Error(c)
    BY <2>2 DEF SetnxV1Error
  <2>3. CASE Expire(c)
    BY <2>3 DEF Expire
  <2>4. CASE ExpireError(c)
    BY <2>4 DEF ExpireError
  <2>5. CASE ExpireOther(c)
    BY <2>5 DEF ExpireOther
  <2>6. CASE ExpireOtherError(c)
    BY <2>6 DEF ExpireOtherError
  <2> QED
    BY <1>1, <2>1, <2>2, <2>3, <2>4, <2>5, <2>6 DEF tryLockV1
<1>2. ASSUME NEW c \in Client, tryLockV2(c) PROVE Young'
  <2>1. CASE CallV2(c)
    BY <2>1 DEF CallV2
  <2>2. CASE SetnxV2(c)
    BY <2>2 DEF SetnxV2
  <2>3. CASE KeyThere(c)
    BY <2>3 DEF KeyThere
  <2>4. CASE NotExpired(c)
    BY <2>4 DEF NotExpired
  <2>5. CASE GetExpired(c)
    BY <2>5 DEF GetExpired
  <2>6. CASE GetSet(c)
    BY <2>6 DEF GetSet
  <2>7. CASE GetSetUnheard(c)
    BY <2>7 DEF GetSetUnheard
  <2> QED
    BY <1>2, <2>1, <2>2, <2>3, <2>4, <2>5, <2>6, <2>7 DEF tryLockV2
<1>3. ASSUME NEW c \in Client, tryLockV3(c) PROVE Young'
  BY <1>3 DEF tryLockV3, SetnxV3, SetnxV3Error
<1>4. ASSUME NEW c \in Client, CutShort(c) PROVE Young'
  BY <1>4 DEF CutShort
<1>5. CASE Tick
  BY <1>5 DEF Tick
<1>6. CASE UNCHANGED vars
  BY <1>6 DEF vars, callVars, winVars
<1> QED
  BY <1>1, <1>2, <1>3, <1>4, <1>5, <1>6 DEF Next


LEMMA NextV1Kept ==
  Times /\ Calls /\ Promises /\ Young /\ V1Kept /\ [Next]_vars => V1Kept'
<1> SUFFICES ASSUME Times, Calls, Promises, Young, V1Kept, [Next]_vars PROVE V1Kept'
  OBVIOUS
<1> USE LockAssumption, Horizon, Recipes, Numbers, Gone, Started, Returned, Promised, Won
    DEF V1Kept, Young, Held1, callVars, winVars, Mislead
<1>1. ASSUME NEW c \in Client, tryLockV1(c) PROVE V1Kept'
  <2>1. CASE SetnxV1(c)
    BY <2>1 DEF SetnxV1
  <2>2. CASE SetnxV1Error(c)
    BY <2>2 DEF SetnxV1Error
  <2>3. CASE Expire(c)
    BY <2>3 DEF Expire
  <2>4. CASE ExpireError(c)
    BY <2>4 DEF ExpireError
  <2>5. CASE ExpireOther(c)
    BY <2>5 DEF ExpireOther
  <2>6. CASE ExpireOtherError(c)
    BY <2>6 DEF ExpireOtherError
  <2> QED
    BY <1>1, <2>1, <2>2, <2>3, <2>4, <2>5, <2>6 DEF tryLockV1
<1>2. ASSUME NEW c \in Client, tryLockV2(c) PROVE V1Kept'
  <2>1. CASE CallV2(c)
    BY <2>1 DEF CallV2
  <2>2. CASE SetnxV2(c)
    BY <2>2 DEF SetnxV2
  <2>3. CASE KeyThere(c)
    BY <2>3 DEF KeyThere
  <2>4. CASE NotExpired(c)
    BY <2>4 DEF NotExpired
  <2>5. CASE GetExpired(c)
    BY <2>5 DEF GetExpired
  <2>6. CASE GetSet(c)
    BY <2>6 DEF GetSet
  <2>7. CASE GetSetUnheard(c)
    BY <2>7 DEF GetSetUnheard
  <2> QED
    BY <1>2, <2>1, <2>2, <2>3, <2>4, <2>5, <2>6, <2>7 DEF tryLockV2
<1>3. ASSUME NEW c \in Client, tryLockV3(c) PROVE V1Kept'
  BY <1>3 DEF tryLockV3, SetnxV3, SetnxV3Error
<1>4. ASSUME NEW c \in Client, CutShort(c) PROVE V1Kept'
  BY <1>4 DEF CutShort
<1>5. CASE Tick
  BY <1>5 DEF Tick
<1>6. CASE UNCHANGED vars
  BY <1>6 DEF vars, callVars, winVars
<1> QED
  BY <1>1, <1>2, <1>3, <1>4, <1>5, <1>6 DEF Next


LEMMA NextV2Kept ==
  Times /\ Calls /\ Promises /\ Young /\ V2Kept /\ [Next]_vars => V2Kept'
<1> SUFFICES ASSUME Times, Calls, Promises, Young, V2Kept, [Next]_vars PROVE V2Kept'
  OBVIOUS
<1> USE LockAssumption, Horizon, Recipes, Numbers, Gone, Started, Returned, Promised, Won
    DEF V2Kept, ExpiredIsWon, NoKey, Young, callVars, winVars, Mislead
<1>1. ASSUME NEW c \in Client, tryLockV1(c) PROVE V2Kept'
  <2>1. CASE SetnxV1(c)
    BY <2>1 DEF SetnxV1
  <2>2. CASE SetnxV1Error(c)
    BY <2>2 DEF SetnxV1Error
  <2>3. CASE Expire(c)
    BY <2>3 DEF Expire
  <2>4. CASE ExpireError(c)
    BY <2>4 DEF ExpireError
  <2>5. CASE ExpireOther(c)
    BY <2>5 DEF ExpireOther
  <2>6. CASE ExpireOtherError(c)
    BY <2>6 DEF ExpireOtherError
  <2> QED
    BY <1>1, <2>1, <2>2, <2>3, <2>4, <2>5, <2>6 DEF tryLockV1
<1>2. ASSUME NEW c \in Client, tryLockV2(c) PROVE V2Kept'
  <2>1. CASE CallV2(c)
    BY <2>1 DEF CallV2
  <2>2. CASE SetnxV2(c)
    BY <2>2 DEF SetnxV2
  <2>3. CASE KeyThere(c)
    BY <2>3 DEF KeyThere
  <2>4. CASE NotExpired(c)
    BY <2>4 DEF NotExpired
  <2>5. CASE GetExpired(c)
    <3>1. \A d \in Client : seen'[d] = IF d = c THEN key2 ELSE seen[d]
      BY <2>5 DEF GetExpired, Calls
    <3> QED
      BY <2>5, <3>1 DEF GetExpired
  <2>6. CASE GetSet(c)
    BY <2>6 DEF GetSet
  <2>7. CASE GetSetUnheard(c)
    BY <2>7 DEF GetSetUnheard
  <2> QED
    BY <1>2, <2>1, <2>2, <2>3, <2>4, <2>5, <2>6, <2>7 DEF tryLockV2
<1>3. ASSUME NEW c \in Client, tryLockV3(c) PROVE V2Kept'
  BY <1>3 DEF tryLockV3, SetnxV3, SetnxV3Error
<1>4. ASSUME NEW c \in Client, CutShort(c) PROVE V2Kept'
  BY <1>4 DEF CutShort
<1>5. CASE Tick
  BY <1>5 DEF Tick
<1>6. CASE UNCHANGED vars
  BY <1>6 DEF vars, callVars, winVars
<1> QED
  BY <1>1, <1>2, <1>3, <1>4, <1>5, <1>6 DEF Next


LEMMA NextV3Kept ==
  Times /\ Calls /\ Promises /\ Young /\ V3Kept /\ [Next]_vars => V3Kept'
<1> SUFFICES ASSUME Times, Calls, Promises, Young, V3Kept, [Next]_vars PROVE V3Kept'
  OBVIOUS
<1> USE Recipes DEF V3Kept, Promises, Promise, Win, callVars, winVars, Mislead
<1>1. ASSUME NEW c \in Client, tryLockV1(c) PROVE V3Kept'
  <2>1. CASE SetnxV1(c)
    BY <2>1 DEF SetnxV1
  <2>2. CASE SetnxV1Error(c)
    BY <2>2 DEF SetnxV1Error
  <2>3. CASE Expire(c)
    BY <2>3 DEF Expire
  <2>4. CASE ExpireError(c)
    BY <2>4 DEF ExpireError
  <2>5. CASE ExpireOther(c)
    BY <2>5 DEF ExpireOther
  <2>6. CASE ExpireOtherError(c)
    BY <2>6 DEF ExpireOtherError
  <2> QED
    BY <1>1, <2>1, <2>2, <2>3, <2>4, <2>5, <2>6 DEF tryLockV1
<1>2. ASSUME NEW c \in Client, tryLockV2(c) PROVE V3Kept'
  <2>1. CASE CallV2(c)
    BY <2>1 DEF CallV2
  <2>2. CASE SetnxV2(c)
    BY <2>2 DEF SetnxV2
  <2>3. CASE KeyThere(c)
    BY <2>3 DEF KeyThere
  <2>4. CASE NotExpired(c)
    BY <2>4 DEF NotExpired
  <2>5. CASE GetExpired(c)
    BY <2>5 DEF GetExpired
  <2>6. CASE GetSet(c)
    BY <2>6 DEF GetSet
  <2>7. CASE GetSetUnheard(c)
    BY <2>7 DEF GetSetUnheard
  <2> QED
    BY <1>2, <2>1, <2>2, <2>3, <2>4, <2>5, <2>6, <2>7 DEF tryLockV2
<1>3. ASSUME NEW c \in Client, tryLockV3(c) PROVE V3Kept'
  BY <1>3 DEF tryLockV3, SetnxV3, SetnxV3Error
<1>4. ASSUME NEW c \in Client, CutShort(c) PROVE V3Kept'
  BY <1>4 DEF CutShort
<1>5. CASE Tick
  BY <1>5 DEF Tick
<1>6. CASE UNCHANGED vars
  BY <1>6 DEF vars, callVars, winVars
<1> QED
  BY <1>1, <1>2, <1>3, <1>4, <1>5, <1>6 DEF Next


LEMMA NextStuck ==
  Times /\ Calls /\ Promises /\ Young /\ StuckMeansCut /\ [Next]_vars => StuckMeansCut'
<1> SUFFICES ASSUME Times, Calls, Promises, Young, StuckMeansCut, [Next]_vars
             PROVE  StuckMeansCut'
  OBVIOUS
<1> USE LockAssumption, Horizon, Recipes, Numbers, Gone, Started, Returned, Promised, Won
    DEF StuckMeansCut, callVars, winVars, Mislead
<1>1. ASSUME NEW c \in Client, tryLockV1(c) PROVE StuckMeansCut'
  <2>1. CASE SetnxV1(c)
    BY <2>1 DEF SetnxV1
  <2>2. CASE SetnxV1Error(c)
    BY <2>2 DEF SetnxV1Error
  <2>3. CASE Expire(c)
    BY <2>3 DEF Expire
  <2>4. CASE ExpireError(c)
    BY <2>4 DEF ExpireError
  <2>5. CASE ExpireOther(c)
    BY <2>5 DEF ExpireOther
  <2>6. CASE ExpireOtherError(c)
    BY <2>6 DEF ExpireOtherError
  <2> QED
    BY <1>1, <2>1, <2>2, <2>3, <2>4, <2>5, <2>6 DEF tryLockV1
<1>2. ASSUME NEW c \in Client, tryLockV2(c) PROVE StuckMeansCut'
  <2>1. CASE CallV2(c)
    BY <2>1 DEF CallV2
  <2>2. CASE SetnxV2(c)
    BY <2>2 DEF SetnxV2
  <2>3. CASE KeyThere(c)
    BY <2>3 DEF KeyThere
  <2>4. CASE NotExpired(c)
    BY <2>4 DEF NotExpired
  <2>5. CASE GetExpired(c)
    BY <2>5 DEF GetExpired
  <2>6. CASE GetSet(c)
    BY <2>6 DEF GetSet
  <2>7. CASE GetSetUnheard(c)
    BY <2>7 DEF GetSetUnheard
  <2> QED
    BY <1>2, <2>1, <2>2, <2>3, <2>4, <2>5, <2>6, <2>7 DEF tryLockV2
<1>3. ASSUME NEW c \in Client, tryLockV3(c) PROVE StuckMeansCut'
  BY <1>3 DEF tryLockV3, SetnxV3, SetnxV3Error
<1>4. ASSUME NEW c \in Client, CutShort(c) PROVE StuckMeansCut'
  BY <1>4 DEF CutShort
<1>5. CASE Tick
  BY <1>5 DEF Tick
<1>6. CASE UNCHANGED vars
  BY <1>6 DEF vars, callVars, winVars
<1> QED
  BY <1>1, <1>2, <1>3, <1>4, <1>5, <1>6 DEF Next

LEMMA InitInv == Init => Inv
<1> SUFFICES ASSUME Init PROVE Inv
  OBVIOUS
<1> USE LockAssumption, Horizon DEF Init, NoKey
<1>1. Young /\ V3Kept /\ ExpiredIsWon /\ StuckMeansCut
  BY Recipes DEF Young, V3Kept, ExpiredIsWon, StuckMeansCut, Forever
<1>2. V1Kept
  BY Recipes DEF V1Kept, Forever
<1>3. V2Kept
  BY <1>1, Recipes DEF V2Kept
<1> QED
  BY <1>1, <1>2, <1>3, InitTypeOK DEF Inv

LEMMA NextInv == Inv /\ [Next]_vars => Inv'
BY NextTypeOK, NextYoung, NextV1Kept, NextV2Kept, NextV3Kept, NextStuck DEF Inv, TypeOK

THEOREM Invariance == Spec => []Inv
BY InitInv, NextInv, PTL DEF Spec

(* Times stay before Forever, and every client is at a line of a recipe.   *)
THEOREM TypeCorrect == Spec => []TypeOK
BY Invariance, PTL DEF Inv

(* V2: an expired value is overwritten only by a caller that has read it   *)
(* and wins (CRedis::tryLockV2): contention cannot keep everybody out.     *)
THEOREM ExpiredGoesToAWinner == Spec => []ExpiredIsWon
BY Invariance, PTL DEF Inv, V2Kept

(* V1: the key stays for ever only after a caller was cut off between      *)
(* SETNX and EXPIRE, or was refused (CRedis::tryLockV1).                   *)
THEOREM OnlyACutLeavesTheKey == Spec => []StuckMeansCut
BY Invariance, PTL DEF Inv

(* A recipe returns TRUE, not for an error, only when the time of the last *)
(* winner is over.                                                         *)
LEMMA WinIsLate ==
  Inv /\ [Next]_vars =>
    [\A r \in Recipe :
       wins'[r] # wins[r] => until[r] <= now \/ misled'[r] # misled[r]]_vars
<1> SUFFICES ASSUME Inv, Next
             PROVE  \A r \in Recipe :
                      wins'[r] # wins[r] => until[r] <= now \/ misled'[r] # misled[r]
  OBVIOUS
<1> USE LockAssumption DEF Inv, TypeOK
<1>1. /\ \A r \in Recipe : until[r] \in Nat
      /\ now \in Nat /\ key1 \in Nat /\ key2 \in Nat
      /\ \A c \in Client : began[c] \in Nat /\ seen[c] \in Nat
  BY Numbers
<1>2. ASSUME NEW c \in Client, NEW q \in Recipe, NEW t, Win(q, t)
      PROVE  \A r \in Recipe : r # q => wins'[r] = wins[r]
  BY <1>2 DEF Win, Count, Promises
<1>3. CASE \E c \in Client : SetnxV1(c)
  <2>1. PICK c \in Client : SetnxV1(c)
    BY <1>3
  <2>2. until[1] # Forever
    BY <2>1, <1>1 DEF SetnxV1, Held1, V1Kept, Young
  <2>3. until[1] <= now
    BY <2>1, <2>2, <1>1, Recipes DEF SetnxV1, Held1, V1Kept
  <2> QED
    BY <2>1, <2>3, <1>2, Recipes DEF SetnxV1
<1>4. CASE \E c \in Client : GetSet(c)
  <2>1. PICK c \in Client : GetSet(c)
    BY <1>4
  <2>2. CASE key2 = seen[c]
    <3>1. until[2] <= now
      BY <2>1, <2>2, <1>1, Recipes DEF GetSet, V2Kept, Young
    <3> QED
      BY <2>1, <2>2, <3>1, <1>2, Recipes DEF GetSet
  <2>3. CASE key2 # seen[c]
    BY <2>1, <2>3 DEF GetSet, winVars
  <2> QED
    BY <2>2, <2>3
<1>5. CASE \E c \in Client : SetnxV3(c)
  <2>1. PICK c \in Client : SetnxV3(c)
    BY <1>5
  <2>2. until[3] <= now
    BY <2>1, <1>1 DEF SetnxV3, V3Kept
  <2> QED
    BY <2>1, <2>2, <1>2, Recipes DEF SetnxV3
<1>6. ASSUME NEW q \in Recipe, Mislead(q)
      PROVE  \A r \in Recipe : wins'[r] # wins[r] => misled'[r] # misled[r]
  <2>1. \A r \in Recipe : r # q => wins'[r] = wins[r]
    BY <1>6 DEF Mislead, Count, Promises
  <2>2. misled'[q] = misled[q] + 1 /\ misled[q] \in Nat
    BY <1>6 DEF Mislead, Promises
  <2> QED
    BY <2>1, <2>2
<1>7. CASE \E c \in Client : SetnxV1Error(c) \/ SetnxV3Error(c)
  BY <1>6, <1>7, Recipes DEF SetnxV1Error, SetnxV3Error
<1>8. CASE wins' = wins
  BY <1>8
<1>9. \/ \E c \in Client : SetnxV1(c) \/ GetSet(c) \/ SetnxV3(c)
      \/ \E c \in Client : SetnxV1Error(c) \/ SetnxV3Error(c)
      \/ wins' = wins
  BY DEF Next, tryLockV1, Expire, ExpireError, ExpireOther, ExpireOtherError,
         tryLockV2, CallV2, SetnxV2, KeyThere, NotExpired, GetExpired, GetSetUnheard,
         tryLockV3, CutShort, Tick, winVars
<1> QED
  BY <1>3, <1>4, <1>5, <1>7, <1>8, <1>9

(* Every TRUE of a recipe comes after the time of the last winner, or is   *)
(* an error taken for a success, which harms no earlier winner: his key    *)
(* stays as long as he may rely on it, whatever EXPIRE the misled send.    *)
THEOREM WinnersApart == Spec => WinsApart
BY Invariance, WinIsLate, PTL DEF Spec, WinsApart
=============================================================================
