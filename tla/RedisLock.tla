------------------------------ MODULE RedisLock ------------------------------
(***************************************************************************)
(* The three recipes of CRedis for a lock in Redis that expires after 3    *)
(* seconds.  Each has a key of its own, and none is ever deleted: the      *)
(* program has no unlock.                                                  *)
(*   V1: SETNX, then EXPIRE in a second command.                           *)
(*   V2: the value is the time of expiry; SETNX, and when the key is there *)
(*       GET, compare with the clock, GETSET, compare with what GET gave.  *)
(*   V3: SETNX of the value "simpleLock3": the 3 is no expiry.             *)
(* A command takes effect at once; time may pass between two commands of a *)
(* call, but a call takes no longer than MaxDelay.  A call of V1 or V3     *)
(* that finds the key, and one of V2 that finds a time to come, return     *)
(* FALSE and change nothing.  setnx takes any reply but the number 0 for a *)
(* success, an error too: V1 and V3 then return TRUE, which is a win here  *)
(* like every other; V2 returns FALSE, which changes nothing.              *)
(***************************************************************************)
EXTENDS Integers

CONSTANTS
  Client,     \* the connections that call the recipes
  Lease,      \* 3 seconds
  MaxDelay,   \* the longest a call takes
  MaxTime,    \* bound: the end of time
  MaxErrors   \* bound: commands that Redis answers with an error

ASSUME LockAssumption ==
  /\ Lease \in Nat /\ MaxDelay \in Nat
  /\ MaxDelay < Lease
  /\ MaxTime \in Nat /\ MaxErrors \in Nat

VARIABLES
  now,        \* the clock, of the clients and of Redis
  pc,
  began,      \* currentTime of each call
  seen,       \* oldExpireTime of each call of V2
  key1,       \* tryLockV1: the time at which the key is gone
  key2,       \* tryLockV2: the value of the key, or NoKey
  key3,       \* tryLockV3: whether the key is there
  wins,       \* history: how often each recipe returned TRUE
  misled,     \* history: how often of these Redis had answered with an error
  until,      \* history: until when the last of the others may rely on it
  cut,        \* history: the EXPIRE of this key1 was not sent, or was refused
  errors

callVars == <<pc, began, seen>>
winVars == <<wins, misled, until>>
vars == <<now, callVars, key1, key2, key3, winVars, cut, errors>>

Forever == MaxTime + Lease + 1
NoKey == 0
Recipe == 1..3

Held1 == key1 > now

Goto(c, l) == pc' = [pc EXCEPT ![c] = l]
Start(c, l) == Goto(c, l) /\ began' = [began EXCEPT ![c] = now]
Return(c) ==
  /\ Goto(c, "idle")
  /\ began' = [began EXCEPT ![c] = 0]
  /\ seen' = [seen EXCEPT ![c] = 0]
Promise(r, t) == until' = [until EXCEPT ![r] = t]
Count(r) == wins' = [wins EXCEPT ![r] = @ + 1]
Win(r, t) == Count(r) /\ Promise(r, t) /\ UNCHANGED misled
Error == errors < MaxErrors /\ errors' = errors + 1

(* An error for an answer, and the recipe returns TRUE.                    *)
Mislead(r) ==
  /\ Error
  /\ Count(r)
  /\ misled' = [misled EXCEPT ![r] = @ + 1]
  /\ UNCHANGED until

Init ==
  /\ now = 0
  /\ pc = [c \in Client |-> "idle"]
  /\ began = [c \in Client |-> 0]
  /\ seen = [c \in Client |-> 0]
  /\ key1 = NoKey
  /\ key2 = NoKey
  /\ key3 = FALSE
  /\ wins = [r \in Recipe |-> 0]
  /\ misled = [r \in Recipe |-> 0]
  /\ until = [r \in Recipe |-> 0]
  /\ cut = FALSE
  /\ errors = 0
-----------------------------------------------------------------------------
(* V1 *)

SetnxV1(c) ==
  /\ pc[c] = "idle"
  /\ ~Held1
  /\ key1' = Forever
  /\ Win(1, Forever)
  /\ cut' = FALSE
  /\ Start(c, "expire")
  /\ UNCHANGED <<now, seen, key2, key3, errors>>

(* The caller will be told that he has the lock; the EXPIRE he sends goes  *)
(* to the key of another, or to none.                                      *)
SetnxV1Error(c) ==
  /\ pc[c] = "idle"
  /\ Mislead(1)
  /\ Start(c, "stray")
  /\ UNCHANGED <<now, seen, key1, key2, key3, cut>>

(* Mutant: EXPIRE is forgotten.                                            *)
ExpireForgotten(c) ==
  /\ pc[c] = "expire"
  /\ Promise(1, now + Lease)
  /\ Return(c)
  /\ UNCHANGED <<now, wins, misled, key1, key2, key3, cut, errors>>

Expire(c) ==
  /\ pc[c] = "expire"
  /\ key1' = now + Lease
  /\ Promise(1, now + Lease)
  /\ Return(c)
  /\ UNCHANGED <<now, wins, misled, key2, key3, cut, errors>>

ExpireOther(c) ==
  /\ pc[c] = "stray"
  /\ key1' = IF Held1 THEN now + Lease ELSE key1
  /\ Return(c)
  /\ UNCHANGED <<now, key2, key3, winVars, cut, errors>>

(* The result of expire is not looked at: the winner has his lock, and the *)
(* key stays for ever, unless the EXPIRE of another came before his.       *)
ExpireError(c) ==
  /\ pc[c] = "expire"
  /\ Error
  /\ cut' = TRUE
  /\ Promise(1, began[c] + Lease)
  /\ Return(c)
  /\ UNCHANGED <<now, key1, key2, key3, wins, misled>>

ExpireOtherError(c) ==
  /\ pc[c] = "stray"
  /\ Error
  /\ Return(c)
  /\ UNCHANGED <<now, key1, key2, key3, winVars, cut>>
-----------------------------------------------------------------------------
(* V2 *)

CallV2(c) ==
  /\ pc[c] = "idle"
  /\ Start(c, "setnx")
  /\ UNCHANGED <<now, seen, key1, key2, key3, winVars, cut, errors>>

(* Who makes the key is told that he has not got the lock.                 *)
SetnxV2(c) ==
  /\ pc[c] = "setnx"
  /\ key2 = NoKey
  /\ key2' = began[c] + Lease
  /\ Return(c)
  /\ UNCHANGED <<now, key1, key3, winVars, cut, errors>>

KeyThere(c) ==
  /\ pc[c] = "setnx"
  /\ key2 # NoKey
  /\ Goto(c, "get")
  /\ UNCHANGED <<now, began, seen, key1, key2, key3, winVars, cut, errors>>

NotExpired(c) ==
  /\ pc[c] = "get"
  /\ key2 >= began[c]
  /\ Return(c)
  /\ UNCHANGED <<now, key1, key2, key3, winVars, cut, errors>>

GetExpired(c) ==
  /\ pc[c] = "get"
  /\ key2 < began[c]
  /\ seen' = [seen EXCEPT ![c] = key2]
  /\ Goto(c, "getset")
  /\ UNCHANGED <<now, began, key1, key2, key3, winVars, cut, errors>>

(* Mutant: what GETSET returns is not compared with what GET returned.     *)
GetSetUnchecked(c) ==
  /\ pc[c] = "getset"
  /\ key2' = began[c] + Lease
  /\ Win(2, now + Lease - MaxDelay)
  /\ Return(c)
  /\ UNCHANGED <<now, key1, key3, cut, errors>>

(* Mutant: the value written is the time at which the call began.          *)
GetSetNoLease(c) ==
  /\ pc[c] = "getset"
  /\ key2' = began[c]
  /\ IF key2 = seen[c] THEN Win(2, now + Lease - MaxDelay)
     ELSE UNCHANGED winVars
  /\ Return(c)
  /\ UNCHANGED <<now, key1, key3, cut, errors>>

(* Redis carries out the GETSET, and the reply is lost with the process.    *)
GetSetUnheard(c) ==
  /\ pc[c] = "getset"
  /\ key2' = began[c] + Lease
  /\ Return(c)
  /\ UNCHANGED <<now, key1, key3, winVars, cut, errors>>

(* The value is overwritten whether the lock is won or not, and by a       *)
(* caller that is late with an earlier time than the one there: a winner   *)
(* may rely on 3 seconds less the longest delay.                           *)
GetSet(c) ==
  /\ pc[c] = "getset"
  /\ key2' = began[c] + Lease
  /\ IF key2 = seen[c] THEN Win(2, now + Lease - MaxDelay)
     ELSE UNCHANGED winVars
  /\ Return(c)
  /\ UNCHANGED <<now, key1, key3, cut, errors>>
-----------------------------------------------------------------------------
(* V3 *)

SetnxV3(c) ==
  /\ pc[c] = "idle"
  /\ ~key3
  /\ key3' = TRUE
  /\ Win(3, Forever)
  /\ UNCHANGED <<now, callVars, key1, key2, cut, errors>>

SetnxV3Error(c) ==
  /\ pc[c] = "idle"
  /\ Mislead(3)
  /\ UNCHANGED <<now, callVars, key1, key2, key3, cut>>

(* A call ends before its time: the process dies and is started again, the *)
(* reply is NULL, or V2 has an error for an answer, which stol throws out. *)
(* Nobody relies on a lock whose winner died before he was told.           *)
CutShort(c) ==
  /\ pc[c] # "idle"
  /\ cut' = (cut \/ pc[c] = "expire")
  /\ IF pc[c] = "expire" THEN Promise(1, now) ELSE UNCHANGED until
  /\ Return(c)
  /\ UNCHANGED <<now, wins, misled, key1, key2, key3, errors>>

Tick ==
  /\ now < MaxTime
  /\ \A c \in Client : pc[c] # "idle" => now < began[c] + MaxDelay
  /\ now' = now + 1
  /\ UNCHANGED <<callVars, key1, key2, key3, winVars, cut, errors>>

tryLockV1(c) ==
  \/ SetnxV1(c) \/ SetnxV1Error(c)
  \/ Expire(c) \/ ExpireError(c) \/ ExpireOther(c) \/ ExpireOtherError(c)

tryLockV2(c) ==
  \/ CallV2(c) \/ SetnxV2(c) \/ KeyThere(c) \/ NotExpired(c) \/ GetExpired(c)
  \/ GetSet(c) \/ GetSetUnheard(c)

tryLockV3(c) == SetnxV3(c) \/ SetnxV3Error(c)

Next ==
  \/ \E c \in Client : tryLockV1(c) \/ tryLockV2(c) \/ tryLockV3(c) \/ CutShort(c)
  \/ Tick

Spec == Init /\ [][Next]_vars
-----------------------------------------------------------------------------
Times ==
  /\ now \in 0..MaxTime
  /\ key1 \in 0..Forever
  /\ key2 \in 0..Forever
  /\ errors \in 0..MaxErrors

Calls ==
  /\ pc \in [Client -> {"idle", "expire", "stray", "setnx", "get", "getset"}]
  /\ began \in [Client -> 0..MaxTime]
  /\ seen \in [Client -> 0..Forever]

Promises ==
  /\ wins \in [Recipe -> Nat]
  /\ misled \in [Recipe -> Nat]
  /\ until \in [Recipe -> 0..Forever]

Flags == key3 \in BOOLEAN /\ cut \in BOOLEAN

(* Times stay before Forever, and every client is at a line of a recipe.   *)
TypeOK == Times /\ Calls /\ Promises /\ Flags

(* A recipe returns TRUE only when the last winner may not rely on his     *)
(* lock any more - unless Redis has answered this very call with an error. *)
(* A winner may rely on V1 for 3 seconds from his EXPIRE (from his call,   *)
(* if that was refused), and until then; on V2 for 3 seconds less the      *)
(* longest delay of a call, although every loser rewrites the expiry; on   *)
(* V3 for ever.  Who is misled by an error may rely on nothing, and his    *)
(* EXPIRE does not shorten the lease of anybody.  So of two callers that   *)
(* were told TRUE and act on it at a time, one was told so by an error.    *)
WinsApart ==
  [][\A r \in Recipe :
       wins'[r] # wins[r] => until[r] <= now \/ misled'[r] # misled[r]]_vars

(* V2: who overwrites an expired value has read that value, and so wins.   *)
(* The comment above tryLockV2 fears that under contention the value is    *)
(* overwritten again and again and nobody gets the lock; that takes a call *)
(* longer than the lease.                                                  *)
ExpiredIsWon ==
  \A c \in Client : pc[c] = "getset" /\ key2 < began[c] => seen[c] = key2

(* V1: a key stays for ever only if its maker was cut off before EXPIRE or *)
(* Redis refused it, as the comment above tryLockV1 says, also when an     *)
(* error makes another caller send an EXPIRE for it.                       *)
StuckMeansCut ==
  key1 = Forever => cut \/ \E c \in Client : pc[c] = "expire"
=============================================================================
