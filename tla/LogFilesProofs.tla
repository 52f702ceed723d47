---------------------------- MODULE LogFilesProofs ----------------------------
(***************************************************************************)
(* Theorems about the files of ring_log, for any number of threads that    *)
(* log, any lengths of the day, the month and the files, and any failures  *)
(* of fopen.                                                               *)
(*   - What was written since the date of the file changed is in the files *)
(*     of that date, in order: the names of the old files are counted well *)
(*     enough by _log_cnt that no rename overwrites one of them (Placed),  *)
(*     however often fopen failed in between.                              *)
(*   - Nothing at all is lost unless two threads met at a change of the    *)
(*     date: until then the date does not go back (Forward), the persister *)
(*     reads one that was (Reading), and so never opens an old file.       *)
(***************************************************************************)
EXTENDS LogFiles, SequenceTheorems, TLAPS

-----------------------------------------------------------------------------
(* The parts of the invariant: types.                                      *)

Minute == 0..MaxMinute
Place == {"idle", "second", "minute", "set", "localtime", "mon", "day"}

TimerTypes ==
  /\ minute \in Minute /\ accSec \in Minute /\ accMin \in Minute
  /\ mon \in 0..Month(MaxMinute) /\ day \in 0..DaysPerMonth - 1
  /\ pc \in [Logger -> Place]
  /\ tv \in [Logger -> Minute]
  /\ asked \in Date
  /\ line \in {"month", "day", "file", "write"}
  /\ raced \in BOOLEAN

FileTypes ==
  /\ isOpen \in BOOLEAN
  /\ fileDate \in Date
  /\ files \in [Date -> [Index -> Seq(Nat)]]
  /\ logCnt \in Nat
  /\ written \in 0..MaxBuffer
  /\ failures \in 0..MaxFailures
  /\ opened \in 0..written

(* The files of one date.                                                  *)

Current == files[fileDate]

(* Nothing is in a file that was not written.                              *)
Known ==
  \A d \in Date, i \in Index : \A p \in DOMAIN files[d][i] : files[d][i][p] \in 1..written

(* The names of the old files are enough: each needs a buffer, or a call   *)
(* that failed.                                                            *)
Spare ==
  /\ isOpen => /\ logCnt >= 1
               /\ logCnt <= failures + 1 + written
               /\ Current[0] # <<>> => logCnt <= failures + written
  /\ ~isOpen => logCnt <= failures + written

(* The buffers of this day are where the next rotation moves them on.      *)
Placed ==
  \A i \in Index : \A p \in DOMAIN Current[i] :
    Current[i][p] > opened => IF isOpen THEN i < logCnt ELSE i \in 1..logCnt

InHand ==
  /\ line # "month" => written < MaxBuffer
  /\ line = "write" => isOpen

AllInOrder == \A d \in Date : InOrder(d)

Kept == \A k \in opened + 1..written : Holds(fileDate, k)

FileInv == FileTypes /\ Known /\ Spare /\ Placed /\ InHand /\ AllInOrder /\ Kept

(* The dates.                                                              *)

DateOf(m) == [mon |-> Month(m), day |-> Day(m)]
Now == [mon |-> mon, day |-> day]
NotAfter(d, e) == ~Earlier(e, d)

(* All that a thread in get_curr_time may still set the date to is from d  *)
(* on.                                                                     *)
Under(d) ==
  /\ \A t \in Logger : pc[t] \in {"second", "mon", "day"} => NotAfter(d, DateOf(tv[t]))
  /\ \A t \in Logger : pc[t] \in {"minute", "set", "localtime"} => NotAfter(d, DateOf(accSec))
  /\ NotAfter(d, DateOf(minute))

(* And so is the date, unless it is being changed.                         *)
Floor(d) == Under(d) /\ (At("day") = {} => NotAfter(d, Now))

NoneAhead == accSec <= minute /\ \A t \in Logger : tv[t] <= minute

(* Without a race the date is that of one thread, ...                      *)
OneMonth == \A t \in Logger : pc[t] = "day" => mon = Month(tv[t])

(* ... it does not go back, but for the moment between its two fields, ... *)
Forward ==
  \/ Under(Now)
  \/ \E t \in Logger : pc[t] = "day" /\ Under(DateOf(tv[t]))

(* ... and what the persister reads is a date that was, not before that of *)
(* the file.                                                               *)
Reading ==
  /\ line = "day" => asked.mon = mon /\ NotAfter(fileDate, Now) /\ Under(Now)
  /\ line = "file" => Floor(asked) /\ NotAfter(fileDate, asked)

DateInv == OneMonth /\ Forward /\ Floor(fileDate) /\ Reading

(* Without a race the date of the file is the last that has files, and     *)
(* they hold what was written since it changed.                            *)
LastFiles ==
  \A d \in Date : \A k \in 1..written :
    Holds(d, k) => NotAfter(d, fileDate) /\ (d = fileDate => k > opened)

Everywhere == \A k \in 1..written : \E d \in Date : Holds(d, k)

DatesInOrder ==
  \A d, e \in Date : \A k, l \in 1..written :
    Earlier(d, e) /\ Holds(d, k) /\ Holds(e, l) => k < l

Contents == LastFiles /\ Everywhere /\ DatesInOrder

Types == TimerTypes /\ NoneAhead /\ FileInv

IInv == Types /\ (raced \/ (DateInv /\ Contents))

-----------------------------------------------------------------------------
(* Dates and their order.                                                  *)

LEMMA Quotients ==
  ASSUME NEW p \in Nat \ {0}, NEW m \in Nat, NEW n \in Nat, m <= n
  PROVE  /\ m \div p \in Nat /\ n \div p \in Nat /\ m \div p <= n \div p
         /\ m % p \in 0..p - 1 /\ n % p \in 0..p - 1
         /\ m \div p = n \div p => m % p <= n % p
OBVIOUS

LEMMA DatesForward ==
  ASSUME NEW m \in Minute, NEW n \in Minute, m <= n
  PROVE  NotAfter(DateOf(m), DateOf(n))
<1>1. m \in Nat /\ n \in Nat
  BY LogFilesAssumption DEF Minute
<1>2. /\ m \div MinutesPerDay \in Nat /\ n \div MinutesPerDay \in Nat
      /\ m \div MinutesPerDay <= n \div MinutesPerDay
  BY <1>1, Quotients, LogFilesAssumption
<1>3. /\ Month(m) \in Nat /\ Month(n) \in Nat /\ Month(m) <= Month(n)
      /\ Day(m) \in Int /\ Day(n) \in Int
      /\ Month(m) = Month(n) => Day(m) <= Day(n)
  <2> DEFINE x == m \div MinutesPerDay
             y == n \div MinutesPerDay
  <2>1. x \in Nat /\ y \in Nat /\ x <= y /\ DaysPerMonth \in Nat \ {0}
    BY <1>2, LogFilesAssumption
  <2> HIDE DEF x, y
  <2>2. /\ x \div DaysPerMonth \in Nat /\ y \div DaysPerMonth \in Nat
        /\ x \div DaysPerMonth <= y \div DaysPerMonth
        /\ x % DaysPerMonth \in 0..DaysPerMonth - 1 /\ y % DaysPerMonth \in 0..DaysPerMonth - 1
        /\ x \div DaysPerMonth = y \div DaysPerMonth => x % DaysPerMonth <= y % DaysPerMonth
    BY ONLY <2>1, Quotients
  <2> QED
    BY <2>1, <2>2 DEF Month, Day, x, y
<1> QED
  BY <1>3 DEF NotAfter, Earlier, DateOf

LEMMA DateTypes ==
  ASSUME NEW m \in Minute
  PROVE  DateOf(m) \in Date
<1>1. MaxMinute \in Minute /\ m <= MaxMinute /\ m \in Nat /\ MaxMinute \in Nat
  BY LogFilesAssumption DEF Minute
<1>2. /\ m \div MinutesPerDay \in Nat /\ MaxMinute \div MinutesPerDay \in Nat
      /\ m \div MinutesPerDay <= MaxMinute \div MinutesPerDay
  BY <1>1, Quotients, LogFilesAssumption
<1>3. /\ Month(m) \in Nat /\ Month(MaxMinute) \in Nat /\ Month(m) <= Month(MaxMinute)
      /\ Day(m) \in 0..DaysPerMonth - 1
  BY <1>2, Quotients, LogFilesAssumption DEF Month, Day
<1> QED
  BY <1>3 DEF DateOf, Date

LEMMA DateOrder ==
  ASSUME NEW d \in Date, NEW e \in Date, NEW f \in Date
  PROVE  /\ NotAfter(d, d)
         /\ NotAfter(d, e) /\ NotAfter(e, f) => NotAfter(d, f)
         /\ NotAfter(d, e) /\ d # e => Earlier(d, e)
         /\ Earlier(d, e) /\ NotAfter(e, f) => Earlier(d, f)
         /\ Earlier(d, e) => d # e /\ NotAfter(d, e)
<1>1. /\ d.mon \in Int /\ d.day \in Int /\ e.mon \in Int /\ e.day \in Int
      /\ f.mon \in Int /\ f.day \in Int
  BY DEF Date
<1>2. d.mon = e.mon /\ d.day = e.day => d = e
  BY DEF Date
<1> HIDE DEF Date
<1> QED
  BY ONLY <1>1, <1>2 DEF NotAfter, Earlier

-----------------------------------------------------------------------------
(* The types of the timer.                                                 *)

LEMMA NextTimerTypes ==
  ASSUME TimerTypes, NoneAhead, fileDate \in Date, [Next]_vars
  PROVE  TimerTypes' /\ NoneAhead'
<1> USE DEF TimerTypes, NoneAhead, Goto
<1>1. \A m \in Minute : Month(m) \in 0..Month(MaxMinute) /\ Day(m) \in 0..DaysPerMonth - 1
  BY DateTypes DEF DateOf, Date
<1>2. 0 \in Minute /\ Minute \subseteq Int
  BY LogFilesAssumption DEF Minute
<1>3. ASSUME NEW t \in Logger, get_curr_time(t) PROVE TimerTypes' /\ NoneAhead'
  <2>1. CASE ReadClock(t)
    BY <2>1, <1>2 DEF ReadClock, Place
  <2>2. CASE SetSecond(t)
    BY <2>2, <1>2 DEF SetSecond, Leave, Place, Minute
  <2>3. CASE TestMinute(t) \/ SetMinute(t)
    BY <2>3, <1>2 DEF TestMinute, SetMinute, Place
  <2>4. CASE LocalTime(t)
    BY <2>4, <1>2 DEF LocalTime, Place
  <2>5. CASE SetMonth(t)
    BY <2>5, <1>1 DEF SetMonth, Place, Notice
  <2>6. CASE SetDay(t)
    BY <2>6, <1>1, <1>2 DEF SetDay, Leave, Place, Notice, Minute
  <2> QED
    BY <1>3, <2>1, <2>2, <2>3, <2>4, <2>5, <2>6 DEF get_curr_time
<1>4. CASE ReadMonth \/ ReadDay
  BY <1>4 DEF ReadMonth, ReadDay, timerVars, Date
<1>5. CASE decis_file \/ Persist \/ PersistNothing
  BY <1>5 DEF decis_file, FirstFile, NextDay, Rotate, SameFile, Fopen, Persist,
     PersistNothing, timerVars
<1>6. CASE Tick
  <2>1. minute' = minute + 1 /\ minute' \in Minute
    BY <1>6, LogFilesAssumption DEF Tick, Minute
  <2> QED
    BY <1>6, <2>1, LogFilesAssumption DEF Tick, timerVars, Minute
<1>7. CASE UNCHANGED vars
  BY <1>7 DEF vars, timerVars
<1> QED
  BY <1>3, <1>4, <1>5, <1>6, <1>7 DEF Next

-----------------------------------------------------------------------------
(* What decis_file and a write do to the files g of one date.              *)

Files == [Index -> Seq(Nat)]

Sorted(g) ==
  \A i, j \in Index : \A p \in DOMAIN g[i], q \in DOMAIN g[j] :
    i > j \/ (i = j /\ p < q) => g[i][p] < g[j][q]

Emptied(g) == [g EXCEPT ![0] = <<>>]
Extended(g, k) == [g EXCEPT ![0] = Append(g[0], k)]

LEMMA IndexFacts ==
  /\ 0 \in Index /\ 1 \in Index /\ Index \subseteq Nat
  /\ \A i \in Index : i # 0 => i - 1 \in Index
BY LogFilesAssumption DEF Index

LEMMA EmptiedFacts ==
  ASSUME NEW g \in Files
  PROVE  /\ Emptied(g) \in Files
         /\ \A i \in Index : Emptied(g)[i] = IF i = 0 THEN <<>> ELSE g[i]
         /\ Sorted(g) => Sorted(Emptied(g))
<1>1. <<>> \in Seq(Nat) /\ DOMAIN <<>> = {}
  BY EmptySeq
<1>2. Emptied(g) \in Files /\ \A i \in Index : Emptied(g)[i] = IF i = 0 THEN <<>> ELSE g[i]
  BY <1>1, IndexFacts DEF Emptied, Files
<1>3. ASSUME Sorted(g) PROVE Sorted(Emptied(g))
  BY <1>1, <1>2, <1>3 DEF Sorted
<1> QED
  BY <1>2, <1>3

LEMMA ExtendedFacts ==
  ASSUME NEW g \in Files, NEW k \in Nat,
         \A i \in Index : \A p \in DOMAIN g[i] : g[i][p] < k
  PROVE  /\ Extended(g, k) \in Files
         /\ \A i \in Index : i # 0 => Extended(g, k)[i] = g[i]
         /\ Extended(g, k)[0] # <<>>
         /\ \A p \in DOMAIN Extended(g, k)[0] :
              \/ p \in DOMAIN g[0] /\ Extended(g, k)[0][p] = g[0][p]
              \/ p \notin DOMAIN g[0] /\ Extended(g, k)[0][p] = k
         /\ \A p \in DOMAIN g[0] :
              p \in DOMAIN Extended(g, k)[0] /\ Extended(g, k)[0][p] = g[0][p]
         /\ \E p \in DOMAIN Extended(g, k)[0] : Extended(g, k)[0][p] = k
         /\ Sorted(g) => Sorted(Extended(g, k))
<1> DEFINE s == g[0]
           t == Append(s, k)
           e == Extended(g, k)
<1>1. s \in Seq(Nat) /\ Len(s) \in Nat /\ DOMAIN s = 1..Len(s)
  BY IndexFacts, LenProperties DEF Files
<1>2. /\ t \in Seq(Nat) /\ t # <<>> /\ Len(t) = Len(s) + 1
      /\ \A p \in 1..Len(s) : t[p] = s[p]
      /\ t[Len(s) + 1] = k
  BY <1>1, AppendProperties
<1>3. DOMAIN t = 1..Len(s) + 1
  BY <1>2, LenProperties
<1>4. e \in Files /\ e[0] = t /\ \A i \in Index : i # 0 => e[i] = g[i]
  <2> HIDE DEF t
  <2>1. t \in Seq(Nat) /\ e = [g EXCEPT ![0] = t]
    BY <1>2 DEF Extended, t
  <2> QED
    BY <2>1, IndexFacts DEF Files
<1> HIDE DEF s, t, e
<1>5. /\ \A p \in DOMAIN t : \/ p \in DOMAIN s /\ t[p] = s[p]
                             \/ p = Len(s) + 1 /\ p \notin DOMAIN s /\ t[p] = k
      /\ \A p \in DOMAIN s : p \in DOMAIN t /\ t[p] = s[p]
      /\ Len(s) + 1 \in DOMAIN t /\ t[Len(s) + 1] = k
  BY ONLY <1>1, <1>2, <1>3
<1>6. \A i \in Index : \A p \in DOMAIN g[i] : g[i][p] < k
  OBVIOUS
<1>7. ASSUME Sorted(g) PROVE Sorted(e)
  <2> SUFFICES ASSUME NEW i \in Index, NEW j \in Index, NEW p \in DOMAIN e[i],
                      NEW q \in DOMAIN e[j],
                      i > j \/ (i = j /\ p < q)
               PROVE  e[i][p] < e[j][q]
    BY DEF Sorted
  <2>1. i # 0 \/ j = 0
    BY IndexFacts
  <2>2. CASE i # 0 /\ j # 0
    BY <1>4, <1>7, <2>2 DEF Sorted
  <2>3. CASE i # 0 /\ j = 0
    <3>1. p \in DOMAIN g[i] /\ e[i][p] = g[i][p]
      BY <1>4, <2>3
    <3>2. CASE q \in DOMAIN s /\ t[q] = s[q]
      BY <1>4, <1>7, <2>3, <3>1, <3>2 DEF Sorted, s
    <3>3. CASE t[q] = k
      BY <1>4, <1>6, <2>3, <3>1, <3>3
    <3> QED
      BY <1>4, <1>5, <2>3, <3>2, <3>3
  <2>4. CASE i = 0 /\ j = 0
    <3>1. p \in DOMAIN t /\ q \in DOMAIN t /\ p < q /\ e[i][p] = t[p] /\ e[j][q] = t[q]
      BY <1>4, <2>4
    <3>2. p \in DOMAIN s /\ t[p] = s[p]
      BY <1>1, <1>3, <1>5, <3>1
    <3>3. CASE q \in DOMAIN s /\ t[q] = s[q]
      BY <1>7, <2>4, <3>1, <3>2, <3>3 DEF Sorted, s
    <3>4. CASE t[q] = k
      BY <1>6, <2>4, <3>1, <3>2, <3>4 DEF s
    <3> QED
      BY <1>5, <3>1, <3>3, <3>4
  <2> QED
    BY <2>1, <2>2, <2>3, <2>4
<1> QED
  BY <1>2, <1>4, <1>5, <1>7 DEF s, e

(* Where the renames of a rotation take log.i from.                        *)
From(g, n, i) ==
  IF i = 1 \/ (i \in 2..n /\ (i < n \/ g[i - 1] # <<>>)) THEN i - 1 ELSE i

LEMMA RenamedFacts ==
  ASSUME NEW g \in Files, NEW n \in Nat
  PROVE  /\ Renamed(g, n) \in Files
         /\ \A i \in Index : i # 0 => From(g, n, i) \in Index
         /\ \A i \in Index : Renamed(g, n)[i] = IF i = 0 THEN <<>> ELSE g[From(g, n, i)]
<1>1. ASSUME NEW i \in Index, i # 0 PROVE From(g, n, i) \in Index
  BY <1>1, IndexFacts DEF From
<1>2. ASSUME NEW i \in Index
      PROVE  Renamed(g, n)[i] = IF i = 0 THEN <<>> ELSE g[From(g, n, i)]
  BY <1>2, IndexFacts DEF From, Renamed
<1>3. Renamed(g, n) = [i \in Index |-> IF i = 0 THEN <<>> ELSE g[From(g, n, i)]]
  BY <1>2 DEF Renamed
<1>4. \A i \in Index : (IF i = 0 THEN <<>> ELSE g[From(g, n, i)]) \in Seq(Nat)
  BY <1>1, EmptySeq DEF Files
<1> QED
  BY <1>1, <1>2, <1>3, <1>4 DEF Files

LEMMA RenamedSorted ==
  ASSUME NEW g \in Files, NEW n \in Nat, Sorted(g)
  PROVE  Sorted(Renamed(g, n))
<1> DEFINE r == Renamed(g, n)
           from(i) == From(g, n, i)
<1> SUFFICES ASSUME NEW i \in Index, NEW j \in Index, NEW p \in DOMAIN r[i],
                    NEW q \in DOMAIN r[j],
                    i > j \/ (i = j /\ p < q)
             PROVE  r[i][p] < r[j][q]
  BY DEF Sorted
<1>1. i # 0 /\ j # 0
  <2>1. \A k \in Index : k = 0 => r[k] = <<>>
    BY RenamedFacts
  <2>2. DOMAIN r[i] # {} /\ DOMAIN r[j] # {} /\ DOMAIN <<>> = {}
    BY EmptySeq
  <2> QED
    BY ONLY <2>1, <2>2
<1>2. /\ from(i) \in Index /\ from(j) \in Index
      /\ r[i] = g[from(i)] /\ r[j] = g[from(j)]
  BY <1>1, RenamedFacts
<1>3. i > j => from(i) > from(j)
  BY <1>1, IndexFacts DEF From
<1> HIDE DEF r, from
<1>4. i = j => from(i) = from(j)
  BY DEF from
<1> QED
  BY <1>2, <1>3, <1>4 DEF Sorted

-----------------------------------------------------------------------------
(* The invariant of the files, whatever the date does.                     *)

LEMMA ElementFacts ==
  ASSUME FileTypes, Known, NEW d \in Date, NEW i \in Index
  PROVE  /\ files[d] \in Files /\ files[d][i] \in Seq(Nat)
         /\ \A p \in DOMAIN files[d][i] : files[d][i][p] \in 1..written
         /\ InOrder(d) <=> Sorted(files[d])
         /\ \A k : Holds(d, k) <=>
                    \E j \in Index : \E p \in DOMAIN files[d][j] : files[d][j][p] = k
BY DEF FileTypes, Known, Files, InOrder, Sorted, Holds, Range

(* A step changes the files of one date, or none.                          *)
Puts(d, g) == files' \in [Date -> Files] /\ files'[d] = g
              /\ \A e \in Date : e # d => files'[e] = files[e]

LEMMA PutsFacts ==
  ASSUME FileTypes, NEW d \in Date, NEW g \in Files, files' = [files EXCEPT ![d] = g]
  PROVE  Puts(d, g)
<1>1. files \in [Date -> Files]
  BY DEF FileTypes, Files
<1> QED
  BY ONLY <1>1, files' = [files EXCEPT ![d] = g], d \in Date, g \in Files DEF Puts

(* The first file, or the one of another day.                              *)
Opens ==
  /\ fileDate' = asked /\ written' = written
  /\ opened' = IF asked # fileDate THEN written ELSE opened
  /\ isOpen => asked # fileDate
  /\ \/ /\ files' = [files EXCEPT ![asked] = Emptied(files[asked])]
        /\ isOpen' = TRUE /\ failures' = failures /\ line' = "write"
        /\ logCnt' = IF isOpen THEN 1 ELSE logCnt + 1
     \/ /\ files' = files
        /\ isOpen' = FALSE /\ logCnt' = logCnt /\ line' = "month"
        /\ failures < MaxFailures /\ failures' = failures + 1

LEMMA OpenSteps ==
  ASSUME FileTypes, asked \in Date, FirstFile \/ NextDay
  PROVE  Opens /\ line = "file"
<1>1. CASE FirstFile
  BY <1>1 DEF FirstFile, NameFile, Fopen, Opens, Emptied
<1>2. CASE NextDay
  BY <1>2 DEF NextDay, NameFile, Fopen, Opens, Emptied, OtherDay
<1> QED
  BY <1>1, <1>2

LEMMA OpensPuts ==
  ASSUME FileTypes, Known, AllInOrder, asked \in Date, Opens
  PROVE  \E e \in Files :
         /\ Puts(asked, e) /\ Sorted(e)
         /\ e[0] = <<>> \/ (files' = files /\ e = files[asked])
         /\ isOpen' => e[0] = <<>>
         /\ \A i \in Index : i # 0 => e[i] = files[asked][i]
<1> DEFINE g == files[asked]
<1>1. g \in Files /\ Sorted(g)
  BY ElementFacts, IndexFacts DEF AllInOrder
<1>2. CASE files' = [files EXCEPT ![asked] = Emptied(g)]
  <2>1. Emptied(g) \in Files /\ Sorted(Emptied(g)) /\ Emptied(g)[0] = <<>>
        /\ \A i \in Index : i # 0 => Emptied(g)[i] = g[i]
    BY <1>1, EmptiedFacts, IndexFacts
  <2>2. Puts(asked, Emptied(g))
    BY <1>2, <2>1, PutsFacts
  <2> QED
    BY <2>1, <2>2
<1>3. CASE files' = files /\ isOpen' = FALSE
  BY <1>1, <1>3 DEF Puts, FileTypes, Files
<1> QED
  BY <1>2, <1>3 DEF Opens

LEMMA OpensKeeps ==
  ASSUME FileInv, asked \in Date, line = "file", Opens
  PROVE  FileInv'
<1> USE DEF FileInv
<1>1. PICK e \in Files :
        /\ Puts(asked, e) /\ Sorted(e)
        /\ e[0] = <<>> \/ (files' = files /\ e = files[asked])
        /\ isOpen' => e[0] = <<>>
        /\ \A i \in Index : i # 0 => e[i] = files[asked][i]
  BY OpensPuts
<1>2. /\ written \in Nat /\ failures \in Nat /\ logCnt \in Nat /\ opened \in 0..written
      /\ written \in 0..MaxBuffer /\ failures \in 0..MaxFailures
      /\ MaxBuffer \in Nat /\ MaxFailures \in Nat
      /\ written < MaxBuffer
  BY LogFilesAssumption DEF FileTypes, InHand
<1>3. FileTypes'
  <2>1. /\ fileDate' \in Date /\ isOpen' \in BOOLEAN
        /\ files' \in [Date -> [Index -> Seq(Nat)]]
    BY <1>1 DEF Opens, Puts, Files
  <2>2. /\ logCnt' \in Nat /\ failures' \in 0..MaxFailures
        /\ written' \in 0..MaxBuffer /\ opened' \in 0..written'
    BY <1>2 DEF Opens
  <2> QED
    BY <2>1, <2>2 DEF FileTypes
<1>4. ASSUME NEW d \in Date, NEW i \in Index, NEW p \in DOMAIN files'[d][i]
      PROVE  /\ p \in DOMAIN files[d][i] /\ files'[d][i][p] = files[d][i][p]
             /\ d = asked /\ i = 0 => files' = files
  <2>1. CASE d # asked
    BY <1>1, <2>1 DEF Puts
  <2>2. CASE d = asked /\ i # 0
    BY <1>1, <2>2 DEF Puts
  <2>3. CASE d = asked /\ i = 0
    BY <1>1, <2>3, EmptySeq DEF Puts
  <2> QED
    BY <2>1, <2>2, <2>3
<1>5. Known'
  BY <1>4 DEF Known, Opens
<1>6. AllInOrder'
  <2>1. ASSUME NEW d \in Date PROVE InOrder(d)'
    BY <1>1, <2>1 DEF Puts, AllInOrder, InOrder, Sorted
  <2> QED
    BY <2>1 DEF AllInOrder
<1>7. InHand'
  BY <1>2 DEF InHand, Opens
<1>8. CASE asked # fileDate
  <2>1. Kept'
    BY <1>2, <1>8 DEF Kept, Opens
  <2>2. Placed'
    <3> SUFFICES ASSUME NEW i \in Index, NEW p \in DOMAIN Current'[i]
                 PROVE  ~(Current'[i][p] > opened')
      BY DEF Placed
    <3>1. Current'[i][p] \in 1..written /\ opened' = written
      BY <1>3, <1>5, <1>8 DEF Known, Opens, FileTypes, Current
    <3> QED
      BY <1>2, <3>1
  <2>3. Spare'
    <3>1. isOpen' => Current'[0] = <<>>
      BY <1>1 DEF Current, Opens, Puts
    <3> QED
      BY <1>2, <1>8, <3>1 DEF Spare, Opens
  <2> QED
    BY <1>3, <1>5, <1>6, <1>7, <2>1, <2>2, <2>3
<1>9. CASE asked = fileDate
  <2>1. ~isOpen /\ fileDate' = fileDate /\ opened' = opened /\ written' = written
    BY <1>9 DEF Opens
  <2>2. ASSUME NEW k \in opened + 1..written PROVE Holds(fileDate, k)'
    <3>1. PICK i \in Index : \E p \in DOMAIN Current[i] : Current[i][p] = k
      BY DEF Kept, Current, Holds, Range
    <3>2. i # 0
      BY <1>2, <2>1, <3>1 DEF Placed
    <3>3. files'[fileDate][i] = Current[i]
      BY <1>1, <1>9, <3>2 DEF Puts, Current
    <3> QED
      BY <2>1, <3>1, <3>3 DEF Holds, Range
  <2>3. Kept'
    BY <2>1, <2>2 DEF Kept
  <2>4. Placed'
    <3> SUFFICES ASSUME NEW i \in Index,
                        NEW p \in DOMAIN Current'[i], Current'[i][p] > opened
                 PROVE  IF isOpen' THEN i < logCnt' ELSE i \in 1..logCnt'
      BY <2>1 DEF Placed
    <3>1. p \in DOMAIN Current[i] /\ Current[i][p] > opened
      BY <1>4, <2>1 DEF Current, FileTypes
    <3>2. i \in 1..logCnt
      BY <2>1, <3>1 DEF Placed
    <3> QED
      BY <1>2, <2>1, <3>2, IndexFacts DEF Opens
  <2>5. Spare'
    <3>1. isOpen' => Current'[0] = <<>>
      BY <1>1 DEF Current, Opens, Puts
    <3> QED
      BY <1>2, <2>1, <3>1 DEF Spare, Opens
  <2> QED
    BY <1>3, <1>5, <1>6, <1>7, <2>3, <2>4, <2>5
<1> QED
  BY <1>8, <1>9

(* A rotation, whether fopen succeeds or not.                              *)
Rotates ==
  /\ fileDate' = fileDate /\ opened' = opened /\ written' = written
  /\ isOpen /\ Current[0] # <<>>
  /\ Puts(fileDate, Renamed(Current, logCnt))
  /\ \/ isOpen' = TRUE /\ failures' = failures /\ line' = "write" /\ logCnt' = logCnt + 1
     \/ /\ isOpen' = FALSE /\ logCnt' = logCnt /\ line' = "month"
        /\ failures < MaxFailures /\ failures' = failures + 1

LEMMA RotateSteps ==
  ASSUME FileTypes, Known, Rotate
  PROVE  Rotates /\ line = "file"
<1> DEFINE r == Renamed(Current, logCnt)
           f == [files EXCEPT ![fileDate] = r]
<1>1. r \in Files /\ r[0] = <<>>
  BY RenamedFacts, IndexFacts, ElementFacts DEF Current, FileTypes
<1>2. files \in [Date -> Files] /\ fileDate \in Date
  BY DEF FileTypes, Files
<1>3. f = [files EXCEPT ![fileDate] = Renamed(@, logCnt)]
  BY DEF Current
<1> HIDE DEF r
<1>4. [f EXCEPT ![fileDate][0] = <<>>] = f
  <2>1. [r EXCEPT ![0] = <<>>] = r
    BY ONLY <1>1, IndexFacts DEF Files
  <2>2. f[fileDate] = r
    BY ONLY <1>2
  <2> QED
    BY ONLY <1>2, <2>1, <2>2
<1>5. files' = f
  BY <1>3, <1>4 DEF Rotate, Fopen
<1>6. Puts(fileDate, r)
  BY <1>1, <1>2, <1>5, PutsFacts
<1>7. Current[0] # <<>>
  <2>1. Len(Current[0]) >= LogUseLimit
    BY DEF Rotate, Full, Current
  <2> QED
    BY <2>1, EmptySeq, LogFilesAssumption
<1> QED
  BY <1>6, <1>7 DEF Rotate, Fopen, Rotates, r

(* What was written since the date of the file changed moves on: its file  *)
(* is one of those that are renamed, and is not overwritten.               *)
LEMMA RotatesMove ==
  ASSUME FileInv, Rotates, NEW k \in Nat, k > opened, Holds(fileDate, k)
  PROVE  Holds(fileDate, k)'
<1> DEFINE n == logCnt
<1> USE DEF FileInv
<1>1. /\ fileDate \in Date /\ n \in Nat /\ n >= 1 /\ written \in Nat /\ failures \in Nat
      /\ failures \in 0..MaxFailures /\ written \in 0..MaxBuffer
      /\ n <= failures + written /\ MaxBuffer \in Nat /\ MaxFailures \in Nat
  BY LogFilesAssumption DEF FileTypes, Spare, Rotates
<1>2. PICK g \in Files : g = Current
  BY ElementFacts DEF Current, FileTypes, Files
<1>3. PICK r \in Files : r = Renamed(g, n)
  BY <1>1, RenamedFacts
<1>4. \A i \in Index : i # 0 => r[i] = g[From(g, n, i)]
  BY <1>1, <1>3, RenamedFacts
<1>5. files'[fileDate] = r /\ fileDate' = fileDate
  BY <1>2, <1>3 DEF Rotates, Puts
<1>6. PICK i \in Index : \E p \in DOMAIN g[i] : g[i][p] = k
  BY <1>2 DEF Holds, Range, Current
<1>7. PICK p \in DOMAIN g[i] : g[i][p] = k
  BY <1>6
<1>8. i < n
  BY <1>2, <1>7 DEF Placed, Rotates
<1>9. g[i] # <<>>
  BY <1>7, EmptySeq
<1>10. i \in Nat /\ i + 1 \in Index /\ i + 1 # 0
  BY <1>1, <1>8, IndexFacts DEF Index
<1>11. From(g, n, i + 1) = i
  BY <1>1, <1>8, <1>9, <1>10 DEF From
<1>12. r[i + 1] = g[i]
  BY <1>4, <1>10, <1>11
<1> QED
  BY <1>5, <1>7, <1>10, <1>12 DEF Holds, Range

LEMMA RotatesKeeps ==
  ASSUME FileInv, line = "file", Rotates
  PROVE  FileInv'
<1> DEFINE n == logCnt
<1> USE DEF FileInv
<1>1. /\ written \in Nat /\ failures \in Nat /\ n \in Nat /\ n >= 1 /\ opened \in 0..written
      /\ written \in 0..MaxBuffer /\ failures \in 0..MaxFailures
      /\ MaxBuffer \in Nat /\ MaxFailures \in Nat
      /\ n <= failures + written
  BY LogFilesAssumption DEF FileTypes, Spare, Rotates
<1>2. PICK g \in Files : g = Current
  BY ElementFacts DEF Current, FileTypes, Files
<1>3. PICK r \in Files : r = Renamed(g, n)
  BY <1>1, RenamedFacts
<1>4. /\ r[0] = <<>>
      /\ \A i \in Index : i # 0 => From(g, n, i) \in Index /\ r[i] = g[From(g, n, i)]
      /\ Sorted(r)
  <2>1. Sorted(g)
    <3>1. InOrder(fileDate)
      BY DEF AllInOrder, FileTypes
    <3> QED
      BY <1>2, <3>1 DEF InOrder, Sorted, Current
  <2> QED
    BY <1>1, <1>3, <2>1, RenamedFacts, RenamedSorted, IndexFacts
<1>5. /\ files' \in [Date -> Files] /\ files'[fileDate] = r
      /\ \A d \in Date : d # fileDate => files'[d] = files[d]
      /\ fileDate' = fileDate /\ opened' = opened /\ written' = written
      /\ Current' = r
  BY <1>2, <1>3 DEF Rotates, Puts, Current
<1>6. ASSUME NEW i \in Index, NEW p \in DOMAIN r[i]
      PROVE  /\ i # 0 /\ From(g, n, i) \in Index /\ i <= From(g, n, i) + 1
             /\ p \in DOMAIN g[From(g, n, i)] /\ r[i][p] = g[From(g, n, i)][p]
  <2>1. i # 0
    BY <1>4, <1>6, EmptySeq
  <2>2. i <= From(g, n, i) + 1
    BY IndexFacts DEF From
  <2> QED
    BY <1>4, <1>6, <2>1, <2>2
<1>7. FileTypes'
  <2>1. isOpen' \in BOOLEAN
    BY DEF Rotates
  <2>3. logCnt' \in Nat
    BY <1>1 DEF Rotates
  <2>4. failures' \in 0..MaxFailures
    BY <1>1 DEF Rotates
  <2>2. /\ files' \in [Date -> [Index -> Seq(Nat)]] /\ fileDate' \in Date
        /\ written' \in 0..MaxBuffer /\ opened' \in 0..written'
    BY <1>1, <1>5 DEF FileTypes, Files
  <2> QED
    BY <2>1, <2>2, <2>3, <2>4 DEF FileTypes
<1>8. Known'
  <2> SUFFICES ASSUME NEW d \in Date, NEW i \in Index, NEW p \in DOMAIN files'[d][i]
               PROVE  files'[d][i][p] \in 1..written
    BY <1>5 DEF Known
  <2>1. CASE d = fileDate
    <3>1. p \in DOMAIN r[i] /\ files'[d][i][p] = r[i][p]
      BY <1>5, <2>1
    <3>2. /\ From(g, n, i) \in Index
          /\ p \in DOMAIN g[From(g, n, i)] /\ r[i][p] = g[From(g, n, i)][p]
      BY <1>6, <3>1
    <3> QED
      BY <1>2, <2>1, <3>1, <3>2 DEF Known, Current
  <2>2. CASE d # fileDate
    BY <1>5, <2>2 DEF Known
  <2> QED
    BY <2>1, <2>2
<1>9. AllInOrder'
  <2>1. ASSUME NEW d \in Date PROVE InOrder(d)'
    BY <1>4, <1>5, <2>1 DEF AllInOrder, InOrder, Sorted
  <2> QED
    BY <2>1 DEF AllInOrder
<1>10. InHand'
  BY <1>5 DEF InHand, Rotates
<1>11. Kept'
  <2> SUFFICES ASSUME NEW k \in opened + 1..written PROVE Holds(fileDate, k)'
    BY <1>5 DEF Kept
  <2>1. k \in Nat /\ k > opened
    BY <1>1
  <2>2. Holds(fileDate, k)
    BY DEF Kept
  <2> QED
    BY <2>1, <2>2, RotatesMove
<1>12. Placed'
  <2> SUFFICES ASSUME NEW i \in Index, NEW p \in DOMAIN r[i], r[i][p] > opened
               PROVE  IF isOpen' THEN i < logCnt' ELSE i \in 1..logCnt'
    BY <1>5 DEF Placed
  <2> DEFINE j == From(g, n, i)
  <2>1. /\ i # 0 /\ j \in Index /\ i <= j + 1
        /\ p \in DOMAIN g[j] /\ g[j][p] > opened
    BY <1>6
  <2>2. j < n
    BY <1>2, <2>1 DEF Placed, Rotates
  <2>3. i \in 1..n
    BY <1>1, <2>1, <2>2, IndexFacts
  <2> QED
    BY <1>1, <2>3 DEF Rotates
<1>13. Spare'
  BY <1>1, <1>4, <1>5 DEF Spare, Rotates
<1> QED
  BY <1>7, <1>8, <1>9, <1>10, <1>11, <1>12, <1>13

(* A buffer is written.                                                    *)
Writes ==
  /\ Puts(fileDate, Extended(Current, written + 1))
  /\ written' = written + 1 /\ line' = "month"
  /\ UNCHANGED <<isOpen, fileDate, logCnt, failures, opened>>

LEMMA NewestIsLast ==
  ASSUME FileTypes, Known, NEW d \in Date, NEW i \in Index, NEW p \in DOMAIN files[d][i]
  PROVE  files[d][i][p] < written + 1
<1>1. files[d][i][p] \in 1..written /\ written \in Nat
  BY LogFilesAssumption DEF Known, FileTypes
<1> QED
  BY <1>1

LEMMA PersistSteps ==
  ASSUME FileTypes, Known, Persist
  PROVE  Writes /\ line = "write"
<1>1. Current \in Files /\ fileDate \in Date /\ written + 1 \in Nat
  BY ElementFacts, LogFilesAssumption DEF Current, FileTypes, Files
<1>2. \A i \in Index : \A p \in DOMAIN Current[i] : Current[i][p] < written + 1
  BY <1>1, NewestIsLast DEF Current
<1>3. Extended(Current, written + 1) \in Files
  BY <1>1, <1>2, ExtendedFacts
<1>4. files' = [files EXCEPT ![fileDate] = Extended(Current, written + 1)]
  BY DEF Persist, Extended, Current
<1>5. Puts(fileDate, Extended(Current, written + 1))
  BY <1>1, <1>3, <1>4, PutsFacts
<1> QED
  BY <1>5 DEF Persist, Writes

LEMMA WritesKeeps ==
  ASSUME FileInv, line = "write", Writes
  PROVE  FileInv'
<1> DEFINE k == written + 1
<1> USE DEF FileInv
<1>1. /\ written \in Nat /\ failures \in Nat /\ logCnt \in Nat /\ opened \in 0..written
      /\ written \in 0..MaxBuffer /\ written < MaxBuffer /\ MaxBuffer \in Nat
      /\ isOpen /\ logCnt >= 1 /\ logCnt <= failures + 1 + written
  BY LogFilesAssumption DEF FileTypes, InHand, Spare
<1>2. PICK g \in Files : g = Current /\ \A i \in Index : \A p \in DOMAIN g[i] : g[i][p] < k
  BY NewestIsLast, ElementFacts DEF Current, FileTypes, Files
<1>3. PICK e \in Files : e = Extended(g, k)
  BY <1>1, <1>2, ExtendedFacts
<1>4. /\ \A i \in Index : i # 0 => e[i] = g[i]
      /\ e[0] # <<>>
      /\ \A p \in DOMAIN e[0] : (p \in DOMAIN g[0] /\ e[0][p] = g[0][p]) \/ e[0][p] = k
      /\ \A p \in DOMAIN g[0] : p \in DOMAIN e[0] /\ e[0][p] = g[0][p]
      /\ \E p \in DOMAIN e[0] : e[0][p] = k
      /\ Sorted(e)
  <2>1. Sorted(g)
    <3>1. InOrder(fileDate)
      BY DEF AllInOrder, FileTypes
    <3> QED
      BY <1>2, <3>1 DEF InOrder, Sorted, Current
  <2> QED
    BY <1>1, <1>2, <1>3, <2>1, ExtendedFacts
<1>5. /\ files' \in [Date -> Files] /\ files'[fileDate] = e
      /\ \A d \in Date : d # fileDate => files'[d] = files[d]
      /\ fileDate' = fileDate /\ opened' = opened /\ written' = k
      /\ isOpen' = isOpen /\ logCnt' = logCnt /\ failures' = failures
      /\ Current' = e
  BY <1>2, <1>3 DEF Writes, Puts, Current
<1>6. ASSUME NEW i \in Index, NEW p \in DOMAIN e[i]
      PROVE  (p \in DOMAIN g[i] /\ e[i][p] = g[i][p]) \/ (i = 0 /\ e[i][p] = k)
  BY <1>4, <1>6
<1>7. FileTypes'
  BY <1>1, <1>5 DEF FileTypes, Files
<1>8. Known'
  <2> SUFFICES ASSUME NEW d \in Date, NEW i \in Index, NEW p \in DOMAIN files'[d][i]
               PROVE  files'[d][i][p] \in 1..k
    BY <1>5 DEF Known
  <2>1. \A x \in 1..written : x \in 1..k
    BY <1>1
  <2>2. CASE d = fileDate
    <3>1. p \in DOMAIN e[i] /\ files'[d][i][p] = e[i][p]
      BY <1>5, <2>2
    <3>2. CASE p \in DOMAIN g[i] /\ e[i][p] = g[i][p]
      BY <1>2, <2>1, <2>2, <3>1, <3>2 DEF Known, Current
    <3>3. CASE e[i][p] = k
      BY <1>1, <3>1, <3>3
    <3> QED
      BY <1>6, <3>1, <3>2, <3>3
  <2>3. CASE d # fileDate
    BY <1>5, <2>1, <2>3 DEF Known
  <2> QED
    BY <2>2, <2>3
<1>9. AllInOrder'
  <2>1. ASSUME NEW d \in Date PROVE InOrder(d)'
    BY <1>4, <1>5, <2>1 DEF AllInOrder, InOrder, Sorted
  <2> QED
    BY <2>1 DEF AllInOrder
<1>10. InHand'
  BY DEF InHand, Writes
<1>11. Kept'
  <2> SUFFICES ASSUME NEW l \in opened + 1..k
               PROVE  \E i \in Index : \E p \in DOMAIN e[i] : e[i][p] = l
    BY <1>5 DEF Kept, Holds, Range
  <2>1. CASE l = k
    BY <1>4, <2>1, IndexFacts
  <2>2. CASE l # k
    <3>1. l \in opened + 1..written
      BY <1>1, <2>2
    <3>2. PICK i \in Index : \E p \in DOMAIN g[i] : g[i][p] = l
      BY <1>2, <3>1 DEF Kept, Holds, Range, Current
    <3> QED
      BY <1>4, <3>2
  <2> QED
    BY <2>1, <2>2
<1>12. Placed'
  <2> SUFFICES ASSUME NEW i \in Index, NEW p \in DOMAIN e[i], e[i][p] > opened
               PROVE  i < logCnt
    BY <1>1, <1>5 DEF Placed
  <2>1. CASE p \in DOMAIN g[i] /\ e[i][p] = g[i][p]
    BY <1>1, <1>2, <2>1 DEF Placed
  <2>2. CASE i = 0
    BY <1>1, <2>2
  <2> QED
    BY <1>6, <2>1, <2>2
<1>13. Spare'
  BY <1>1, <1>5 DEF Spare
<1> QED
  BY <1>7, <1>8, <1>9, <1>10, <1>11, <1>12, <1>13

LEMMA NextFileInv ==
  ASSUME FileInv, TimerTypes, [Next]_vars
  PROVE  FileInv'
<1>1. asked \in Date /\ FileTypes /\ Known
  BY DEF TimerTypes, FileInv
<1>2. CASE FirstFile \/ NextDay
  BY <1>1, <1>2, OpenSteps, OpensKeeps
<1>3. CASE Rotate
  BY <1>1, <1>3, RotateSteps, RotatesKeeps
<1>4. CASE Persist
  BY <1>1, <1>4, PersistSteps, WritesKeeps
<1>5. ASSUME UNCHANGED fileVars, InHand' PROVE FileInv'
  BY <1>5 DEF FileInv, fileVars, FileTypes, Known, Spare, Placed, AllInOrder, InOrder,
     Kept, Holds,
     Current
<1>6. CASE SameFile
  BY <1>5, <1>6 DEF SameFile, InHand, FileInv, fileVars
<1>10. CASE PersistNothing
  <2>1. /\ failures \in Nat /\ failures' = failures + 1 /\ failures' \in 0..MaxFailures
        /\ logCnt \in Nat /\ written \in Nat /\ line' = "month"
        /\ UNCHANGED <<isOpen, fileDate, logCnt, files, written, opened>>
    BY <1>1, <1>10, LogFilesAssumption DEF PersistNothing, FileTypes
  <2>2. FileTypes' /\ Known' /\ InHand'
    BY <1>1, <2>1 DEF FileTypes, Known, Current, InHand
  <2>3. Spare'
    <3>1. Spare
      BY DEF FileInv
    <3> QED
      BY <2>1, <3>1 DEF Spare, Current
  <2> QED
    BY <2>1, <2>2, <2>3 DEF FileInv, Placed, AllInOrder, InOrder, Kept, Holds, Current
<1>7. ASSUME NEW t \in Logger, get_curr_time(t) PROVE FileInv'
  BY <1>5, <1>7 DEF get_curr_time, ReadClock, SetSecond, TestMinute, SetMinute,
     LocalTime, SetMonth,
     SetDay, InHand, FileInv, fileVars
<1>8. CASE ReadMonth \/ ReadDay \/ Tick
  BY <1>5, <1>8 DEF ReadMonth, ReadDay, Tick, InHand, FileInv, fileVars
<1>9. CASE UNCHANGED vars
  BY <1>5, <1>9 DEF vars, InHand, FileInv, fileVars
<1> QED
  BY <1>2, <1>3, <1>4, <1>6, <1>7, <1>8, <1>9, <1>10 DEF Next, decis_file

-----------------------------------------------------------------------------
(* The files of a day are kept, with or without a race.                    *)

LEMMA InitTypes == Init => TimerTypes /\ NoneAhead
<1> SUFFICES ASSUME Init PROVE TimerTypes /\ NoneAhead
  OBVIOUS
<1>1. Start \in Minute /\ 0 \in Minute /\ 0 <= Start
  BY LogFilesAssumption DEF Minute
<1>2. DateOf(Start) \in Date /\ DateOf(0) \in Date
  BY <1>1, DateTypes
<1>3. /\ Month(Start) \in 0..Month(MaxMinute) /\ Day(Start) \in 0..DaysPerMonth - 1
      /\ Month(MaxMinute) \in Nat
  BY <1>2, LogFilesAssumption, Quotients DEF DateOf, Date, Month
<1>4. [mon |-> 0, day |-> 0] \in Date
  BY <1>3, LogFilesAssumption DEF Date
<1>5. TimerTypes
  BY <1>1, <1>3, <1>4 DEF Init, TimerTypes, Place
<1>6. NoneAhead
  BY <1>1 DEF Init, NoneAhead, Minute
<1> QED
  BY <1>5, <1>6

LEMMA InitFileInv == Init => FileInv
<1> SUFFICES ASSUME Init PROVE FileInv
  OBVIOUS
<1>1. asked \in Date /\ fileDate = asked
  BY InitTypes DEF Init, TimerTypes
<1>2. /\ files = [d \in Date |-> [i \in Index |-> <<>>]]
      /\ ~isOpen /\ logCnt = 0 /\ written = 0 /\ failures = 0 /\ opened = 0 /\ line = "month"
      /\ isOpen \in BOOLEAN
  BY DEF Init
<1>7. fileDate \in Date /\ 0 \in 0..MaxBuffer /\ 0 \in 0..MaxFailures
  BY <1>1, LogFilesAssumption
<1>3. \A d \in Date, i \in Index : files[d][i] = <<>> /\ DOMAIN files[d][i] = {}
  BY <1>2, EmptySeq
<1>4. FileTypes
  BY <1>2, <1>7, EmptySeq DEF FileTypes
<1>5. Known /\ Placed /\ AllInOrder
  <2>1. Known
    BY <1>3 DEF Known
  <2>2. Placed
    BY <1>3, <1>7 DEF Placed, Current
  <2>3. AllInOrder
    BY <1>3 DEF AllInOrder, InOrder
  <2> QED
    BY <2>1, <2>2, <2>3
<1>6. Spare /\ InHand /\ Kept
  BY <1>2 DEF Spare, InHand, Kept
<1> QED
  BY <1>4, <1>5, <1>6 DEF FileInv

LEMMA NextTypes ==
  ASSUME Types, [Next]_vars
  PROVE  Types'
<1>1. fileDate \in Date
  BY DEF Types, FileInv, FileTypes
<1> QED
  BY <1>1, NextTimerTypes, NextFileInv DEF Types

(* What was written since the date of the file last changed is in the      *)
(* files of that date, in order, however the rotations, the failing fopens *)
(* and the threads that set the date take turns (log.cpp:96-140, 237-262). *)
THEOREM SameDayIsKept == Spec => []SameDayKept
<1>1. Init => Types
  BY InitTypes, InitFileInv DEF Types
<1>2. Types /\ [Next]_vars => Types'
  BY NextTypes
<1>3. Types => SameDayKept
  BY DEF Types, FileInv, FileTypes, SameDayKept, Kept, AllInOrder
<1> QED
  BY <1>1, <1>2, <1>3, PTL DEF Spec

-----------------------------------------------------------------------------
(* The date, as long as there is no race.                                  *)

LEMMA RacedStays ==
  ASSUME [Next]_vars, ~raced'
  PROVE  ~raced
<1>1. ASSUME NEW t \in Logger, get_curr_time(t) PROVE ~raced
  BY <1>1 DEF get_curr_time, ReadClock, SetSecond, TestMinute, SetMinute, LocalTime,
     SetMonth, SetDay,
     Notice
<1>2. CASE ReadMonth \/ ReadDay \/ decis_file \/ Persist \/ PersistNothing \/ Tick \/ UNCHANGED vars
  BY <1>2 DEF ReadMonth, ReadDay, decis_file, FirstFile, NextDay, Rotate, SameFile,
     Persist, PersistNothing, Tick,
     vars
<1> QED
  BY <1>1, <1>2 DEF Next

(* Who changes the date without a race is alone with it.                   *)
LEMMA Alone ==
  ASSUME NEW t \in Logger, Notice(t), ~raced', Now' # Now
  PROVE  line # "day" /\ \A u \in Logger : u # t => pc[u] = "idle"
BY DEF Notice, Now

LEMMA UnderKept ==
  ASSUME TimerTypes, NEW d \in Date, Under(d), [Next]_vars
  PROVE  Under(d)'
<1>1. ASSUME NEW t \in Logger, get_curr_time(t) PROVE Under(d)'
  <2> USE DEF Goto, Under, TimerTypes
  <2>1. CASE ReadClock(t)
    BY <2>1 DEF ReadClock
  <2>2. CASE SetSecond(t)
    BY <2>2 DEF SetSecond, Leave
  <2>3. CASE TestMinute(t) \/ SetMinute(t)
    BY <2>3 DEF TestMinute, SetMinute
  <2>4. CASE LocalTime(t)
    BY <2>4 DEF LocalTime
  <2>5. CASE SetMonth(t)
    BY <2>5 DEF SetMonth
  <2>6. CASE SetDay(t)
    BY <2>6 DEF SetDay, Leave
  <2> QED
    BY <1>1, <2>1, <2>2, <2>3, <2>4, <2>5, <2>6 DEF get_curr_time
<1>2. CASE Tick
  <2>1. minute \in Minute /\ minute + 1 \in Minute /\ minute <= minute + 1
    BY <1>2, LogFilesAssumption DEF Tick, TimerTypes, Minute
  <2>2. /\ NotAfter(DateOf(minute), DateOf(minute + 1))
        /\ DateOf(minute) \in Date /\ DateOf(minute + 1) \in Date
    BY <2>1, DatesForward, DateTypes
  <2>3. NotAfter(d, DateOf(minute))
    BY DEF Under
  <2>4. NotAfter(d, DateOf(minute + 1))
    BY <2>2, <2>3, DateOrder
  <2> QED
    BY <1>2, <2>4 DEF Tick, timerVars, Under
<1>3. CASE ReadMonth \/ ReadDay \/ decis_file \/ Persist \/ PersistNothing \/ UNCHANGED vars
  BY <1>3 DEF ReadMonth, ReadDay, decis_file, FirstFile, NextDay, Rotate, SameFile,
     Persist, PersistNothing, vars,
     timerVars, Under
<1> QED
  BY <1>1, <1>2, <1>3 DEF Next

(* The steps that leave the date, and the threads at its fields, alone.    *)
DateStays == mon' = mon /\ day' = day /\ At("day")' = At("day")
             /\ \A t \in At("day") : tv'[t] = tv[t]

LEMMA DateSteps ==
  ASSUME TimerTypes, [Next]_vars
  PROVE  DateStays \/ \E t \in Logger : SetMonth(t) \/ SetDay(t)
<1>1. ASSUME NEW t \in Logger, get_curr_time(t), ~SetMonth(t), ~SetDay(t) PROVE DateStays
  <2> USE DEF Goto, At, TimerTypes, DateStays
  <2>1. CASE ReadClock(t)
    BY <2>1 DEF ReadClock
  <2>2. CASE SetSecond(t)
    BY <2>2 DEF SetSecond, Leave
  <2>3. CASE TestMinute(t) \/ SetMinute(t)
    BY <2>3 DEF TestMinute, SetMinute
  <2>4. CASE LocalTime(t)
    BY <2>4 DEF LocalTime
  <2> QED
    BY <1>1, <2>1, <2>2, <2>3, <2>4 DEF get_curr_time
<1>2. CASE ReadMonth \/ ReadDay \/ decis_file \/ Persist \/ PersistNothing \/ Tick \/ UNCHANGED vars
  BY <1>2 DEF ReadMonth, ReadDay, decis_file, FirstFile, NextDay, Rotate, SameFile,
     Persist, PersistNothing, Tick, vars,
     timerVars, DateStays, At
<1> QED
  BY <1>1, <1>2 DEF Next

(* The month is set: the date is now between its two fields.               *)
SetsMonth(t) ==
  /\ mon' = Month(tv[t]) /\ day' = day
  /\ pc[t] = "mon" /\ pc' = [pc EXCEPT ![t] = "day"] /\ tv' = tv
  /\ Now' # Now => \A u \in Logger : u # t => pc[u] = "idle"

(* The day is set: the date is that of the thread.                         *)
SetsDay(t) ==
  /\ Now' = DateOf(tv[t])
  /\ pc[t] = "day" /\ pc' = [pc EXCEPT ![t] = "idle"] /\ tv' = [tv EXCEPT ![t] = 0]
  /\ Now' # Now => \A u \in Logger : u # t => pc[u] = "idle"

LEMMA SetSteps ==
  ASSUME OneMonth, NEW t \in Logger, SetMonth(t) \/ SetDay(t), ~raced'
  PROVE  /\ SetsMonth(t) \/ SetsDay(t)
         /\ line = "day" => Now' = Now
         /\ UNCHANGED <<minute, accSec, asked, line, fileDate>>
<1>1. CASE SetMonth(t)
  BY <1>1, Alone DEF SetMonth, SetsMonth, Goto, fileVars
<1>2. CASE SetDay(t)
  <2>1. Now' = DateOf(tv[t])
    BY <1>2 DEF SetDay, OneMonth, Now, DateOf
  <2> QED
    BY <1>2, <2>1, Alone DEF SetDay, SetsDay, Goto, Leave, fileVars
<1> QED
  BY <1>1, <1>2

LEMMA OneMonthKept ==
  ASSUME TimerTypes, OneMonth, [Next]_vars, ~raced'
  PROVE  OneMonth'
<1>1. CASE DateStays
  BY <1>1 DEF DateStays, OneMonth, At
<1>2. ASSUME NEW t \in Logger, SetMonth(t) \/ SetDay(t) PROVE OneMonth'
  <2>1. SetsMonth(t) \/ SetsDay(t)
    BY <1>2, SetSteps
  <2> SUFFICES ASSUME NEW u \in Logger, pc'[u] = "day" PROVE mon' = Month(tv'[u])
    BY DEF OneMonth
  <2>2. CASE SetsMonth(t)
    <3>1. CASE u = t
      BY <2>2, <3>1 DEF SetsMonth
    <3>2. CASE u # t
      <4>1. pc[u] = "day" /\ tv'[u] = tv[u] /\ Now' = Now
        BY <2>2, <3>2 DEF SetsMonth, TimerTypes
      <4> QED
        BY <4>1 DEF OneMonth, Now
    <3> QED
      BY <3>1, <3>2
  <2>3. CASE SetsDay(t)
    <3>1. pc[t] = "day" /\ mon' = mon
      BY <2>3 DEF SetsDay, OneMonth, Now, DateOf
    <3>2. u # t /\ pc[u] = "day" /\ tv'[u] = tv[u]
      BY <2>3 DEF SetsDay, TimerTypes
    <3> QED
      BY <3>1, <3>2 DEF OneMonth
  <2> QED
    BY <2>1, <2>2, <2>3
<1> QED
  BY <1>1, <1>2, DateSteps

(* The date of a thread that is alone is under all that may be set.        *)
LEMMA AloneUnder ==
  ASSUME TimerTypes', NEW t \in Logger, NEW m \in Minute, m <= minute',
         \A u \in Logger : pc'[u] = "idle" \/ (u = t /\ pc'[u] = "day" /\ tv'[u] = m)
  PROVE  Under(DateOf(m))'
<1>1. minute' \in Minute
  BY DEF TimerTypes
<1>2. NotAfter(DateOf(m), DateOf(minute'))
  BY <1>1, DatesForward
<1>3. NotAfter(DateOf(m), DateOf(m))
  BY DateTypes, DateOrder
<1> QED
  BY <1>2, <1>3 DEF Under

LEMMA ForwardKept ==
  ASSUME TimerTypes, NoneAhead, TimerTypes', OneMonth, Forward, [Next]_vars, ~raced'
  PROVE  Forward'
<1>1. ASSUME NEW d \in Date, Under(d), Now' = d PROVE Forward'
  BY <1>1, UnderKept DEF Forward
<1>2. ASSUME NEW d \in Date, Under(d), NEW t \in Logger, pc'[t] = "day", DateOf(tv'[t]) = d
      PROVE  Forward'
  <2>1. Under(d)'
    BY <1>2, UnderKept
  <2> QED
    BY <1>2, <2>1 DEF Forward
<1>3. Now \in Date /\ \A t \in Logger : tv[t] \in Minute /\ DateOf(tv[t]) \in Date
  BY DateTypes DEF TimerTypes, Now, Date
<1>4. CASE DateStays
  <2>1. CASE Under(Now)
    <3>1. PICK d \in Date : d = Now
      BY <1>3
    <3> QED
      BY <1>1, <1>4, <2>1, <3>1 DEF DateStays, Now
  <2>2. ASSUME NEW t \in Logger, pc[t] = "day", Under(DateOf(tv[t])) PROVE Forward'
    <3>1. PICK d \in Date : d = DateOf(tv[t])
      BY <1>3
    <3>2. pc'[t] = "day" /\ tv'[t] = tv[t]
      BY <1>4, <2>2 DEF DateStays, At
    <3> QED
      BY <1>2, <2>2, <3>1, <3>2
  <2> QED
    BY <2>1, <2>2 DEF Forward
<1>5. ASSUME NEW t \in Logger, SetMonth(t) \/ SetDay(t) PROVE Forward'
  <2>1. (SetsMonth(t) \/ SetsDay(t)) /\ minute' = minute
    BY <1>5, SetSteps
  <2>2. PICK m \in Minute : m = tv[t]
    BY DEF TimerTypes
  <2>3. m <= minute'
    BY <2>1, <2>2 DEF NoneAhead
  <2>4. CASE SetsMonth(t) /\ Now' # Now
    <3>1. \A u \in Logger : pc'[u] = "idle" \/ (u = t /\ pc'[u] = "day" /\ tv'[u] = m)
      BY <2>2, <2>4 DEF SetsMonth, TimerTypes
    <3>2. pc'[t] = "day" /\ tv'[t] = m
      BY <2>2, <2>4 DEF SetsMonth, TimerTypes
    <3>3. Under(DateOf(m))'
      BY <2>3, <3>1, AloneUnder
    <3> QED
      BY <3>2, <3>3 DEF Forward
  <2>5. CASE SetsDay(t) /\ Now' # Now
    <3>1. \A u \in Logger : pc'[u] = "idle" \/ (u = t /\ pc'[u] = "day" /\ tv'[u] = m)
      BY <2>5 DEF SetsDay, TimerTypes
    <3>2. Under(DateOf(m))'
      BY <2>3, <3>1, AloneUnder
    <3>3. Now' = DateOf(m)
      BY <2>2, <2>5 DEF SetsDay
    <3> QED
      BY <3>2, <3>3 DEF Forward
  <2>6. CASE Now' = Now
    <3>1. PICK d \in Date : d = Now
      BY <1>3
    <3>2. CASE Under(Now)
      BY <1>1, <2>6, <3>1, <3>2
    <3>3. ASSUME NEW u \in Logger, pc[u] = "day", Under(DateOf(tv[u])) PROVE Forward'
      <4>1. PICK e \in Date : e = DateOf(tv[u])
        BY <1>3
      <4>2. CASE SetsMonth(t)
        <5>1. pc'[u] = "day" /\ tv'[u] = tv[u]
          BY <3>3, <4>2 DEF SetsMonth, TimerTypes
        <5> QED
          BY <1>2, <3>3, <4>1, <5>1
      <4>3. CASE SetsDay(t) /\ u # t
        <5>1. pc'[u] = "day" /\ tv'[u] = tv[u]
          BY <3>3, <4>3 DEF SetsDay, TimerTypes
        <5> QED
          BY <1>2, <3>3, <4>1, <5>1
      <4>4. CASE SetsDay(t) /\ u = t
        BY <1>1, <3>3, <4>1, <4>4 DEF SetsDay
      <4> QED
        BY <2>1, <4>2, <4>3, <4>4
    <3> QED
      BY <3>2, <3>3 DEF Forward
  <2> QED
    BY <2>1, <2>4, <2>5, <2>6
<1> QED
  BY <1>4, <1>5, DateSteps

LEMMA FloorKept ==
  ASSUME TimerTypes, OneMonth, NEW d \in Date, Floor(d), [Next]_vars, ~raced'
  PROVE  Floor(d)'
<1>1. Under(d) /\ Under(d)'
  BY UnderKept DEF Floor
<1>2. CASE DateStays
  BY <1>1, <1>2 DEF DateStays, Floor, Now
<1>3. ASSUME NEW t \in Logger, SetMonth(t) \/ SetDay(t) PROVE Floor(d)'
  <2>1. CASE SetsMonth(t)
    <3>1. pc'[t] = "day"
      BY <2>1 DEF SetsMonth, TimerTypes
    <3> QED
      BY <1>1, <3>1 DEF Floor, At
  <2>2. CASE SetsDay(t)
    <3>1. NotAfter(d, DateOf(tv[t]))
      BY <1>1, <2>2 DEF SetsDay, Under
    <3> QED
      BY <1>1, <2>2, <3>1 DEF SetsDay, Floor
  <2> QED
    BY <1>3, <2>1, <2>2, SetSteps
<1> QED
  BY <1>2, <1>3, DateSteps

(* What the persister does with the date.                                  *)
Reads ==
  \/ /\ line' = "day" /\ asked'.mon = mon /\ At("day") = {}
     /\ UNCHANGED <<mon, day, fileDate>>
  \/ /\ line = "day" /\ line' = "file" /\ asked' = [asked EXCEPT !.day = day]
     /\ UNCHANGED <<mon, day, fileDate>>
  \/ /\ line = "file" /\ line' \in {"write", "month"} /\ fileDate' \in {asked, fileDate}
  \/ line' = "month" /\ fileDate' = fileDate
  \/ /\ UNCHANGED <<asked, line, fileDate>>
     /\ line = "day" => Now' = Now

LEMMA ReadSteps ==
  ASSUME TimerTypes, OneMonth, [Next]_vars, ~raced'
  PROVE  Reads
<1>1. ASSUME NEW t \in Logger, get_curr_time(t) PROVE Reads
  <2>1. CASE SetMonth(t) \/ SetDay(t)
    BY <2>1, SetSteps DEF Reads
  <2>2. CASE ~SetMonth(t) /\ ~SetDay(t)
    BY <1>1, <2>2 DEF get_curr_time, ReadClock, SetSecond, TestMinute, SetMinute,
       LocalTime, fileVars,
       Now, Reads
  <2> QED
    BY <2>1, <2>2
<1>2. CASE ReadMonth
  <2>1. asked'.mon = mon
    BY <1>2 DEF ReadMonth, TimerTypes, Date
  <2>2. /\ line' = "day" /\ At("day") = {}
        /\ UNCHANGED <<mon, day, fileDate>>
    BY <1>2 DEF ReadMonth, timerVars, fileVars
  <2> QED
    BY <2>1, <2>2 DEF Reads
<1>3. CASE ReadDay
  BY <1>3 DEF ReadDay, Reads, timerVars, fileVars
<1>4. CASE decis_file
  BY <1>4 DEF decis_file, FirstFile, NextDay, Rotate, SameFile, Fopen, NameFile,
     fileVars, Reads
<1>5. CASE Persist \/ PersistNothing \/ Tick \/ UNCHANGED vars
  BY <1>5 DEF Persist, PersistNothing, Tick, vars, timerVars, fileVars, Now, Reads
<1> QED
  BY <1>1, <1>2, <1>3, <1>4, <1>5 DEF Next

LEMMA DateInvKept ==
  ASSUME TimerTypes, NoneAhead, TimerTypes', fileDate \in Date, DateInv, [Next]_vars,
         ~raced'
  PROVE  DateInv'
<1> USE DEF DateInv
<1>1. OneMonth' /\ Forward'
  BY OneMonthKept, ForwardKept
<1>2. PICK f \in Date : f = fileDate
  OBVIOUS
<1>3. PICK a \in Date : a = asked
  BY DEF TimerTypes
<1>4. PICK n \in Date : n = Now
  BY DEF TimerTypes, Now, Date
<1>5. Floor(f)'
  BY <1>2, FloorKept
<1>6. line = "day" => a.mon = mon /\ NotAfter(f, n) /\ Under(n)
  BY <1>2, <1>3, <1>4 DEF Reading
<1>7. line = "file" => Floor(a) /\ NotAfter(f, a)
  BY <1>2, <1>3 DEF Reading
<1>8. Reads
  BY ReadSteps
<1>9. ASSUME UNCHANGED <<mon, day>> PROVE Now' = n
  BY <1>4, <1>9 DEF Now
<1>10. Reading'
  <2>1. CASE /\ line' = "day" /\ asked'.mon = mon /\ At("day") = {}
             /\ UNCHANGED <<mon, day, fileDate>>
    <3>1. Under(n) /\ NotAfter(f, n)
      BY <1>2, <1>4, <2>1 DEF Forward, At, Floor
    <3>2. Under(n)'
      BY <3>1, UnderKept
    <3> QED
      BY <1>2, <1>9, <2>1, <3>1, <3>2 DEF Reading
  <2>2. CASE /\ line = "day" /\ line' = "file" /\ asked' = [asked EXCEPT !.day = day]
             /\ UNCHANGED <<mon, day, fileDate>>
    <3>1. asked' = n
      BY <1>3, <1>4, <1>6, <2>2 DEF TimerTypes, Date, Now
    <3>2. Under(n)'
      BY <1>6, <2>2, UnderKept
    <3>3. NotAfter(n, n)
      BY DateOrder
    <3>4. Floor(n)'
      BY <1>9, <2>2, <3>2, <3>3 DEF Floor
    <3> QED
      BY <1>2, <1>6, <2>2, <3>1, <3>4 DEF Reading
  <2>3. CASE line' \in {"write", "month"}
    BY <2>3 DEF Reading
  <2>4. CASE UNCHANGED <<asked, line, fileDate>> /\ (line = "day" => Now' = Now)
    <3>1. line = "file" => Floor(a)'
      BY <1>7, FloorKept
    <3>2. line = "day" => Under(n)'
      BY <1>6, UnderKept
    <3>3. line' = "file" => Floor(asked)' /\ NotAfter(fileDate', asked')
      BY <1>2, <1>3, <1>7, <2>4, <3>1
    <3>4. line' = "day" => /\ asked'.mon = mon' /\ NotAfter(fileDate', Now') /\ Under(Now)'
      <4> SUFFICES ASSUME line' = "day"
                   PROVE  asked'.mon = mon' /\ NotAfter(fileDate', Now') /\ Under(Now)'
        OBVIOUS
      <4>1. line = "day" /\ Now' = n /\ mon' = mon /\ asked' = a /\ fileDate' = f
        BY <1>2, <1>3, <1>4, <2>4 DEF Now
      <4> QED
        BY <1>6, <3>2, <4>1
    <3> QED
      BY <3>3, <3>4 DEF Reading
  <2> QED
    BY <1>8, <2>1, <2>2, <2>3, <2>4 DEF Reads
<1>11. Floor(fileDate)'
  <2>1. CASE fileDate' = fileDate
    BY <1>2, <1>5, <2>1
  <2>2. CASE line = "file" /\ fileDate' = asked
    <3>1. Floor(a)'
      BY <1>7, <2>2, FloorKept
    <3> QED
      BY <1>3, <2>2, <3>1
  <2> QED
    BY <1>8, <2>1, <2>2 DEF Reads
<1> QED
  BY <1>1, <1>10, <1>11

-----------------------------------------------------------------------------
(* What is in the files, as long as there is no race.                      *)

HoldsStay == \A d \in Date : \A k \in 1..written : Holds(d, k)' <=> Holds(d, k)

(* Without a race, what decis_file truncates is an empty file.             *)
LEMMA OpensHold ==
  ASSUME FileInv, LastFiles, asked \in Date, NotAfter(fileDate, asked), Opens
  PROVE  HoldsStay
<1>1. PICK e \in Files :
        /\ Puts(asked, e) /\ Sorted(e)
        /\ e[0] = <<>> \/ (files' = files /\ e = files[asked])
        /\ isOpen' => e[0] = <<>>
        /\ \A i \in Index : i # 0 => e[i] = files[asked][i]
  BY OpensPuts DEF FileInv
<1>2. ASSUME NEW p \in DOMAIN files[asked][0] PROVE FALSE
  <2> DEFINE k == files[asked][0][p]
  <2>1. k \in 1..written /\ Holds(asked, k)
    BY IndexFacts DEF FileInv, Known, Holds, Range
  <2>2. NotAfter(asked, fileDate) /\ (asked = fileDate => k > opened)
    BY <2>1 DEF LastFiles
  <2>3. fileDate \in Date
    BY DEF FileInv, FileTypes
  <2>4. asked = fileDate
    BY <2>2, <2>3, DateOrder DEF NotAfter
  <2>5. ~isOpen /\ k > opened
    BY <2>2, <2>4 DEF Opens
  <2>6. 0 \in 1..logCnt
    BY <2>4, <2>5, IndexFacts DEF FileInv, Placed, Current
  <2> QED
    BY <2>6
<1>3. ASSUME NEW d \in Date, NEW k, Holds(d, k) PROVE Holds(d, k)'
  <2>1. PICK i \in Index : \E p \in DOMAIN files[d][i] : files[d][i][p] = k
    BY <1>3 DEF Holds, Range
  <2>2. files'[d][i] = files[d][i]
    BY <1>1, <1>2, <2>1 DEF Puts
  <2> QED
    BY <2>1, <2>2 DEF Holds, Range
<1>4. ASSUME NEW d \in Date, NEW k, Holds(d, k)' PROVE Holds(d, k)
  <2>1. PICK i \in Index : \E p \in DOMAIN files'[d][i] : files'[d][i][p] = k
    BY <1>4 DEF Holds, Range
  <2>2. files'[d][i] = files[d][i]
    BY <1>1, <2>1, EmptySeq DEF Puts
  <2> QED
    BY <2>1, <2>2 DEF Holds, Range
<1> QED
  BY <1>3, <1>4 DEF HoldsStay

(* A rotation moves every file of the day on.                              *)
LEMMA RotatesHold ==
  ASSUME FileInv, LastFiles, Rotates
  PROVE  HoldsStay
<1>1. fileDate \in Date /\ logCnt \in Nat /\ written \in Nat /\ fileDate' = fileDate
  BY LogFilesAssumption DEF FileInv, FileTypes, Rotates
<1>2. PICK g \in Files : g = Current
  BY ElementFacts DEF Current, FileInv, FileTypes, Files
<1>3. PICK r \in Files : r = Renamed(g, logCnt)
  BY <1>1, RenamedFacts
<1>4. files'[fileDate] = r /\ \A d \in Date : d # fileDate => files'[d] = files[d]
  BY <1>2, <1>3 DEF Rotates, Puts
<1>5. ASSUME NEW k \in 1..written, Holds(fileDate, k) PROVE Holds(fileDate, k)'
  <2>1. k \in Nat /\ k > opened
    BY <1>1, <1>5 DEF LastFiles
  <2> QED
    BY <1>5, <2>1, RotatesMove
<1>6. ASSUME NEW k, Holds(fileDate, k)' PROVE Holds(fileDate, k)
  <2>1. PICK i \in Index : \E p \in DOMAIN r[i] : r[i][p] = k
    BY <1>1, <1>4, <1>6 DEF Holds, Range
  <2>2. i # 0
    BY <1>1, <1>3, <2>1, RenamedFacts, IndexFacts, EmptySeq
  <2>3. From(g, logCnt, i) \in Index /\ r[i] = g[From(g, logCnt, i)]
    BY <1>1, <1>3, <2>2, RenamedFacts
  <2> QED
    BY <1>2, <2>1, <2>3 DEF Holds, Range, Current
<1>7. ASSUME NEW d \in Date, d # fileDate, NEW k PROVE Holds(d, k)' <=> Holds(d, k)
  BY <1>4, <1>7 DEF Holds
<1> QED
  BY <1>1, <1>5, <1>6, <1>7 DEF HoldsStay

(* A write puts the newest buffer in the last file.                        *)
LEMMA WritesHold ==
  ASSUME FileInv, Writes
  PROVE  /\ HoldsStay
         /\ \A d \in Date : \A k \in Nat : k = written + 1 => (Holds(d, k)' <=> d = fileDate)
<1> USE DEF FileInv
<1>1. written \in Nat
  BY LogFilesAssumption DEF FileTypes
<1>2. PICK k \in Nat : k = written + 1
  BY <1>1
<1>3. /\ fileDate \in Date /\ fileDate' = fileDate
      /\ written \in Nat /\ k \in Nat /\ k \notin 1..written
  BY <1>1, <1>2 DEF FileTypes, Writes
<1>4. PICK g \in Files : g = Current /\ \A i \in Index : \A p \in DOMAIN g[i] : g[i][p] < k
  BY <1>2, NewestIsLast, ElementFacts DEF Current, FileTypes, Files
<1>5. PICK e \in Files : e = Extended(g, k)
  BY <1>3, <1>4, ExtendedFacts
<1>6. /\ \A i \in Index : i # 0 => e[i] = g[i]
      /\ \A p \in DOMAIN e[0] : (p \in DOMAIN g[0] /\ e[0][p] = g[0][p]) \/ e[0][p] = k
      /\ \A p \in DOMAIN g[0] : p \in DOMAIN e[0] /\ e[0][p] = g[0][p]
      /\ \E p \in DOMAIN e[0] : e[0][p] = k
  BY <1>3, <1>4, <1>5, ExtendedFacts
<1>7. files'[fileDate] = e /\ \A d \in Date : d # fileDate => files'[d] = files[d]
  BY <1>4, <1>5, <1>2 DEF Writes, Puts
<1>8. ASSUME NEW d \in Date, d # fileDate, NEW x PROVE Holds(d, x)' <=> Holds(d, x)
  BY <1>7, <1>8 DEF Holds
<1>9. ASSUME NEW x, Holds(fileDate, x)
      PROVE  \E i \in Index : \E p \in DOMAIN e[i] : e[i][p] = x
  BY <1>4, <1>6, <1>9 DEF Holds, Range, Current
<1>10. ASSUME NEW x, x # k, NEW i \in Index, NEW p \in DOMAIN e[i], e[i][p] = x
      PROVE  Holds(fileDate, x)
  <2>1. p \in DOMAIN g[i] /\ g[i][p] = x
    BY <1>6, <1>10
  <2> QED
    BY <1>4, <2>1 DEF Holds, Range, Current
<1>11. \A x : Holds(fileDate, x)' <=> \E i \in Index : \E p \in DOMAIN e[i] : e[i][p] = x
  BY <1>3, <1>7 DEF Holds, Range
<1>12. HoldsStay
  BY <1>3, <1>8, <1>9, <1>10, <1>11 DEF HoldsStay
<1>13. Holds(fileDate, k)'
  BY <1>6, <1>11, IndexFacts
<1>14. ASSUME NEW d \in Date, Holds(d, k) PROVE FALSE
  <2>1. PICK i \in Index : \E p \in DOMAIN files[d][i] : files[d][i][p] = k
    BY <1>14 DEF Holds, Range
  <2> QED
    BY <1>3, <2>1 DEF Known
<1>15. ASSUME NEW d \in Date PROVE Holds(d, k)' <=> d = fileDate
  <2>1. CASE d = fileDate
    BY <1>3, <1>13, <2>1
  <2>2. CASE d # fileDate
    BY <1>8, <1>14, <2>2
  <2> QED
    BY <2>1, <2>2
<1> QED
  BY <1>2, <1>12, <1>15

LEMMA ContentsKept ==
  ASSUME HoldsStay, Contents, written' = written, NEW f \in Date, fileDate' = f,
         \A d \in Date : \A k \in 1..written :
           Holds(d, k) => NotAfter(d, f) /\ (d = f => k > opened')
  PROVE  Contents'
<1>1. LastFiles'
  BY DEF LastFiles, HoldsStay
<1>2. Everywhere'
  BY DEF Contents, Everywhere, HoldsStay
<1>3. DatesInOrder'
  BY DEF Contents, DatesInOrder, HoldsStay
<1> QED
  BY <1>1, <1>2, <1>3 DEF Contents

LEMMA OpensContents ==
  ASSUME FileInv, Contents, asked \in Date, NotAfter(fileDate, asked), Opens
  PROVE  Contents'
<1>1. HoldsStay
  BY OpensHold DEF Contents
<1>2. PICK f \in Date, a \in Date : f = fileDate /\ a = asked
  BY DEF FileInv, FileTypes
<1>3. fileDate' = a /\ written' = written
  BY <1>2 DEF Opens
<1>4. ASSUME NEW d \in Date, NEW k \in 1..written, Holds(d, k)
      PROVE  NotAfter(d, a) /\ (d = a => k > opened')
  <2>1. NotAfter(d, f) /\ (d = f => k > opened)
    BY <1>2, <1>4 DEF Contents, LastFiles
  <2>2. NotAfter(d, a)
    BY <1>2, <2>1, DateOrder
  <2>3. ASSUME d = a PROVE k > opened'
    <3>1. a = f
      BY <1>2, <2>1, <2>3, DateOrder DEF NotAfter
    <3> QED
      BY <1>2, <2>1, <2>3, <3>1 DEF Opens
  <2> QED
    BY <2>2, <2>3
<1> QED
  BY <1>1, <1>3, <1>4, ContentsKept

LEMMA StayContents ==
  ASSUME HoldsStay, Contents, fileDate \in Date, UNCHANGED <<written, fileDate, opened>>
  PROVE  Contents'
<1>1. PICK f \in Date : f = fileDate
  OBVIOUS
<1>2. ASSUME NEW d \in Date, NEW k \in 1..written, Holds(d, k)
      PROVE  NotAfter(d, f) /\ (d = f => k > opened')
  BY <1>1, <1>2 DEF Contents, LastFiles
<1> QED
  BY <1>1, <1>2, ContentsKept

LEMMA WritesContents ==
  ASSUME FileInv, Contents, Writes
  PROVE  Contents'
<1>1. PICK n \in Nat : n = written + 1
  BY LogFilesAssumption DEF FileInv, FileTypes
<1>2. /\ fileDate \in Date /\ written \in Nat /\ opened \in 0..written
      /\ written' = n /\ fileDate' = fileDate /\ opened' = opened
  BY <1>1, LogFilesAssumption DEF FileInv, FileTypes, Writes
<1>3. \A d \in Date : \A k \in 1..written : Holds(d, k)' <=> Holds(d, k)
  BY WritesHold DEF HoldsStay
<1>4. \A d \in Date : Holds(d, n)' <=> d = fileDate
  BY <1>1, WritesHold
<1>5. \A k \in 1..n : k \in 1..written \/ k = n
  BY <1>2, <1>1
<1>6. n \in 1..n /\ n > opened
  BY <1>2, <1>1
<1>7. PICK f \in Date : f = fileDate
  BY <1>2
<1>8. LastFiles'
  <2> SUFFICES ASSUME NEW d \in Date, NEW k \in 1..n, Holds(d, k)'
               PROVE  NotAfter(d, f) /\ (d = f => k > opened)
    BY <1>2, <1>7 DEF LastFiles
  <2>1. CASE k \in 1..written
    BY <1>3, <1>7, <2>1 DEF Contents, LastFiles
  <2>2. CASE k = n
    <3>1. d = f
      BY <1>4, <1>7, <2>2
    <3> QED
      BY <1>6, <2>2, <3>1, DateOrder
  <2> QED
    BY <1>5, <2>1, <2>2
<1>9. Everywhere'
  <2> SUFFICES ASSUME NEW k \in 1..n PROVE \E d \in Date : Holds(d, k)'
    BY <1>2 DEF Everywhere
  <2>1. CASE k \in 1..written
    BY <1>3, <2>1 DEF Contents, Everywhere
  <2>2. CASE k = n
    BY <1>4, <1>7, <2>2
  <2> QED
    BY <1>5, <2>1, <2>2
<1>10. DatesInOrder'
  <2> SUFFICES ASSUME NEW d \in Date, NEW e \in Date, NEW k \in 1..n, NEW l \in 1..n,
                      Earlier(d, e), Holds(d, k)', Holds(e, l)'
               PROVE  k < l
    BY <1>2 DEF DatesInOrder
  <2>1. CASE k \in 1..written /\ l \in 1..written
    BY <1>3, <2>1 DEF Contents, DatesInOrder
  <2>2. CASE k \in 1..written /\ l = n
    BY <1>2, <1>1, <2>2
  <2>3. CASE k = n
    <3>1. d = f
      BY <1>4, <1>7, <2>3
    <3>2. CASE l \in 1..written
      <4>1. NotAfter(e, f)
        BY <1>3, <1>7, <3>2 DEF Contents, LastFiles
      <4> QED
        BY <3>1, <4>1 DEF NotAfter
    <3>3. CASE l = n
      <4>1. e = f
        BY <1>4, <1>7, <3>3
      <4> QED
        BY <3>1, <4>1, DateOrder
    <3> QED
      BY <1>5, <3>2, <3>3
  <2> QED
    BY <1>5, <2>1, <2>2, <2>3
<1> QED
  BY <1>8, <1>9, <1>10 DEF Contents

LEMMA NextContents ==
  ASSUME FileInv, TimerTypes, Reading, Contents, [Next]_vars
  PROVE  Contents'
<1>1. asked \in Date /\ fileDate \in Date /\ FileTypes /\ Known
  BY DEF TimerTypes, FileInv, FileTypes
<1>2. CASE FirstFile \/ NextDay
  <2>1. Opens /\ NotAfter(fileDate, asked)
    BY <1>1, <1>2, OpenSteps DEF Reading
  <2> QED
    BY <1>1, <2>1, OpensContents
<1>3. CASE Rotate
  <2>1. Rotates
    BY <1>1, <1>3, RotateSteps
  <2> QED
    BY <1>1, <2>1, RotatesHold, StayContents DEF Contents, Rotates
<1>4. CASE Persist
  BY <1>1, <1>4, PersistSteps, WritesContents
<1>5. ASSUME UNCHANGED fileVars PROVE Contents'
  BY <1>1, <1>5, StayContents DEF fileVars, HoldsStay, Holds
<1>6. CASE SameFile
  BY <1>5, <1>6 DEF SameFile
<1>10. CASE PersistNothing
  BY <1>1, <1>10, StayContents DEF PersistNothing, HoldsStay, Holds
<1>7. ASSUME NEW t \in Logger, get_curr_time(t) PROVE Contents'
  BY <1>5, <1>7 DEF get_curr_time, ReadClock, SetSecond, TestMinute, SetMinute,
     LocalTime, SetMonth,
     SetDay
<1>8. CASE ReadMonth \/ ReadDay \/ Tick
  BY <1>5, <1>8 DEF ReadMonth, ReadDay, Tick
<1>9. CASE UNCHANGED vars
  BY <1>5, <1>9 DEF vars
<1> QED
  BY <1>2, <1>3, <1>4, <1>6, <1>7, <1>8, <1>9, <1>10 DEF Next, decis_file

-----------------------------------------------------------------------------
(* Nothing is lost without a race.                                         *)

LEMMA InitNoRace == Init => DateInv /\ Contents
<1> SUFFICES ASSUME Init PROVE DateInv /\ Contents
  OBVIOUS
<1>1. TimerTypes /\ FileInv /\ Start \in Minute
  BY InitTypes, InitFileInv, LogFilesAssumption DEF Minute
<1>2. /\ \A t \in Logger : pc[t] = "idle"
      /\ Now = DateOf(Start) /\ minute = Start /\ line = "month" /\ written = 0
  BY DEF Init, Now, DateOf
<1>3. OneMonth /\ Reading
  BY <1>2 DEF OneMonth, Reading
<1>4. ASSUME NEW d \in Date, NotAfter(d, DateOf(Start)) PROVE Under(d) /\ Floor(d)
  BY <1>2, <1>4 DEF Under, Floor
<1>5. Forward
  BY <1>1, <1>2, <1>4, DateTypes, DateOrder DEF Forward
<1>6. Floor(fileDate)
  <2>1. 0 \in Minute /\ 0 <= Start
    BY LogFilesAssumption DEF Minute
  <2>2. fileDate = [mon |-> 0, day |-> 0] /\ fileDate \in Date
    BY <1>1 DEF Init, FileInv, FileTypes
  <2>3. DateOf(Start).mon >= 0 /\ DateOf(Start).day >= 0
    BY <1>1, DateTypes DEF Date
  <2>4. NotAfter(fileDate, DateOf(Start))
    BY <1>1, <2>2, <2>3, DateTypes DEF NotAfter, Earlier, Date
  <2>5. PICK d \in Date : d = fileDate
    BY <2>2
  <2> QED
    BY <1>4, <2>4, <2>5
<1>7. Contents
  BY <1>2 DEF Contents, LastFiles, Everywhere, DatesInOrder
<1> QED
  BY <1>3, <1>5, <1>6, <1>7 DEF DateInv

(* Every buffer written is in a file, once and in its place, as long as no *)
(* thread changes the date while another is in get_curr_time or the        *)
(* persister is between the month and the day (log.h:58-66, log.cpp:126).  *)
THEOREM NothingElseIsLost == Spec => []OnlyRacesLose
<1> USE DEF IInv
<1>1. Init => IInv
  BY InitTypes, InitFileInv, InitNoRace DEF Types
<1>2. IInv /\ [Next]_vars => IInv'
  <2> SUFFICES ASSUME IInv, [Next]_vars PROVE IInv'
    OBVIOUS
  <2>1. Types'
    BY NextTypes
  <2>2. ASSUME ~raced' PROVE (DateInv /\ Contents)'
    <3>1. DateInv /\ Contents
      BY <2>2, RacedStays
    <3>2. fileDate \in Date
      BY DEF Types, FileInv, FileTypes
    <3>3. DateInv'
      BY <2>1, <2>2, <3>1, <3>2, DateInvKept DEF Types
    <3>4. Contents'
      BY <3>1, NextContents DEF Types, DateInv
    <3> QED
      BY <3>3, <3>4
  <2> QED
    BY <2>1, <2>2
<1>3. IInv => OnlyRacesLose
  BY DEF Types, FileInv, AllInOrder, Contents, Everywhere, DatesInOrder, OnlyRacesLose
<1> QED
  BY <1>1, <1>2, <1>3, PTL DEF Spec
================================================================================
