------------------------------- MODULE LogFiles -------------------------------
(***************************************************************************)
(* The files of ring_log, and the date they are named by.  Every thread    *)
(* that logs brings utc_timer up to date, without a lock; the persister    *)
(* reads the date, field after field, and decis_file picks the file: the   *)
(* next day has a file of its own, and a full file is moved to log.1,      *)
(* log.1 to log.2 and so on.  Every fopen truncates what it opens.         *)
(* Time is counted in minutes, the unit in which the date is renewed; a    *)
(* month stands for the year and the month.  What fwrite puts in a file,   *)
(* the lines of a buffer of RingLog or those that it gets out, counts as   *)
(* one buffer, and they are numbered here.  The process can make files at  *)
(* the start (_env_ok) and only fopen fails later, when the process has    *)
(* too many descriptors open.                                              *)
(***************************************************************************)
EXTENDS Integers, Sequences, Functions

CONSTANTS
  Logger,        \* the threads that log
  MinutesPerDay,
  DaysPerMonth,
  Start,         \* the minute in which the log is made
  MaxMinute,     \* bound: the end of time
  LogUseLimit,   \* LOG_USE_LIMIT, in buffers
  MaxBuffer,     \* bound: the buffers written
  MaxFailures    \* bound: the calls of fopen and fwrite that fail

ASSUME LogFilesAssumption ==
  /\ MinutesPerDay \in Nat \ {0} /\ DaysPerMonth \in Nat \ {0}
  /\ Start \in Nat /\ MaxMinute \in Nat /\ Start <= MaxMinute
  /\ LogUseLimit \in Nat \ {0} /\ MaxBuffer \in Nat /\ MaxFailures \in Nat

VARIABLES
  minute,     \* the clock
  accSec,     \* _sys_acc_sec / 60
  accMin,     \* _sys_acc_min
  mon, day,   \* the date of utc_timer
  pc,         \* the next line of get_curr_time, for each logger
  tv,         \* the minute it has read, and then that of cur_tm
  asked,      \* what the persister has read: [mon, day]
  line,       \* the next step of the persister
  isOpen,     \* _fp # NULL
  fileDate,   \* _year, _mon, _day
  logCnt,     \* _log_cnt
  files,      \* files[d][i]: log.i of date d, log itself for i = 0
  written,    \* buffers written
  failures,   \* calls of fopen and fwrite that failed
  opened,     \* history: buffers written when the date of the file changed
  raced       \* history: the date was changed or read by two threads at once

timerVars == <<accSec, accMin, mon, day, pc, tv>>
fileVars == <<isOpen, fileDate, logCnt, files, written, failures, opened>>
vars == <<minute, timerVars, asked, line, fileVars, raced>>

Month(m) == (m \div MinutesPerDay) \div DaysPerMonth
Day(m) == (m \div MinutesPerDay) % DaysPerMonth
Date == [mon : 0..Month(MaxMinute), day : 0..DaysPerMonth - 1]
Index == 0..MaxBuffer + MaxFailures + 1

Goto(t, l) == pc' = [pc EXCEPT ![t] = l]
At(l) == {t \in Logger : pc[t] = l}

Init ==
  /\ minute = Start
  /\ accSec = Start
  /\ accMin = Start
  /\ mon = Month(Start)
  /\ day = Day(Start)
  /\ pc = [t \in Logger |-> "idle"]
  /\ tv = [t \in Logger |-> 0]
  /\ asked = [mon |-> 0, day |-> 0]
  /\ line = "month"
  /\ isOpen = FALSE
  /\ fileDate = [mon |-> 0, day |-> 0]
  /\ logCnt = 0
  /\ files = [d \in Date |-> [i \in Index |-> <<>>]]
  /\ written = 0
  /\ failures = 0
  /\ opened = 0
  /\ raced = FALSE
-----------------------------------------------------------------------------
(* get_curr_time *)

ReadClock(t) ==
  /\ pc[t] = "idle"
  /\ tv' = [tv EXCEPT ![t] = minute]
  /\ Goto(t, "second")
  /\ UNCHANGED <<minute, accSec, accMin, mon, day, asked, line, fileVars, raced>>

Leave(t) == Goto(t, "idle") /\ tv' = [tv EXCEPT ![t] = 0]

(* Two calls in one minute may be in the same second or not.               *)
SetSecond(t) ==
  /\ pc[t] = "second"
  /\ accSec' = tv[t]
  /\ \/ accSec = tv[t] /\ Leave(t)
     \/ Goto(t, "minute") /\ tv' = [tv EXCEPT ![t] = 0]
  /\ UNCHANGED <<minute, accMin, mon, day, asked, line, fileVars, raced>>

(* What another thread has put in _sys_acc_sec meanwhile counts.           *)
TestMinute(t) ==
  /\ pc[t] = "minute"
  /\ Goto(t, IF accSec # accMin THEN "set" ELSE "idle")
  /\ UNCHANGED <<minute, accSec, accMin, mon, day, tv, asked, line, fileVars, raced>>

SetMinute(t) ==
  /\ pc[t] = "set"
  /\ accMin' = accSec
  /\ Goto(t, "localtime")
  /\ UNCHANGED <<minute, accSec, mon, day, tv, asked, line, fileVars, raced>>

LocalTime(t) ==
  /\ pc[t] = "localtime"
  /\ tv' = [tv EXCEPT ![t] = accSec]
  /\ Goto(t, "mon")
  /\ UNCHANGED <<minute, accSec, accMin, mon, day, asked, line, fileVars, raced>>

(* History: t changes the date, and it is not alone with it.               *)
Notice(t) ==
  raced' = (raced \/ /\ <<mon, day>>' # <<mon, day>>
                     /\ line = "day" \/ \E u \in Logger \ {t} : pc[u] # "idle")

SetMonth(t) ==
  /\ pc[t] = "mon"
  /\ mon' = Month(tv[t])
  /\ Goto(t, "day")
  /\ UNCHANGED <<minute, accSec, accMin, day, tv, asked, line, fileVars>>
  /\ Notice(t)

SetDay(t) ==
  /\ pc[t] = "day"
  /\ day' = Day(tv[t])
  /\ Leave(t)
  /\ UNCHANGED <<minute, accSec, accMin, mon, asked, line, fileVars>>
  /\ Notice(t)

get_curr_time(t) ==
  \/ ReadClock(t) \/ SetSecond(t) \/ TestMinute(t) \/ SetMinute(t) \/ LocalTime(t)
  \/ SetMonth(t) \/ SetDay(t)
-----------------------------------------------------------------------------
(* The persister, with a buffer in its hand: the date *)

ReadMonth ==
  /\ line = "month"
  /\ written < MaxBuffer
  /\ asked' = [asked EXCEPT !.mon = mon]
  /\ line' = "day"
  /\ raced' = (raced \/ At("day") # {})
  /\ UNCHANGED <<minute, timerVars, fileVars>>

ReadDay ==
  /\ line = "day"
  /\ asked' = [asked EXCEPT !.day = day]
  /\ line' = "file"
  /\ UNCHANGED <<minute, timerVars, fileVars, raced>>
-----------------------------------------------------------------------------
(* decis_file *)

(* fopen of the log of date d, when the files are those of f: _log_cnt is  *)
(* only changed when it succeeds, and when it does not there is no file    *)
(* until the next call, which is given the same buffer.                    *)
Fopen(d, f, n) ==
  \/ /\ files' = [f EXCEPT ![d][0] = <<>>]
     /\ isOpen' = TRUE
     /\ logCnt' = n
     /\ line' = "write"
     /\ UNCHANGED failures
  \/ /\ failures < MaxFailures
     /\ failures' = failures + 1
     /\ files' = f
     /\ isOpen' = FALSE
     /\ line' = "month"
     /\ UNCHANGED logCnt

NameFile ==
  /\ fileDate' = asked
  /\ opened' = IF asked # fileDate THEN written ELSE opened

OtherDay == fileDate.day # asked.day
Full == Len(files[fileDate][0]) >= LogUseLimit

FirstFile ==
  /\ line = "file"
  /\ ~isOpen
  /\ NameFile
  /\ Fopen(asked, files, logCnt + 1)
  /\ UNCHANGED <<minute, timerVars, asked, written, raced>>

(* Mutant: the path is made before the date is set.                        *)
NextDayOldPath ==
  /\ line = "file"
  /\ isOpen /\ OtherDay
  /\ NameFile
  /\ Fopen(fileDate, files, 1)
  /\ UNCHANGED <<minute, timerVars, asked, written, raced>>

NextDay ==
  /\ line = "file"
  /\ isOpen /\ OtherDay
  /\ NameFile
  /\ Fopen(asked, files, 1)
  /\ UNCHANGED <<minute, timerVars, asked, written, raced>>

(* The files of a date after the calls of rename, from log.n-1 to log: one *)
(* that is not there leaves the next where it is, if that has not moved.   *)
Renamed(g, n) ==
  [i \in Index |->
     CASE i = 0 -> <<>>
       [] i = 1 -> g[0]
       [] i \in 2..n /\ (i < n \/ g[i - 1] # <<>>) -> g[i - 1]
       [] OTHER -> g[i]]

(* Mutant: _log_cnt is not counted up.                                     *)
RotateUncounted ==
  /\ line = "file"
  /\ isOpen /\ ~OtherDay /\ Full
  /\ Fopen(fileDate, [files EXCEPT ![fileDate] = Renamed(@, logCnt)], logCnt)
  /\ UNCHANGED <<minute, timerVars, asked, fileDate, written, opened, raced>>

Rotate ==
  /\ line = "file"
  /\ isOpen /\ ~OtherDay /\ Full
  /\ Fopen(fileDate, [files EXCEPT ![fileDate] = Renamed(@, logCnt)], logCnt + 1)
  /\ UNCHANGED <<minute, timerVars, asked, fileDate, written, opened, raced>>

SameFile ==
  /\ line = "file"
  /\ isOpen /\ ~OtherDay /\ ~Full
  /\ line' = "write"
  /\ UNCHANGED <<minute, timerVars, asked, fileVars, raced>>

decis_file == FirstFile \/ NextDay \/ Rotate \/ SameFile

Persist ==
  /\ line = "write"
  /\ files' = [files EXCEPT ![fileDate][0] = Append(@, written + 1)]
  /\ written' = written + 1
  /\ line' = "month"
  /\ UNCHANGED <<minute, timerVars, asked, isOpen, fileDate, logCnt, failures, opened, raced>>

(* fwrite gets nothing out: that is said on stderr, and the buffer is      *)
(* cleared all the same (log.cpp:137).                                     *)
PersistNothing ==
  /\ line = "write"
  /\ failures < MaxFailures
  /\ failures' = failures + 1
  /\ line' = "month"
  /\ UNCHANGED <<minute, timerVars, asked, isOpen, fileDate, logCnt, files, written, opened,
                 raced>>

Tick ==
  /\ minute < MaxMinute
  /\ minute' = minute + 1
  /\ UNCHANGED <<timerVars, asked, line, fileVars, raced>>

Next ==
  \/ \E t \in Logger : get_curr_time(t)
  \/ ReadMonth \/ ReadDay \/ decis_file \/ Persist \/ PersistNothing
  \/ Tick

Spec == Init /\ [][Next]_vars
-----------------------------------------------------------------------------
(* Buffer k is in a file of date d.                                        *)
Holds(d, k) == \E i \in Index : k \in Range(files[d][i])

(* The files of date d are in order: older buffers are in older files, and *)
(* before newer ones in the same file.  No buffer is there twice.          *)
InOrder(d) ==
  \A i, j \in Index : \A p \in DOMAIN files[d][i], q \in DOMAIN files[d][j] :
    i > j \/ (i = j /\ p < q) => files[d][i][p] < files[d][j][q]

Earlier(d, e) == d.mon < e.mon \/ (d.mon = e.mon /\ d.day < e.day)

(* Every buffer written is in a file, once and in its place, whatever was  *)
(* renamed and however often fopen failed: unless a thread changed the     *)
(* date while another was in get_curr_time or the persister was reading.   *)
(* Then an old date may come back, or a new day with an old month, and the *)
(* file of that date is truncated (log.h:58-66, log.cpp:126, 239, 249).    *)
OnlyRacesLose ==
  \/ raced
  \/ /\ \A k \in 1..written : \E d \in Date : Holds(d, k)
     /\ \A d \in Date : InOrder(d)
     /\ \A d, e \in Date : \A k, l \in 1..written :
          Earlier(d, e) /\ Holds(d, k) /\ Holds(e, l) => k < l

(* Also after such a race, what was written since the date of the file     *)
(* last changed is in the files of that date, which are in order: so it is *)
(* the end of them, for it is newer than anything else.                    *)
SameDayKept ==
  /\ \A k \in opened + 1..written : Holds(fileDate, k)
  /\ InOrder(fileDate)
=============================================================================
