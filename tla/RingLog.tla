------------------------------- MODULE RingLog -------------------------------
(***************************************************************************)
(* ring_log: the threads of a service append lines to a ring of buffers in *)
(* memory, and a persister thread (two in userservice, which says LOG_INIT *)
(* twice) writes full buffers, or after a second whatever there is, to the *)
(* log file.                                                               *)
(* The mutex guards the appends and the persister's bookkeeping, but not   *)
(* the write of the buffer (133), nor the reads and the reset of _lst_lts  *)
(* before an append (147, 164): those are actions of their own, and the    *)
(* append that follows a change of buffer is cut before it reads _lst_lts  *)
(* again (209).  The mutex is held across actions only there.              *)
(* A signal interrupts a thread wherever it is, also with the mutex in its *)
(* hand, and its handler, which logs a line itself, runs on that thread;   *)
(* what the thread was doing is never resumed, for the handler ends in     *)
(* exit().                                                                 *)
(* A line fills one of the CellLen places of a buffer; lines are numbered  *)
(* as they are put there.  The signal of line 220 only shortens a wait     *)
(* that a timeout ends, so it is the same step as the timeout.  The 5      *)
(* seconds for which lines are refused after a failure may be over at any  *)
(* time.                                                                   *)
(***************************************************************************)
EXTENDS Integers, Sequences, FiniteSets, Functions

CONSTANTS
  Logger,      \* the threads that log
  Persister,   \* the threads made by LOG_INIT
  Interruptible, \* the threads that a signal may be delivered to
  Fatal,       \* the loggers that use LOG_FATAL
  InitCells,   \* _buff_cnt of the constructor: 3
  MaxCells,    \* the most buffers that fit in MEM_USE_LIMIT
  CellLen,     \* lines in a buffer
  MaxLine,     \* bound: lines logged, but for the one of the handler
  MaxShort     \* bound: fwrite writes less only while as many are exempt

ASSUME RingLogAssumption ==
  /\ Interruptible \subseteq Logger \union Persister
  /\ Fatal \subseteq Logger
  /\ InitCells \in Nat \ {0, 1} /\ MaxCells \in Nat /\ MaxCells >= InitCells
  /\ CellLen \in Nat \ {0} /\ MaxLine \in Nat /\ MaxShort \in Nat

VARIABLES
  cells,      \* cells[c]: the lines in buffer c
  status,     \* status[c]: "FREE" or "FULL"
  next,       \* next[c]: the buffer after c in the ring
  curr,       \* _curr_buf
  prst,       \* _prst_buf
  lstLts,     \* _lst_lts # 0
  stopped,    \* _level is -1 (LOG_STOP)
  pc,
  handling,   \* the thread that runs the signal handler: a singleton or empty
  written,    \* it was the persister, with a buffer written and not cleared
  seized,     \* it was interrupted with the mutex, which nobody gets again
  looked,     \* the buffer whose length is_empty is about to read
  before,     \* history: accepted, when this is_empty began
  accepted,   \* how many lines try_append has put in a buffer: their numbers
  exempt,     \* history: those put in a buffer that was FULL, and those that
              \* fwrite has not written
  disk        \* the log file

bufVars == <<cells, status, next, curr, prst>>
pollVars == <<looked, before>>
signalVars == <<handling, written, seized, pollVars>>
lineVars == <<accepted, exempt>>
vars == <<bufVars, lstLts, stopped, pc, signalVars, lineVars, disk>>

Thread == Logger \union Persister
Cell == DOMAIN cells
At(l) == {t \in Thread : pc[t] = l}
Goto(t, l) == pc' = [pc EXCEPT ![t] = l]
MutexFree == At("retest") = {} /\ ~seized
Appending == At("reset") \union At("append") \union At("retest")

(* The next line goes into the current buffer. *)
PutLine ==
  /\ cells' = [cells EXCEPT ![curr] = Append(@, accepted + 1)]
  /\ accepted' = accepted + 1

Init ==
  /\ cells = [c \in 1..InitCells |-> <<>>]
  /\ status = [c \in 1..InitCells |-> "FREE"]
  /\ next = [c \in 1..InitCells |-> (c % InitCells) + 1]
  /\ curr = 1
  /\ prst = 1
  /\ lstLts = FALSE
  /\ stopped = FALSE
  /\ pc = [t \in Thread |-> IF t \in Persister THEN "top" ELSE "idle"]
  /\ handling = {}
  /\ written = FALSE
  /\ seized = FALSE
  /\ looked = 1
  /\ before = 0
  /\ accepted = 0
  /\ exempt = {}
  /\ disk = <<>>
-------------------------------------------------------------------------------
(* try_append *)

(* Line 147: the line is refused for 5 seconds after a failure.            *)
StartAppend(t) ==
  /\ \/ lstLts /\ Goto(t, "idle")
     \/ Goto(t, "reset")
  /\ UNCHANGED <<bufVars, lstLts, stopped, signalVars, lineVars, disk>>

(* The macro's test of the level, which LOG_FATAL does not make, and the   *)
(* call.                                                                   *)
LogLine(t) ==
  /\ pc[t] = "idle" /\ t \notin handling
  /\ ~stopped \/ t \in Fatal
  /\ accepted + Cardinality(Appending) < MaxLine
  /\ StartAppend(t)

(* Line 164, without the mutex. *)
Reset(t) ==
  /\ pc[t] = "reset"
  /\ lstLts' = FALSE
  /\ Goto(t, "append")
  /\ UNCHANGED <<bufVars, stopped, signalVars, lineVars, disk>>

AppendHere(t) ==
  /\ pc[t] = "append" /\ MutexFree
  /\ status[curr] = "FREE"
  /\ Len(cells[curr]) < CellLen
  /\ PutLine
  /\ Goto(t, "idle")
  /\ UNCHANGED <<status, next, curr, prst, lstLts, stopped, signalVars, exempt,
                 disk>>

CurrIsFilled(t) ==
  /\ pc[t] = "append" /\ MutexFree
  /\ status[curr] = "FREE"
  /\ Len(cells[curr]) = CellLen
  /\ Goto(t, "retest")
  /\ UNCHANGED <<prst, stopped, signalVars, lineVars, disk>>

(* Mutant: the filled buffer is not marked. *)
UseNextUnmarked(t) ==
  /\ CurrIsFilled(t)
  /\ status[next[curr]] = "FREE"
  /\ curr' = next[curr]
  /\ UNCHANGED <<cells, status, next, lstLts>>

(* The next buffer is free (line 207). *)
UseNext(t) ==
  /\ CurrIsFilled(t)
  /\ status[next[curr]] = "FREE"
  /\ status' = [status EXCEPT ![curr] = "FULL"]
  /\ curr' = next[curr]
  /\ UNCHANGED <<cells, next, lstLts>>

(* Mutant: the new buffer is linked after the next one. *)
AddCellElsewhere(t) ==
  /\ CurrIsFilled(t)
  /\ status[next[curr]] = "FULL"
  /\ Cardinality(Cell) + 1 <= MaxCells
  /\ LET new == Cardinality(Cell) + 1
         after == next[curr]
     IN  /\ cells' = Append(cells, <<>>)
         /\ status' = Append([status EXCEPT ![curr] = "FULL"], "FREE")
         /\ next' = Append([next EXCEPT ![after] = new], next[after])
         /\ curr' = new
  /\ UNCHANGED lstLts

(* Mutant: the new buffer is left without a successor. *)
AddCellNoNext(t) ==
  /\ CurrIsFilled(t)
  /\ status[next[curr]] = "FULL"
  /\ Cardinality(Cell) + 1 <= MaxCells
  /\ LET new == Cardinality(Cell) + 1
     IN  /\ cells' = Append(cells, <<>>)
         /\ status' = Append([status EXCEPT ![curr] = "FULL"], "FREE")
         /\ next' = Append([next EXCEPT ![curr] = new], 0)
         /\ curr' = new
  /\ UNCHANGED lstLts

(* It is not, but there is memory for one more (lines 195-201). *)
AddCell(t) ==
  /\ CurrIsFilled(t)
  /\ status[next[curr]] = "FULL"
  /\ Cardinality(Cell) + 1 <= MaxCells
  /\ LET new == Cardinality(Cell) + 1
     IN  /\ cells' = Append(cells, <<>>)
         /\ status' = Append([status EXCEPT ![curr] = "FULL"], "FREE")
         /\ next' = Append([next EXCEPT ![curr] = new], next[curr])
         /\ curr' = new
  /\ UNCHANGED lstLts

(* There is none (lines 189-191). *)
GiveUp(t) ==
  /\ CurrIsFilled(t)
  /\ status[next[curr]] = "FULL"
  /\ Cardinality(Cell) + 1 > MaxCells
  /\ status' = [status EXCEPT ![curr] = "FULL"]
  /\ curr' = next[curr]
  /\ lstLts' = TRUE
  /\ UNCHANGED <<cells, next>>

(* Line 209 reads _lst_lts again, which another thread may have reset.     *)
(* The append itself does nothing when there is no room.                   *)
Retest(t) ==
  /\ pc[t] = "retest"
  /\ IF ~lstLts /\ Len(cells[curr]) < CellLen
     THEN /\ PutLine
          /\ exempt' = IF status[curr] = "FULL" THEN exempt \union {accepted'} ELSE exempt
     ELSE UNCHANGED <<cells, accepted, exempt>>
  /\ Goto(t, "idle")
  /\ UNCHANGED <<status, next, curr, prst, lstLts, stopped, signalVars, disk>>

(* Line 214: the current buffer is full, the line is dropped. *)
Refuse(t) ==
  /\ pc[t] = "append" /\ MutexFree
  /\ status[curr] = "FULL"
  /\ lstLts' = TRUE
  /\ Goto(t, "idle")
  /\ UNCHANGED <<bufVars, stopped, signalVars, lineVars, disk>>

TryAppend(t) ==
  \/ Reset(t) \/ AppendHere(t) \/ UseNext(t) \/ AddCell(t) \/ GiveUp(t)
  \/ Retest(t) \/ Refuse(t)
-------------------------------------------------------------------------------
(* persist *)

(* Line 102: wait for a signal or a second, if the buffer is not full. *)
Wait(p) ==
  /\ pc[p] = "top" /\ MutexFree
  /\ status[prst] = "FREE"
  /\ Goto(p, "wait")
  /\ UNCHANGED <<bufVars, lstLts, stopped, signalVars, lineVars, disk>>

(* About to look at the buffer, with the mutex (line 112). *)
Looking(p) ==
  /\ MutexFree
  /\ pc[p] = "wait" \/ (pc[p] = "top" /\ status[prst] = "FULL")

NothingThere(p) ==
  /\ Looking(p)
  /\ cells[prst] = <<>>
  /\ Goto(p, "top")
  /\ UNCHANGED <<bufVars, lstLts, stopped, signalVars, lineVars, disk>>

TakeFull(p) ==
  /\ Looking(p)
  /\ cells[prst] # <<>>
  /\ status[prst] = "FULL"
  /\ Goto(p, "file")
  /\ UNCHANGED <<bufVars, lstLts, stopped, signalVars, lineVars, disk>>

(* Mutant: the current buffer is not closed while it is written. *)
TakeOpen(p) ==
  /\ Looking(p)
  /\ cells[prst] # <<>>
  /\ status[prst] = "FREE"
  /\ Goto(p, "file")
  /\ UNCHANGED <<bufVars, lstLts, stopped, signalVars, lineVars, disk>>

(* Mutant: a buffer that is not full is never written. *)
TakeFullOnly(p) ==
  /\ Looking(p)
  /\ cells[prst] # <<>>
  /\ status[prst] = "FREE"
  /\ Goto(p, "top")
  /\ UNCHANGED <<bufVars, lstLts, stopped, signalVars, lineVars, disk>>

(* Lines 119-124: close the buffer that the loggers are filling. *)
TakePartial(p) ==
  /\ Looking(p)
  /\ cells[prst] # <<>>
  /\ status[prst] = "FREE"
  /\ status' = [status EXCEPT ![curr] = "FULL"]
  /\ curr' = next[curr]
  /\ Goto(p, "file")
  /\ UNCHANGED <<cells, next, prst, lstLts, stopped, signalVars, lineVars,
                 disk>>

(* decis_file opens, keeps or rotates the file, or fails and is retried.   *)
FileOpen(p) ==
  /\ pc[p] = "file"
  /\ Goto(p, "write")
  /\ UNCHANGED <<bufVars, lstLts, stopped, signalVars, lineVars, disk>>

FileFails(p) ==
  /\ pc[p] = "file"
  /\ Goto(p, "top")
  /\ UNCHANGED <<bufVars, lstLts, stopped, signalVars, lineVars, disk>>

(* Lines 133-134, without the mutex.  When fwrite writes less than all,    *)
(* that is said on stderr, and the buffer is given back all the same.      *)
Write(p) ==
  /\ pc[p] = "write"
  /\ \E n \in 0..Len(cells[prst]) :
       /\ disk' = disk \o SubSeq(cells[prst], 1, n)
       /\ exempt' = exempt \union {cells[prst][i] : i \in n + 1..Len(cells[prst])}
       /\ n = Len(cells[prst]) \/ Cardinality(exempt') <= MaxShort
  /\ Goto(p, "clear")
  /\ UNCHANGED <<bufVars, lstLts, stopped, signalVars, accepted>>

(* Mutant: the persister forgets to go to the next buffer. *)
ClearOnly(p) ==
  /\ pc[p] = "clear" /\ MutexFree
  /\ cells' = [cells EXCEPT ![prst] = <<>>]
  /\ status' = [status EXCEPT ![prst] = "FREE"]
  /\ Goto(p, "top")
  /\ UNCHANGED <<next, curr, prst, lstLts, stopped, signalVars, lineVars,
                 disk>>

Clear(p) ==
  /\ pc[p] = "clear" /\ MutexFree
  /\ cells' = [cells EXCEPT ![prst] = <<>>]
  /\ status' = [status EXCEPT ![prst] = "FREE"]
  /\ prst' = next[prst]
  /\ Goto(p, "top")
  /\ UNCHANGED <<next, curr, lstLts, stopped, signalVars, lineVars, disk>>

Persist(p) ==
  \/ Wait(p) \/ NothingThere(p) \/ TakeFull(p) \/ TakePartial(p)
  \/ FileOpen(p) \/ FileFails(p) \/ Write(p) \/ Clear(p)
-------------------------------------------------------------------------------
(* A signal arrives, and its handler runs on thread t: a caller, wherever  *)
(* it is, or the persister.  The mutex stays locked if t has it, or has    *)
(* just got it.                                                            *)
Interrupt(t) ==
  /\ handling = {}
  /\ handling' = {t}
  /\ written' = (pc[t] = "clear")
  /\ \/ /\ \/ pc[t] = "retest"
           \/ pc[t] \in {"append", "top", "wait", "clear"} /\ MutexFree
        /\ seized' = TRUE
     \/ /\ pc[t] # "retest"
        /\ UNCHANGED seized
  /\ Goto(t, "warn")
  /\ UNCHANGED <<bufVars, lstLts, stopped, pollVars, lineVars, disk>>

(* signal_exit_handler: log a line (TryAppend does the rest), stop the     *)
(* log, then poll is_empty.  That makes four reads without the mutex: a    *)
(* pointer and its buffer's length, twice, in the order of the source, for *)
(* the makefile builds without optimization.                               *)
Warn(h) ==
  /\ pc[h] = "warn"
  /\ StartAppend(h)

LogStop(h) ==
  /\ pc[h] = "idle" /\ h \in handling
  /\ stopped' = TRUE
  /\ Goto(h, "poll")
  /\ UNCHANGED <<bufVars, lstLts, signalVars, lineVars, disk>>

OnlyPolls == UNCHANGED <<bufVars, lstLts, stopped, handling, written, seized, lineVars, disk>>

LoadCurr(h) ==
  /\ pc[h] = "poll"
  /\ looked' = curr
  /\ before' = accepted
  /\ Goto(h, "pollCurr")
  /\ OnlyPolls

TestCurr(h) ==
  /\ pc[h] = "pollCurr"
  /\ Goto(h, IF cells[looked] = <<>> THEN "poll2" ELSE "poll")
  /\ UNCHANGED pollVars
  /\ OnlyPolls

(* Mutant: only the current buffer is looked at.                           *)
LoadPrstNever(h) ==
  /\ pc[h] = "poll2"
  /\ Goto(h, "exit")
  /\ UNCHANGED pollVars
  /\ OnlyPolls

LoadPrst(h) ==
  /\ pc[h] = "poll2"
  /\ looked' = prst
  /\ Goto(h, "pollPrst")
  /\ UNCHANGED before
  /\ OnlyPolls

TestPrst(h) ==
  /\ pc[h] = "pollPrst"
  /\ Goto(h, IF cells[looked] = <<>> THEN "exit" ELSE "poll")
  /\ UNCHANGED pollVars
  /\ OnlyPolls

is_empty(h) == LoadCurr(h) \/ TestCurr(h) \/ LoadPrst(h) \/ TestPrst(h)

Handler(h) == Warn(h) \/ LogStop(h) \/ is_empty(h)

Exited == At("exit") # {}

Next ==
  /\ ~Exited
  /\ \/ \E t \in Logger : LogLine(t)
     \/ \E t \in Thread : TryAppend(t) \/ Handler(t)
     \/ \E p \in Persister : Persist(p)
     \/ \E t \in Interruptible : Interrupt(t)

(* The scheduler runs every thread that is not blocked, a file that cannot *)
(* be opened can be opened one day, and the handler goes on polling.       *)
Fairness ==
  /\ \A t \in Thread : WF_vars(TryAppend(t) /\ ~Exited)
                       /\ WF_vars(Handler(t) /\ ~Exited)
  /\ \A p \in Persister : WF_vars(Persist(p) /\ ~Exited)
                          /\ SF_vars(FileOpen(p) /\ ~Exited)

Spec == Init /\ [][Next]_vars
FairSpec == Spec /\ Fairness
-------------------------------------------------------------------------------
TypeOK ==
  /\ Cardinality(Cell) \in InitCells..MaxCells
  /\ cells \in [Cell -> Seq(1..MaxLine + 1)]
  /\ \A c \in Cell : Len(cells[c]) <= CellLen
  /\ status \in [Cell -> {"FREE", "FULL"}]
  /\ next \in [Cell -> Cell]
  /\ curr \in Cell /\ prst \in Cell
  /\ lstLts \in BOOLEAN /\ stopped \in BOOLEAN
  /\ pc \in [Thread -> {"idle", "reset", "append", "retest", "top", "wait", "file",
                        "write", "clear", "warn", "poll", "pollCurr", "poll2", "pollPrst", "exit"}]
  /\ handling \in SUBSET Interruptible
  /\ seized \in BOOLEAN /\ written \in BOOLEAN
  /\ looked \in Cell /\ before \in 0..MaxLine + 1
  /\ accepted \in 0..MaxLine + 1
  /\ exempt \in SUBSET (1..MaxLine + 1)
  /\ disk \in Seq(1..MaxLine + 1)

(* What the persister has put on the disk and not cleared.                 *)
Cleared == written \/ At("clear") # {}
Shelf(c) == IF c = prst /\ Cleared THEN <<>> ELSE cells[c]

(* The distance of each buffer from _prst_buf along the ring.              *)
Distances ==
  {far \in [Cell -> 0..Cardinality(Cell) - 1] :
     far[prst] = 0 /\ \A c \in Cell : next[c] # prst => far[next[c]] = far[c] + 1}

(* Lines in the order in which they were accepted, but for exempt ones.    *)
Ascending(s) ==
  \A i, j \in DOMAIN s : i < j => s[i] < s[j] \/ s[i] \in exempt \/ s[j] \in exempt

Precedes(s, u) ==
  \A i \in DOMAIN s, j \in DOMAIN u : s[i] < u[j] \/ s[i] \in exempt \/ u[j] \in exempt

(* Every line that was accepted is on disk or in a buffer, once, and in    *)
(* the order of acceptance along the ring: the ring grows in the middle    *)
(* and wraps around without losing, repeating or reordering a line.  The   *)
(* exceptions are what a short fwrite leaves out, and what the memory      *)
(* limit does: a second logger may reset _lst_lts between GiveUp and       *)
(* Retest, and the line goes into a buffer that is being persisted.        *)
OnlyExemptLinesLost ==
  /\ (1..accepted) \ exempt = (Range(disk) \union UNION {Range(Shelf(c)) : c \in Cell}) \ exempt
  /\ Ascending(disk)
  /\ \A c \in Cell : Ascending(Shelf(c)) /\ Precedes(disk, Shelf(c))
  /\ \E far \in Distances :
       \A c, d \in Cell : far[c] < far[d] => Precedes(Shelf(c), Shelf(d))

(* What lines 183 and 213 take for granted: when the current buffer is     *)
(* full, or the one after it when it is not, it is the one being persisted.*)
FullMeansPersisting ==
  /\ status[curr] = "FULL" => curr = prst
  /\ status[curr] = "FREE" /\ status[next[curr]] = "FULL" => next[curr] = prst

(* The assertion of line 121 (marked "to test"): a buffer with lines that  *)
(* is not full is the current one.                                         *)
PartialIsCurrent ==
  \A p \in Persister :
    Looking(p) /\ cells[prst] # <<>> /\ status[prst] = "FREE" => curr = prst

(* When the handler leaves, every line that is not exempt is on disk, its  *)
(* own among them, if                                                      *)
(*   - the buffer whose length it read last is still the one to be         *)
(*     persisted, or                                                       *)
(*   - no line went into the ring since this is_empty began, and the ring  *)
(*     is not at the memory limit.                                         *)
(* Without the two the persister may give that buffer back between the     *)
(* reads of the pointer and of the length, and the full ones behind it,    *)
(* or the current one, are forgotten.                                      *)
Quiet == accepted = before /\ Cardinality(Cell) < MaxCells

ExitIsFlushed ==
  Exited /\ (looked = prst \/ Quiet) => (1..accepted) \ exempt \subseteq Range(disk)

(* A signal that finds its thread with the mutex of the log, or finds the  *)
(* persister, stops the log for good: the handler waits for itself.        *)
Deaf == seized \/ handling \intersect Persister # {}

(* Every line that was accepted and is not exempt reaches the disk, full   *)
(* buffer or not, unless such a signal comes first.                        *)
ReachesDisk ==
  \A l \in 1..MaxLine :
    l <= accepted ~> (l \in Range(disk) \union exempt \/ Exited \/ Deaf)

(* The handler of every other signal comes to an end and the process       *)
(* leaves, however many threads go on logging and whatever the call was    *)
(* that the signal cut in two.                                             *)
HandlerExits == handling # {} ~> (Exited \/ Deaf)
===============================================================================
