------------------------------ MODULE RingLogProofs ------------------------------
(***************************************************************************)
(* Theorems about the ring of buffers of ring_log, for any number of       *)
(* threads that log, of buffers and of lines, with signals at any moment.  *)
(*   - Every variable has its type, whatever the number of persisters; the *)
(*     number of a line stays in its bound because a thread on its way to  *)
(*     an append has its line counted already (Counted), but for the one   *)
(*     line of the signal handler.                                         *)
(*   - With one persister, what the code takes for granted of the ring     *)
(*     holds: the full buffers are those from _prst_buf to _curr_buf       *)
(*     (Ring), and of those that are not full only the current one has     *)
(*     lines.  The ring is described by the rank of each buffer, its       *)
(*     distance from _prst_buf, which every change of the ring keeps,      *)
(*     shifts by one or extends.                                           *)
(*   - No line is lost or overtaken but those put in a full buffer and     *)
(*     those that fwrite does not write: in the ranks the lines rise       *)
(*     (Ordered), and what follows the current buffer is empty.  What is   *)
(*     written of the buffer in the persister's hand is not counted twice, *)
(*     nor missing, after a signal has cut the persister off between the   *)
(*     write and the clearing (Cleared, WrittenIsFull).                    *)
(*   - When the handler leaves under one of the two conditions of          *)
(*     ExitIsFlushed, no line is left in the ring.  Below the memory limit *)
(*     an empty current buffer, with the mutex free, follows the one that  *)
(*     is persisted (MutexInv), so that what the handler has seen by its   *)
(*     first two reads leaves lines there only (PollsCurr, PollsPrst), and *)
(*     by the last two nowhere (PollsLast).  A full buffer has lines       *)
(*     (FullHasLines): when the one to be persisted is empty the ring is.  *)
(***************************************************************************)
EXTENDS RingLog, SequenceTheorems, FiniteSetTheorems, TLAPS

-----------------------------------------------------------------------------
(* The parts of the invariant.                                             *)

Cells == Cardinality(Cell)
Line == 1..MaxLine + 1
Place == {"idle", "reset", "append", "retest", "top", "wait", "file", "write", "clear",
          "warn", "poll", "pollCurr", "poll2", "pollPrst", "exit"}
BeforeLine == {"reset", "append", "retest"}

CellTypes ==
  /\ Cells \in InitCells..MaxCells
  /\ cells \in [1..Cells -> Seq(Line)]
  /\ \A c \in 1..Cells : Len(cells[c]) <= CellLen
  /\ status \in [1..Cells -> {"FREE", "FULL"}]
  /\ next \in [1..Cells -> 1..Cells]
  /\ curr \in 1..Cells /\ prst \in 1..Cells

ThreadTypes ==
  /\ pc \in [Thread -> Place]
  /\ handling \in SUBSET Interruptible
  /\ lstLts \in BOOLEAN /\ stopped \in BOOLEAN
  /\ seized \in BOOLEAN /\ written \in BOOLEAN

LineTypes ==
  /\ accepted \in 0..MaxLine + 1
  /\ exempt \in SUBSET Line
  /\ disk \in Seq(Line)

PollTypes ==
  /\ looked \in 1..Cells
  /\ before \in 0..accepted

(* One signal is handled, and only by the thread it was delivered to.      *)
OneHandler ==
  /\ \A g, h \in handling : g = h
  /\ \A t \in Thread : pc[t] \in {"warn", "poll", "pollCurr", "poll2", "pollPrst", "exit"} =>
                          t \in handling

(* The handler has logged its line, or been refused.                       *)
HandlerDone == \E h \in handling : pc[h] \notin {"warn"} \union BeforeLine

(* The threads on their way to an append, but for the handler.             *)
Writers == {t \in Thread : pc[t] \in BeforeLine /\ t \notin handling}

Counted ==
  /\ IsFiniteSet(Appending)
  /\ accepted + Cardinality(Writers) <= MaxLine + (IF HandlerDone THEN 1 ELSE 0)

TypeInv == CellTypes /\ ThreadTypes /\ LineTypes /\ PollTypes /\ OneHandler /\ Counted

(* The distance of each buffer from the one that is persisted.             *)
Ranked(rank) ==
  /\ \A c, d \in 1..Cells : rank[c] = rank[d] => c = d
  /\ rank[prst] = 0
  /\ \A c \in 1..Cells : rank[next[c]] = IF rank[c] = Cells - 1 THEN 0 ELSE rank[c] + 1

(* Full are the buffers before the current one, or all of them.            *)
Filled(rank) ==
  \/ \A c \in 1..Cells : status[c] = "FULL" <=> rank[c] < rank[curr]
  \/ curr = prst /\ \A c \in 1..Cells : status[c] = "FULL"

Ring == \E rank \in [1..Cells -> 0..Cells - 1] : Ranked(rank) /\ Filled(rank)

FreeIsEmpty == \A c \in 1..Cells : status[c] = "FREE" /\ c # curr => cells[c] = <<>>

BeingWritten ==
  \A p \in Persister : pc[p] \in {"file", "write", "clear"} => status[prst] = "FULL"

OnePersister == \A p, q \in Persister : p = q

RingInv == TypeInv /\ Ring /\ FreeIsEmpty /\ BeingWritten

-----------------------------------------------------------------------------
(* Facts about functions and sequences.                                    *)

Longer(f, x) == Append(f, x)

LEMMA LongerType ==
  ASSUME NEW S, NEW n \in Nat, NEW f \in [1..n -> S], NEW x \in S
  PROVE  Longer(f, x) \in [1..n + 1 -> S]
<1> DEFINE g == Longer(f, x)
<1>1. f \in Seq(S) /\ Len(f) = n
  BY SMT
<1>2. g \in Seq(S) /\ Len(g) = n + 1
  BY <1>1, AppendProperties DEF Longer
<1>3. g \in [1..Len(g) -> S]
  BY <1>2, LenProperties
<1> QED
  BY <1>2, <1>3

LEMMA LongerKeeps ==
  ASSUME NEW S, NEW n \in Nat, NEW f \in [1..n -> S], NEW x \in S, NEW i \in 1..n
  PROVE  Longer(f, x)[i] = f[i]
<1>1. f \in Seq(S) /\ Len(f) = n
  BY SMT
<1> QED
  BY <1>1, AppendProperties DEF Longer

LEMMA LongerLast ==
  ASSUME NEW S, NEW n \in Nat, NEW f \in [1..n -> S], NEW x \in S
  PROVE  Longer(f, x)[n + 1] = x
<1>1. f \in Seq(S) /\ Len(f) = n
  BY SMT
<1> QED
  BY <1>1, AppendProperties DEF Longer

LEMMA Numbered ==
  ASSUME CellTypes
  PROVE  /\ Cells \in Nat \ {0} /\ Cell = 1..Cells
         /\ Cells <= MaxCells
BY RingLogAssumption DEF CellTypes, Cell

LEMMA CountTo ==
  ASSUME NEW n \in Nat
  PROVE  Cardinality(1..n) = n
BY FS_Interval

LEMMA Remainder ==
  ASSUME NEW n \in Nat \ {0}, NEW c \in 1..n
  PROVE  c % n = IF c = n THEN 0 ELSE c
OBVIOUS

(* What a short write leaves and what it cuts off.                         *)
LEMMA Prefix ==
  ASSUME NEW s \in Seq(Line), NEW n \in 0..Len(s)
  PROVE  /\ n \in Nat /\ Len(s) \in Nat /\ DOMAIN s = 1..Len(s)
         /\ SubSeq(s, 1, n) \in Seq(Line) /\ DOMAIN SubSeq(s, 1, n) = 1..n
         /\ \A i \in 1..n : i \in 1..Len(s) /\ SubSeq(s, 1, n)[i] = s[i]
         /\ \A i \in n + 1..Len(s) : i \in 1..Len(s) /\ s[i] \in Line
<1> DEFINE m == Len(s)
           u == SubSeq(s, 1, n)
<1>1. m \in Nat /\ n \in 0..m /\ DOMAIN s = 1..m /\ \A i \in 1..m : s[i] \in Line
  BY LenProperties
<1>2. /\ n \in Int /\ \A i \in 1..n : i \in 1..m /\ s[i] \in Line
      /\ \A i \in n + 1..m : i \in 1..m /\ s[i] \in Line
  BY ONLY <1>1
<1>3. /\ u \in Seq(Line) /\ Len(u) = IF 1 <= n THEN n - 1 + 1 ELSE 0
      /\ \A i \in 1..n - 1 + 1 : u[i] = s[1 + i - 1]
  BY <1>2, SubSeqProperties
<1>4. DOMAIN u = 1..Len(u)
  BY <1>3, LenProperties
<1> HIDE DEF m, u
<1>5. Len(u) = n /\ \A i \in 1..n : u[i] = s[i]
  BY ONLY <1>1, <1>3
<1>6. DOMAIN u = 1..n /\ n \in Nat
  BY ONLY <1>1, <1>4, <1>5
<1> QED
  BY <1>1, <1>2, <1>3, <1>5, <1>6 DEF m, u

-----------------------------------------------------------------------------
(* The ways a step changes the ring.                                       *)

RingChange ==
  \/ \E t \in Thread : \/ AppendHere(t) \/ Retest(t)
                       \/ UseNext(t) \/ AddCell(t) \/ GiveUp(t)
  \/ \E p \in Persister : TakePartial(p) \/ Clear(p)
  \/ UNCHANGED bufVars

LEMMA RingChanges ==
  [Next]_vars => RingChange
<1> SUFFICES ASSUME [Next]_vars PROVE RingChange
  OBVIOUS
<1> USE DEF RingChange
<1>1. ASSUME NEW t \in Logger, LogLine(t) PROVE RingChange
  BY <1>1 DEF LogLine, StartAppend
<1>2. ASSUME NEW t \in Thread, TryAppend(t) PROVE RingChange
  BY <1>2 DEF TryAppend, Reset, Refuse
<1>3. ASSUME NEW t \in Thread, Handler(t) PROVE RingChange
  BY <1>3 DEF Handler, Warn, StartAppend, LogStop, is_empty, OnlyPolls,
         LoadCurr, TestCurr, LoadPrst, TestPrst
<1>4. ASSUME NEW p \in Persister, Persist(p) PROVE RingChange
  BY <1>4 DEF Persist, Wait, NothingThere, TakeFull, FileOpen, FileFails, Write
<1>5. ASSUME NEW t \in Interruptible, Interrupt(t) PROVE RingChange
  BY <1>5 DEF Interrupt
<1>6. CASE UNCHANGED vars
  BY <1>6 DEF vars
<1> QED
  BY <1>1, <1>2, <1>3, <1>4, <1>5, <1>6 DEF Next

-----------------------------------------------------------------------------
(* Type correctness.                                                       *)

(* A thread about to append has room for the number of its line.           *)
LEMMA NumberFits ==
  ASSUME ThreadTypes, LineTypes, Counted, OneHandler, NEW t \in Thread,
         pc[t] \in {"append", "retest"}
  PROVE  accepted + 1 \in Line
<1> DEFINE d == IF HandlerDone THEN 1 ELSE 0
<1>1. IsFiniteSet(Writers) /\ Cardinality(Writers) \in Nat
  <2>1. Writers \subseteq Appending
    BY DEF Writers, Appending, At, BeforeLine
  <2> QED
    BY <2>1, FS_Subset, FS_CardinalityType DEF Counted
<1>2. CASE t \in handling
  <2>1. ~HandlerDone
    BY <1>2 DEF HandlerDone, OneHandler, BeforeLine
  <2> QED
    BY <1>1, <2>1, RingLogAssumption DEF Counted, LineTypes, Line
<1>3. CASE t \notin handling
  <2>1. t \in Writers
    BY <1>3 DEF Writers, BeforeLine
  <2>2. Cardinality(Writers) # 0
    BY <1>1, <2>1, FS_EmptySet
  <2> QED
    BY <1>1, <2>2, RingLogAssumption DEF Counted, LineTypes, Line
<1> QED
  BY <1>2, <1>3

LEMMA NextCellTypes ==
  TypeInv /\ [Next]_vars => CellTypes'
<1> SUFFICES ASSUME TypeInv, RingChange PROVE CellTypes'
  BY RingChanges
<1> USE DEF TypeInv
<1>0. /\ Cells \in Nat \ {0} /\ Cell = 1..Cells /\ Cells <= MaxCells
      /\ DOMAIN cells = 1..Cells
  BY Numbered DEF Cell
<1>1. ASSUME NEW t \in Thread, AppendHere(t) \/ Retest(t) PROVE CellTypes'
  <2>1. CASE UNCHANGED bufVars
    BY <2>1 DEF bufVars, CellTypes, Cells, Cell
  <2>2. CASE PutLine /\ Len(cells[curr]) < CellLen /\ UNCHANGED <<status, next, curr, prst>>
    <3>1. pc[t] \in {"append", "retest"}
      BY <1>1 DEF AppendHere, Retest
    <3>2. accepted + 1 \in Line
      BY <3>1, NumberFits
    <3>3. cells[curr] \in Seq(Line) /\ Len(cells[curr]) \in Nat
      BY DEF CellTypes
    <3>4. /\ Append(cells[curr], accepted + 1) \in Seq(Line)
          /\ Len(Append(cells[curr], accepted + 1)) = Len(cells[curr]) + 1
      BY <3>2, <3>3, AppendProperties
    <3>5. cells' = [cells EXCEPT ![curr] = Append(cells[curr], accepted + 1)]
      BY <2>2 DEF PutLine
    <3>6. /\ cells' \in [1..Cells -> Seq(Line)]
          /\ \A c \in 1..Cells : Len(cells'[c]) <= CellLen
      <4> DEFINE s == Append(cells[curr], accepted + 1)
      <4>1. s \in Seq(Line) /\ Len(s) <= CellLen
        BY <2>2, <3>3, <3>4, RingLogAssumption
      <4>2. /\ cells \in [1..Cells -> Seq(Line)] /\ cells' = [cells EXCEPT ![curr] = s]
            /\ \A c \in 1..Cells : Len(cells[c]) <= CellLen
        BY <3>5 DEF CellTypes
      <4> HIDE DEF s
      <4> QED
        BY ONLY <4>1, <4>2
    <3>7. Cells' = Cells
      BY <1>0, <3>6 DEF Cells, Cell
    <3> QED
      BY <2>2, <3>6, <3>7 DEF CellTypes
  <2> QED
    BY <1>1, <2>1, <2>2 DEF AppendHere, Retest, bufVars
<1>2. ASSUME NEW t \in Thread, UseNext(t) \/ GiveUp(t) PROVE CellTypes'
  <2>1. cells' = cells /\ Cells' = Cells
    BY <1>2 DEF UseNext, GiveUp, Cells, Cell
  <2> QED
    BY <1>2, <2>1 DEF UseNext, GiveUp, CurrIsFilled, CellTypes
<1>3. ASSUME NEW t \in Thread, AddCell(t) PROVE CellTypes'
  <2> DEFINE n == Cells
  <2>1. /\ n + 1 <= MaxCells
        /\ cells' = Longer(cells, <<>>)
        /\ status' = Longer([status EXCEPT ![curr] = "FULL"], "FREE")
        /\ next' = Longer([next EXCEPT ![curr] = n + 1], next[curr])
        /\ curr' = n + 1 /\ prst' = prst
    BY <1>3 DEF AddCell, CurrIsFilled, Cells, Cell, Longer
  <2>2. /\ cells' \in [1..n + 1 -> Seq(Line)]
        /\ \A c \in 1..n : cells'[c] = cells[c]
        /\ cells'[n + 1] = <<>>
    <3> DEFINE e == <<>>
               S == Seq(Line)
    <3>1. n \in Nat /\ e \in S /\ cells \in [1..n -> S]
      BY <1>0, EmptySeq DEF CellTypes
    <3>2. cells' = Longer(cells, e)
      BY <2>1
    <3>3. /\ cells' \in [1..n + 1 -> S]
          /\ \A c \in 1..n : cells'[c] = cells[c]
          /\ cells'[n + 1] = e
      <4> HIDE DEF n, e, S
      <4>1. Longer(cells, e) \in [1..n + 1 -> S]
        BY ONLY <3>1, LongerType
      <4>2. \A c \in 1..n : Longer(cells, e)[c] = cells[c]
        BY ONLY <3>1, LongerKeeps
      <4>3. Longer(cells, e)[n + 1] = e
        BY ONLY <3>1, LongerLast
      <4> QED
        BY ONLY <3>2, <4>1, <4>2, <4>3
    <3> QED
      BY <3>3
  <2>3. status' \in [1..n + 1 -> {"FREE", "FULL"}]
    <3>1. [status EXCEPT ![curr] = "FULL"] \in [1..n -> {"FREE", "FULL"}]
      BY DEF CellTypes
    <3> QED
      BY <1>0, <2>1, <3>1, LongerType
  <2>4. next' \in [1..n + 1 -> 1..n + 1]
    <3>1. [next EXCEPT ![curr] = n + 1] \in [1..n -> 1..n + 1] /\ next[curr] \in 1..n + 1
      <4>1. /\ n \in Nat /\ next \in [1..n -> 1..n] /\ curr \in 1..n
            /\ \A c \in 1..n : c \in 1..n + 1
        BY <1>0 DEF CellTypes
      <4>2. n + 1 \in 1..n + 1
        BY <4>1
      <4>3. \A c \in 1..n : next[c] \in 1..n + 1
        BY <4>1
      <4> HIDE DEF n
      <4> QED
        BY ONLY <4>1, <4>2, <4>3
    <3> QED
      BY <1>0, <2>1, <3>1, LongerType
  <2>5. Cells' = n + 1
    BY <1>0, <2>2, CountTo DEF Cells, Cell
  <2>6. \A c \in 1..n + 1 : Len(cells'[c]) <= CellLen
    <3>1. Len(cells'[n + 1]) = 0
      BY <2>2, EmptySeq
    <3>2. \A c \in 1..n : Len(cells'[c]) <= CellLen
      BY <2>2 DEF CellTypes
    <3> QED
      BY <1>0, <3>1, <3>2, RingLogAssumption
  <2>7. n + 1 \in InitCells..MaxCells /\ curr' \in 1..n + 1 /\ prst' \in 1..n + 1
    BY <1>0, <2>1, RingLogAssumption DEF CellTypes
  <2> QED
    BY <2>2, <2>3, <2>4, <2>5, <2>6, <2>7 DEF CellTypes
<1>4. ASSUME NEW p \in Persister, TakePartial(p) PROVE CellTypes'
  <2>1. cells' = cells /\ Cells' = Cells
    BY <1>4 DEF TakePartial, Cells, Cell
  <2> QED
    BY <1>4, <2>1 DEF TakePartial, CellTypes
<1>5. ASSUME NEW p \in Persister, Clear(p) PROVE CellTypes'
  <2>1. cells' = [cells EXCEPT ![prst] = <<>>] /\ <<>> \in Seq(Line) /\ Len(<<>>) = 0
    BY <1>5, EmptySeq DEF Clear
  <2>2. /\ cells' \in [1..Cells -> Seq(Line)]
        /\ \A c \in 1..Cells : Len(cells'[c]) <= CellLen
    <3>1. CellLen \in Nat
      BY RingLogAssumption
    <3> QED
      BY <2>1, <3>1 DEF CellTypes
  <2>3. Cells' = Cells
    BY <1>0, <2>2 DEF Cells, Cell
  <2> QED
    BY <1>5, <2>2, <2>3 DEF Clear, CellTypes
<1>6. CASE UNCHANGED bufVars
  BY <1>6 DEF bufVars, CellTypes, Cells, Cell
<1> QED
  BY <1>1, <1>2, <1>3, <1>4, <1>5, <1>6 DEF RingChange

(* AddCell, place by place.                                                *)
LEMMA ExtendedCells ==
  ASSUME CellTypes, CellTypes', NEW t \in Thread, AddCell(t)
  PROVE  /\ Cells' = Cells + 1 /\ curr' = Cells + 1 /\ prst' = prst
         /\ \A c \in 1..Cells :
              /\ cells'[c] = cells[c]
              /\ status'[c] = IF c = curr THEN "FULL" ELSE status[c]
              /\ next'[c] = IF c = curr THEN Cells + 1 ELSE next[c]
         /\ cells'[Cells + 1] = <<>> /\ status'[Cells + 1] = "FREE"
         /\ next'[Cells + 1] = next[curr]
<1> DEFINE n == Cells
           filled == [status EXCEPT ![curr] = "FULL"]
           linked == [next EXCEPT ![curr] = n + 1]
           after == next[curr]
           Status == {"FREE", "FULL"}
           e == <<>>
           S == Seq(Line)
<1>1. /\ cells' = Longer(cells, e)
      /\ status' = Longer(filled, "FREE")
      /\ next' = Longer(linked, after)
      /\ curr' = n + 1 /\ prst' = prst
  BY DEF AddCell, CurrIsFilled, Cells, Cell, Longer
<1>2. /\ filled \in [1..n -> Status] /\ "FREE" \in Status
      /\ cells \in [1..n -> S] /\ e \in S /\ n \in Nat
      /\ \A c \in 1..n : filled[c] = IF c = curr THEN "FULL" ELSE status[c]
      /\ \A c \in 1..n : linked[c] = IF c = curr THEN n + 1 ELSE next[c]
  BY Numbered, EmptySeq DEF CellTypes
<1>3. linked \in [1..n -> Nat] /\ after \in Nat
  <2>1. next \in [1..n -> 1..n] /\ curr \in 1..n
    BY DEF CellTypes
  <2> HIDE DEF n
  <2>2. next \in [1..n -> Nat] /\ after \in Nat /\ n + 1 \in Nat
    BY ONLY <2>1, <1>2
  <2> QED
    BY ONLY <2>2
<1> HIDE DEF n, filled, linked, after, Status, e, S
<1>4. /\ cells \in Seq(S) /\ Len(cells) = n
      /\ filled \in Seq(Status) /\ Len(filled) = n
      /\ linked \in Seq(Nat) /\ Len(linked) = n
  BY ONLY <1>2, <1>3
<1>5. \A c \in 1..n : cells'[c] = cells[c]
  BY ONLY <1>1, <1>2, <1>4, AppendProperties DEF Longer
<1>6. cells'[n + 1] = e
  BY ONLY <1>1, <1>2, <1>4, AppendProperties DEF Longer
<1>7. \A c \in 1..n : status'[c] = filled[c]
  BY ONLY <1>1, <1>2, <1>4, AppendProperties DEF Longer
<1>8. status'[n + 1] = "FREE"
  BY ONLY <1>1, <1>2, <1>4, AppendProperties DEF Longer
<1>9. \A c \in 1..n : next'[c] = linked[c]
  BY ONLY <1>1, <1>2, <1>3, <1>4, AppendProperties DEF Longer
<1>10. next'[n + 1] = after
  BY ONLY <1>1, <1>2, <1>3, <1>4, AppendProperties DEF Longer
<1>11. Cells' = n + 1
  <2>1. status' \in [1..n + 1 -> Status]
    BY ONLY <1>1, <1>2, LongerType
  <2>2. DOMAIN status' = 1..Cells' /\ Cells' \in Nat
    BY Numbered DEF CellTypes
  <2> QED
    BY ONLY <1>2, <2>1, <2>2
<1> QED
  BY <1>1, <1>2, <1>5, <1>6, <1>7, <1>8, <1>9, <1>10, <1>11 DEF n, e, after

(* The steps of the threads, as one disjunction.                           *)
Step(t) ==
  \/ (t \in Logger /\ LogLine(t))
  \/ TryAppend(t) \/ Handler(t)
  \/ (t \in Persister /\ Persist(t))
  \/ (t \in Interruptible /\ Interrupt(t))

LEMMA Steps ==
  [Next]_vars => (\E t \in Thread : Step(t)) \/ UNCHANGED vars
BY RingLogAssumption DEF Next, Step, Thread

LEMMA NextThreadTypes ==
  ThreadTypes /\ [Next]_vars => ThreadTypes'
<1> SUFFICES ASSUME ThreadTypes, [Next]_vars PROVE ThreadTypes'
  OBVIOUS
<1> USE DEF ThreadTypes, Place, Goto, signalVars
<1>1. ASSUME NEW t \in Thread, Step(t) PROVE ThreadTypes'
  <2>1. CASE LogLine(t) \/ Warn(t) \/ Reset(t)
    BY <2>1 DEF LogLine, Warn, StartAppend, Reset
  <2>2. CASE AppendHere(t) \/ Retest(t) \/ Refuse(t)
    BY <2>2 DEF AppendHere, Retest, Refuse
  <2>3. CASE UseNext(t) \/ AddCell(t) \/ GiveUp(t)
    BY <2>3 DEF UseNext, AddCell, GiveUp, CurrIsFilled
  <2>4. CASE LogStop(t) \/ is_empty(t)
    BY <2>4 DEF LogStop, is_empty, OnlyPolls,
         LoadCurr, TestCurr, LoadPrst, TestPrst
  <2>5. CASE Persist(t)
    BY <2>5 DEF Persist, Wait, NothingThere, TakeFull, TakePartial, FileOpen, FileFails,
       Write, Clear
  <2>6. CASE t \in Interruptible /\ Interrupt(t)
    BY <2>6 DEF Interrupt
  <2> QED
    BY <1>1, <2>1, <2>2, <2>3, <2>4, <2>5, <2>6 DEF Step, TryAppend, Handler
<1>2. CASE UNCHANGED vars
  BY <1>2 DEF vars
<1> QED
  BY <1>1, <1>2, Steps

LEMMA NextOneHandler ==
  ThreadTypes /\ OneHandler /\ [Next]_vars => OneHandler'
<1> SUFFICES ASSUME ThreadTypes, OneHandler, [Next]_vars PROVE OneHandler'
  OBVIOUS
<1> USE DEF OneHandler, ThreadTypes, Goto, signalVars
<1>1. ASSUME NEW t \in Thread, Step(t) PROVE OneHandler'
  <2>1. CASE LogLine(t) \/ Warn(t) \/ Reset(t)
    BY <2>1 DEF LogLine, Warn, StartAppend, Reset
  <2>2. CASE AppendHere(t) \/ Retest(t) \/ Refuse(t)
    BY <2>2 DEF AppendHere, Retest, Refuse
  <2>3. CASE UseNext(t) \/ AddCell(t) \/ GiveUp(t)
    BY <2>3 DEF UseNext, AddCell, GiveUp, CurrIsFilled
  <2>4. CASE LogStop(t) \/ is_empty(t)
    BY <2>4 DEF LogStop, is_empty, OnlyPolls,
         LoadCurr, TestCurr, LoadPrst, TestPrst
  <2>5. CASE Persist(t)
    BY <2>5 DEF Persist, Wait, NothingThere, TakeFull, TakePartial, FileOpen, FileFails,
       Write, Clear
  <2>6. CASE t \in Interruptible /\ Interrupt(t)
    BY <2>6 DEF Interrupt
  <2> QED
    BY <1>1, <2>1, <2>2, <2>3, <2>4, <2>5, <2>6 DEF Step, TryAppend, Handler
<1>2. CASE UNCHANGED vars
  BY <1>2 DEF vars
<1> QED
  BY <1>1, <1>2, Steps

LEMMA NextLineTypes ==
  TypeInv /\ [Next]_vars => LineTypes'
<1> SUFFICES ASSUME TypeInv, [Next]_vars PROVE LineTypes'
  OBVIOUS
<1> USE DEF TypeInv, LineTypes, lineVars
<1>1. ASSUME NEW t \in Thread, Step(t) PROVE LineTypes'
  <2>1. CASE AppendHere(t) \/ Retest(t)
    <3>1. accepted + 1 \in Line
      BY <2>1, NumberFits DEF AppendHere, Retest
    <3>2. disk' = disk /\ (exempt' = exempt \/ exempt' = exempt \union {accepted'})
          /\ (accepted' = accepted \/ accepted' = accepted + 1)
          /\ (exempt' # exempt => accepted' = accepted + 1)
      BY <2>1 DEF AppendHere, Retest, PutLine
    <3>3. accepted' \in 0..MaxLine + 1
      BY <3>1, <3>2 DEF Line
    <3>4. exempt' \in SUBSET Line
      BY <3>1, <3>2
    <3> QED
      BY <3>2, <3>3, <3>4
  <2>2. CASE Write(t)
    <3> DEFINE s == cells[prst]
    <3>1. s \in Seq(Line)
      BY DEF CellTypes
    <3>2. PICK n \in 0..Len(s) :
            /\ disk' = disk \o SubSeq(s, 1, n)
            /\ exempt' = exempt \union {s[i] : i \in n + 1..Len(s)}
      BY <2>2 DEF Write
    <3> HIDE DEF s
    <3>3. SubSeq(s, 1, n) \in Seq(Line) /\ \A i \in n + 1..Len(s) : s[i] \in Line
      BY <3>1, Prefix
    <3>4. disk' \in Seq(Line)
      BY <3>2, <3>3, ConcatProperties
    <3>5. exempt' \in SUBSET Line
      BY <3>2, <3>3
    <3> QED
      BY <2>2, <3>4, <3>5 DEF Write
  <2>3. CASE LogLine(t) \/ Warn(t) \/ Reset(t) \/ Refuse(t)
    BY <2>3 DEF LogLine, Warn, StartAppend, Reset, Refuse
  <2>4. CASE UseNext(t) \/ AddCell(t) \/ GiveUp(t)
    BY <2>4 DEF UseNext, AddCell, GiveUp, CurrIsFilled
  <2>5. CASE LogStop(t) \/ is_empty(t) \/ Interrupt(t)
    BY <2>5 DEF LogStop, is_empty, OnlyPolls,
         LoadCurr, TestCurr, LoadPrst, TestPrst, Interrupt
  <2>6. CASE Persist(t) /\ ~Write(t)
    BY <2>6 DEF Persist, Wait, NothingThere, TakeFull, TakePartial, FileOpen, FileFails,
       Clear
  <2> QED
    BY <1>1, <2>1, <2>2, <2>3, <2>4, <2>5, <2>6 DEF Step, TryAppend, Handler
<1>2. CASE UNCHANGED vars
  BY <1>2 DEF vars
<1> QED
  BY <1>1, <1>2, Steps

(* The ring only grows, and so does the number of lines.                   *)
LEMMA OnlyGrows ==
  ASSUME TypeInv, [Next]_vars
  PROVE  /\ Cells \in Nat /\ Cells' \in Nat /\ Cells <= Cells'
         /\ accepted \in Nat /\ accepted' \in {accepted, accepted + 1}
<1>1. /\ CellTypes /\ CellTypes' /\ RingChange
      /\ Cells \in Nat /\ Cells' \in Nat /\ accepted \in Nat
  <2>1. CellTypes /\ CellTypes' /\ RingChange /\ accepted \in Nat
    BY NextCellTypes, RingChanges, RingLogAssumption DEF TypeInv, LineTypes
  <2>2. Cells' \in Nat
    BY <2>1, RingLogAssumption DEF CellTypes
  <2> QED
    BY <2>1, <2>2, Numbered
<1>2. Cells <= Cells'
  <2>1. ASSUME NEW t \in Thread, AddCell(t) PROVE Cells <= Cells'
    BY <1>1, <2>1, ExtendedCells
  <2>2. ASSUME DOMAIN cells' = DOMAIN cells PROVE Cells <= Cells'
    BY <1>1, <2>2 DEF Cells, Cell
  <2> QED
    BY <1>1, <2>1, <2>2 DEF RingChange, AppendHere, Retest, PutLine, UseNext, GiveUp,
       TakePartial, Clear, bufVars
<1>3. ASSUME NEW t \in Thread, Step(t) PROVE accepted' \in {accepted, accepted + 1}
  <2>1. CASE Persist(t)
    BY <2>1 DEF Persist, Wait, NothingThere, TakeFull, TakePartial, FileOpen, FileFails,
       Write, Clear, lineVars
  <2>2. CASE ~Persist(t)
    BY <1>3, <2>2 DEF Step, TryAppend, Handler, LogLine, Warn, StartAppend, Reset,
       AppendHere, Retest, Refuse, PutLine, UseNext, AddCell, GiveUp, CurrIsFilled,
       LogStop, is_empty, OnlyPolls, LoadCurr, TestCurr, LoadPrst, TestPrst, Interrupt,
       lineVars
  <2> QED
    BY <2>1, <2>2
<1>4. ASSUME UNCHANGED vars PROVE accepted' \in {accepted, accepted + 1}
  BY <1>4 DEF vars, lineVars
<1> QED
  BY <1>1, <1>2, <1>3, <1>4, Steps

(* Nobody but the handler reads what it polls, or is in the middle of that.*)
Polling == {"pollCurr", "poll2", "pollPrst", "exit"}

LEMMA PollsKept ==
  ASSUME ThreadTypes, NEW t \in Thread, Step(t), ~is_empty(t)
  PROVE  /\ UNCHANGED pollVars
         /\ \A v \in Thread : pc'[v] \in Polling => pc'[v] = pc[v]
<1> USE DEF ThreadTypes, Goto, signalVars, Polling
<1>1. CASE LogLine(t) \/ Warn(t) \/ Reset(t)
  BY <1>1 DEF LogLine, Warn, StartAppend, Reset
<1>2. CASE AppendHere(t) \/ Retest(t) \/ Refuse(t)
  BY <1>2 DEF AppendHere, Retest, Refuse
<1>3. CASE UseNext(t) \/ AddCell(t) \/ GiveUp(t)
  BY <1>3 DEF UseNext, AddCell, GiveUp, CurrIsFilled
<1>4. CASE LogStop(t) \/ Interrupt(t)
  BY <1>4 DEF LogStop, Interrupt
<1>5. CASE Persist(t)
  BY <1>5 DEF Persist, Wait, NothingThere, TakeFull, TakePartial, FileOpen, FileFails,
     Write, Clear
<1> QED
  BY <1>1, <1>2, <1>3, <1>4, <1>5 DEF Step, TryAppend, Handler

LEMMA NextPollTypes ==
  TypeInv /\ [Next]_vars => PollTypes'
<1> SUFFICES ASSUME TypeInv, [Next]_vars PROVE PollTypes'
  OBVIOUS
<1>1. /\ ThreadTypes /\ PollTypes /\ curr \in 1..Cells /\ prst \in 1..Cells
      /\ Cells \in Nat /\ Cells' \in Nat /\ Cells <= Cells'
      /\ accepted \in Nat /\ accepted' \in {accepted, accepted + 1}
  BY OnlyGrows DEF TypeInv, CellTypes
<1>2. ASSUME UNCHANGED pollVars PROVE PollTypes'
  BY <1>1, <1>2 DEF PollTypes, pollVars
<1>3. ASSUME NEW t \in Thread, is_empty(t) PROVE PollTypes'
  <2>1. /\ looked' \in {looked, curr, prst} /\ before' \in {before, accepted}
        /\ accepted' = accepted
    BY <1>3 DEF is_empty, LoadCurr, TestCurr, LoadPrst, TestPrst, OnlyPolls, pollVars, lineVars
  <2> QED
    BY <1>1, <2>1 DEF PollTypes
<1>4. ASSUME NEW t \in Thread, Step(t), ~is_empty(t) PROVE PollTypes'
  BY <1>1, <1>2, <1>4, PollsKept
<1> QED
  BY <1>2, <1>3, <1>4, Steps DEF vars, signalVars

(* The count of the lines that are on their way.                           *)

Done == IF HandlerDone THEN 1 ELSE 0

LEMMA WritersFinite ==
  ASSUME Counted
  PROVE  /\ IsFiniteSet(Writers) /\ Cardinality(Writers) \in Nat
         /\ Cardinality(Appending) \in Nat
         /\ Cardinality(Writers) <= Cardinality(Appending)
<1>1. Writers \subseteq Appending
  BY DEF Writers, Appending, At, BeforeLine
<1> QED
  BY <1>1, FS_Subset, FS_CardinalityType DEF Counted

(* Who begins a line, who ends one, and nobody else.                       *)
Begins(t) ==
  /\ LogLine(t) /\ pc[t] = "idle" /\ t \notin handling
  /\ accepted' = accepted /\ accepted + Cardinality(Appending) < MaxLine

Puts(t) ==
  /\ pc[t] \in BeforeLine /\ pc'[t] = "idle"
  /\ handling' = handling /\ accepted' = accepted + 1

Continues(t) ==
  /\ accepted' = accepted
  /\ Writers' \subseteq Writers
  /\ HandlerDone => HandlerDone'

LEMMA LineSteps ==
  ASSUME ThreadTypes, OneHandler, NEW t \in Thread, Step(t)
  PROVE  /\ \A v \in Thread : v # t => pc'[v] = pc[v]
         /\ handling \subseteq handling'
         /\ Begins(t) \/ Puts(t) \/ Continues(t)
<1> USE DEF ThreadTypes, Goto, signalVars, lineVars, BeforeLine
<1> DEFINE Others == \A v \in Thread : v # t => pc'[v] = pc[v]
<1>1. CASE LogLine(t)
  BY <1>1 DEF LogLine, StartAppend, Begins
<1>2. CASE AppendHere(t) \/ Retest(t)
  <2>1. /\ Others /\ handling' = handling /\ pc[t] \in BeforeLine /\ pc'[t] = "idle"
        /\ accepted' = accepted + 1 \/ accepted' = accepted
    BY <1>2 DEF AppendHere, Retest, PutLine
  <2>2. HandlerDone => HandlerDone'
    BY <2>1, RingLogAssumption DEF HandlerDone, Thread
  <2> QED
    BY <2>1, <2>2 DEF Puts, Continues, Writers
<1>3. CASE Refuse(t) \/ UseNext(t) \/ AddCell(t) \/ GiveUp(t) \/ Reset(t)
  <2>1. /\ Others /\ handling' = handling /\ pc[t] \in BeforeLine
        /\ pc'[t] \in BeforeLine \union {"idle"} /\ accepted' = accepted
    BY <1>3 DEF Refuse, UseNext, AddCell, GiveUp, CurrIsFilled, Reset
  <2>2. HandlerDone => HandlerDone'
    BY <2>1, RingLogAssumption DEF HandlerDone, Thread
  <2> QED
    BY <2>1, <2>2 DEF Continues, Writers
<1>4. CASE Handler(t)
  <2>1. /\ Others /\ handling' = handling /\ t \in handling /\ accepted' = accepted
        /\ pc[t] \in {"warn", "idle", "poll", "pollCurr", "poll2", "pollPrst"}
        /\ pc[t] # "warn" => pc'[t] \notin {"warn"} \union BeforeLine
    BY <1>4 DEF Handler, Warn, StartAppend, LogStop, is_empty, OnlyPolls,
         LoadCurr, TestCurr, LoadPrst, TestPrst, OneHandler
  <2>2. HandlerDone => HandlerDone'
    BY <2>1, RingLogAssumption DEF HandlerDone, Thread
  <2> QED
    BY <2>1, <2>2 DEF Continues, Writers
<1>5. CASE Persist(t)
  <2>1. /\ Others /\ handling' = handling /\ accepted' = accepted
        /\ pc'[t] \notin {"warn"} \union BeforeLine
    BY <1>5 DEF Persist, Wait, NothingThere, TakeFull, TakePartial, FileOpen, FileFails,
       Write, Clear
  <2>2. HandlerDone => HandlerDone'
    BY <2>1, RingLogAssumption DEF HandlerDone, Thread
  <2> QED
    BY <2>1, <2>2 DEF Continues, Writers
<1>6. CASE Interrupt(t)
  <2>1. /\ Others /\ handling = {} /\ handling' = {t} /\ accepted' = accepted
        /\ pc'[t] = "warn"
    BY <1>6 DEF Interrupt
  <2> QED
    BY <2>1 DEF Continues, Writers, HandlerDone
<1> QED
  BY <1>1, <1>2, <1>3, <1>4, <1>5, <1>6 DEF Step, TryAppend

LEMMA NextCounted ==
  ThreadTypes /\ LineTypes /\ OneHandler /\ Counted /\ [Next]_vars => Counted'
<1> SUFFICES ASSUME ThreadTypes, LineTypes, OneHandler, Counted, [Next]_vars PROVE Counted'
  OBVIOUS
<1>1. ASSUME NEW t \in Thread, Step(t) PROVE Counted'
  <2>1. /\ \A v \in Thread : v # t => pc'[v] = pc[v]
        /\ handling \subseteq handling'
        /\ Begins(t) \/ Puts(t) \/ Continues(t)
    BY <1>1, LineSteps
  <2>2. IsFiniteSet(Appending)'
    <3>1. Appending' \subseteq Appending \union {t}
      BY <2>1 DEF Appending, At
    <3> QED
      BY <3>1, FS_AddElement, FS_Subset DEF Counted
  <2>3. /\ IsFiniteSet(Writers) /\ Cardinality(Writers) \in Nat
        /\ Cardinality(Writers) <= Cardinality(Appending)
        /\ accepted \in Int /\ MaxLine \in Nat
    BY WritersFinite, RingLogAssumption DEF LineTypes
  <2>4. accepted' + Cardinality(Writers') <= MaxLine + Done'
    <3>1. CASE Begins(t)
      <4>1. Writers' \subseteq Writers \union {t}
        BY <2>1 DEF Writers
      <4>2. Cardinality(Writers') <= Cardinality(Writers) + 1 /\ Cardinality(Writers') \in Nat
        <5>1. /\ IsFiniteSet(Writers \union {t})
              /\ \/ Cardinality(Writers \union {t}) = Cardinality(Writers)
                 \/ Cardinality(Writers \union {t}) = Cardinality(Writers) + 1
          BY <2>3, FS_AddElement
        <5>2. /\ IsFiniteSet(Writers')
              /\ Cardinality(Writers') <= Cardinality(Writers \union {t})
          BY <4>1, <5>1, FS_Subset
        <5>3. Cardinality(Writers') \in Nat
          BY <5>2, FS_CardinalityType
        <5> QED
          BY <2>3, <5>1, <5>2, <5>3
      <4>3. accepted' = accepted /\ accepted + Cardinality(Appending) < MaxLine
        BY <3>1 DEF Begins
      <4>4. Done' \in {0, 1} /\ Cardinality(Appending) \in Nat
        BY WritersFinite DEF Done
      <4> QED
        BY <2>3, <4>2, <4>3, <4>4
    <3>2. CASE Puts(t) /\ t \in handling
      <4>1. Writers' \subseteq Writers
        BY <2>1, <3>2 DEF Puts, Writers
      <4>2. Cardinality(Writers') <= Cardinality(Writers) /\ Cardinality(Writers') \in Nat
        BY <2>3, <4>1, FS_Subset, FS_CardinalityType
      <4>3. ~HandlerDone /\ HandlerDone'
        BY <3>2 DEF Puts, HandlerDone, OneHandler, BeforeLine
      <4>4. accepted + Cardinality(Writers) <= MaxLine /\ Done' = 1 /\ accepted' = accepted + 1
        BY <2>3, <3>2, <4>3 DEF Counted, Done, Puts
      <4> QED
        BY <2>3, <4>2, <4>4
    <3>3. CASE Puts(t) /\ t \notin handling
      <4>1. t \in Writers /\ Writers' \subseteq Writers \ {t}
        BY <2>1, <3>3 DEF Puts, Writers, BeforeLine
      <4>2. /\ IsFiniteSet(Writers \ {t})
            /\ Cardinality(Writers \ {t}) = Cardinality(Writers) - 1
        BY <2>3, <4>1, FS_RemoveElement
      <4>3. Cardinality(Writers') <= Cardinality(Writers) - 1 /\ Cardinality(Writers') \in Nat
        BY <4>1, <4>2, FS_Subset, FS_CardinalityType
      <4>4. HandlerDone => HandlerDone'
        BY <2>1, <3>3, RingLogAssumption DEF Puts, HandlerDone, Thread, ThreadTypes
      <4>5. accepted + Cardinality(Writers) <= MaxLine + Done /\ Done' >= Done
            /\ Done \in {0, 1} /\ Done' \in {0, 1} /\ accepted' = accepted + 1
        BY <3>3, <4>4 DEF Counted, Done, Puts
      <4> QED
        BY <2>3, <4>3, <4>5
    <3>4. CASE Continues(t)
      <4>1. Cardinality(Writers') <= Cardinality(Writers) /\ Cardinality(Writers') \in Nat
        BY <2>3, <3>4, FS_Subset, FS_CardinalityType DEF Continues
      <4>2. accepted + Cardinality(Writers) <= MaxLine + Done /\ Done' >= Done
            /\ Done \in {0, 1} /\ Done' \in {0, 1} /\ accepted' = accepted
        BY <3>4 DEF Counted, Done, Continues
      <4> QED
        BY <2>3, <4>1, <4>2
    <3> QED
      BY <2>1, <3>1, <3>2, <3>3, <3>4
  <2> QED
    BY <2>2, <2>4 DEF Counted, Done
<1>2. CASE UNCHANGED vars
  BY <1>2 DEF vars, signalVars, lineVars, Counted, Appending, At, Writers, HandlerDone
<1> QED
  BY <1>1, <1>2, Steps


LEMMA NextTypeInv ==
  TypeInv /\ [Next]_vars => TypeInv'
BY NextCellTypes, NextThreadTypes, NextOneHandler, NextLineTypes, NextPollTypes, NextCounted
   DEF TypeInv

LEMMA InitTypeInv ==
  Init => TypeInv
<1> SUFFICES ASSUME Init PROVE TypeInv
  OBVIOUS
<1>1. Cells = InitCells
  <2>1. DOMAIN cells = 1..InitCells
    BY DEF Init
  <2> QED
    BY <2>1, RingLogAssumption, CountTo DEF Cells, Cell
<1>2. CellTypes
  <2>1. <<>> \in Seq(Line) /\ Len(<<>>) = 0
    BY EmptySeq
  <2>2. \A c \in 1..InitCells : (c % InitCells) + 1 \in 1..InitCells
    BY RingLogAssumption, Remainder
  <2>3. /\ cells = [c \in 1..Cells |-> <<>>] /\ status = [c \in 1..Cells |-> "FREE"]
        /\ next = [c \in 1..Cells |-> (c % InitCells) + 1]
        /\ curr = 1 /\ prst = 1
    BY <1>1 DEF Init
  <2>4. /\ cells \in [1..Cells -> Seq(Line)]
        /\ \A c \in 1..Cells : Len(cells[c]) <= CellLen
    BY <2>1, <2>3, RingLogAssumption
  <2>5. next \in [1..Cells -> 1..Cells]
    BY <1>1, <2>2, <2>3
  <2>6. Cells \in InitCells..MaxCells /\ 1 \in 1..Cells
    BY <1>1, RingLogAssumption
  <2> QED
    BY <2>3, <2>4, <2>5, <2>6 DEF CellTypes
<1>3. ThreadTypes /\ OneHandler
  BY DEF Init, ThreadTypes, Place, OneHandler
<1>4. LineTypes
  BY RingLogAssumption, EmptySeq DEF Init, LineTypes, Line
<1>6. PollTypes
  <2>1. Cells \in Nat \ {0} /\ looked = 1 /\ before = 0 /\ accepted = 0
    BY <1>1, RingLogAssumption DEF Init
  <2> QED
    BY <2>1 DEF PollTypes
<1>5. Counted
  <2>1. Appending = {} /\ Writers = {}
    BY DEF Init, Appending, At, Writers, BeforeLine
  <2>2. ~HandlerDone
    BY DEF Init, HandlerDone
  <2> QED
    BY <2>1, <2>2, FS_EmptySet, RingLogAssumption DEF Init, Counted
<1> QED
  BY <1>2, <1>3, <1>4, <1>5, <1>6 DEF TypeInv

(* However many persisters there are, every variable has its type: the     *)
(* ring is never longer than the memory allows, no buffer holds more lines *)
(* than fit, and the lines keep to their bound.                            *)
THEOREM TypeCorrect ==
  Spec => []TypeOK
<1>1. TypeInv => TypeOK
  <2> SUFFICES ASSUME TypeInv PROVE TypeOK
    OBVIOUS
  <2>1. before \in 0..MaxLine + 1 /\ looked \in 1..Cells
    BY RingLogAssumption DEF TypeInv, LineTypes, PollTypes
  <2> QED
    BY <2>1, Numbered DEF TypeInv, CellTypes, ThreadTypes, LineTypes, Cells, Line, Place,
       TypeOK
<1> QED
  BY <1>1, InitTypeInv, NextTypeInv, PTL DEF Spec

-----------------------------------------------------------------------------
(* The ring, with one persister.                                           *)

(* Only the buffer of the highest rank is followed by the persisted one,   *)
(* which alone has rank 0.                                                 *)
LEMMA AfterLast ==
  ASSUME CellTypes, NEW rank \in [1..Cells -> 0..Cells - 1], Ranked(rank),
         NEW c \in 1..Cells
  PROVE  /\ next[c] = prst <=> rank[c] = Cells - 1
         /\ rank[c] < Cells - 1 => rank[next[c]] = rank[c] + 1
         /\ rank[c] = 0 <=> c = prst
<1>1. Cells \in Nat \ {0}
  BY Numbered
<1>2. next[c] \in 1..Cells /\ prst \in 1..Cells
  BY DEF CellTypes
<1>3. /\ rank[next[c]] = IF rank[c] = Cells - 1 THEN 0 ELSE rank[c] + 1
      /\ rank[prst] = 0
      /\ rank[next[c]] = rank[prst] => next[c] = prst
      /\ rank[c] = rank[prst] => c = prst
  BY <1>2 DEF Ranked
<1>4. rank[c] \in 0..Cells - 1
  OBVIOUS
<1> QED
  BY ONLY <1>1, <1>3, <1>4

(* A filled buffer is left for the next one, which is free.                *)
Leaves ==
  /\ status[curr] = "FREE" /\ status[next[curr]] = "FREE"
  /\ status' = [status EXCEPT ![curr] = "FULL"]
  /\ curr' = next[curr]
  /\ UNCHANGED <<next, prst>>

(* The same when the next one is full.                                     *)
RunsInto ==
  /\ status[curr] = "FREE" /\ status[next[curr]] = "FULL"
  /\ status' = [status EXCEPT ![curr] = "FULL"]
  /\ curr' = next[curr]
  /\ UNCHANGED <<next, prst>>

(* Or a buffer is put in between.                                          *)
Extends(n) ==
  /\ status[curr] = "FREE" /\ status[next[curr]] = "FULL"
  /\ status' \in [1..n + 1 -> {"FREE", "FULL"}]
  /\ \A c \in 1..n : status'[c] = IF c = curr THEN "FULL" ELSE status[c]
  /\ status'[n + 1] = "FREE"
  /\ \A c \in 1..n : next'[c] = IF c = curr THEN n + 1 ELSE next[c]
  /\ next'[n + 1] = next[curr]
  /\ curr' = n + 1 /\ prst' = prst

(* The buffer that was written is given back.                              *)
GivesBack ==
  /\ status[prst] = "FULL" /\ cells'[prst] = <<>>
  /\ status' = [status EXCEPT ![prst] = "FREE"]
  /\ prst' = next[prst]
  /\ UNCHANGED <<next, curr>>

(* After a step the buffers have ranks again, and two of them with lines   *)
(* are in the order in which they were.                                    *)
Follows(rank, r) ==
  \A c, d \in 1..Cells' :
    r[c] < r[d] => cells'[d] = <<>> \/ (c \in 1..Cells /\ d \in 1..Cells /\ rank[c] < rank[d])

Reranked(rank) ==
  \E r \in [1..Cells' -> 0..Cells' - 1] : Ranked(r)' /\ Filled(r)' /\ Follows(rank, r)

(* When the buffer after a free current one is full, the current one is    *)
(* the last of the ring, and all the others are full.                      *)
LEMMA LastIsCurrent ==
  ASSUME CellTypes, NEW rank \in [1..Cells -> 0..Cells - 1], Ranked(rank), Filled(rank),
         status[curr] = "FREE", status[next[curr]] = "FULL"
  PROVE  /\ rank[curr] = Cells - 1 /\ next[curr] = prst
         /\ \A c \in 1..Cells : c # curr => status[c] = "FULL" /\ rank[c] < Cells - 1
<1>1. Cells \in Nat \ {0} /\ curr \in 1..Cells /\ next[curr] \in 1..Cells
  BY Numbered DEF CellTypes
<1>2. \A c \in 1..Cells : status[c] = "FULL" <=> rank[c] < rank[curr]
  BY <1>1 DEF Filled
<1>3. rank[next[curr]] < rank[curr]
  BY <1>1, <1>2
<1>4. \A c \in 1..Cells : rank[c] \in 0..Cells - 1
  OBVIOUS
<1>5. rank[next[curr]] = IF rank[curr] = Cells - 1 THEN 0 ELSE rank[curr] + 1
  BY <1>1 DEF Ranked
<1>6. rank[curr] = Cells - 1
  BY ONLY <1>1, <1>3, <1>4, <1>5
<1>7. next[curr] = prst
  BY <1>1, <1>6, AfterLast
<1>8. \A c \in 1..Cells : c # curr => rank[c] < Cells - 1
  BY <1>1, <1>4, <1>6 DEF Ranked
<1> QED
  BY <1>2, <1>6, <1>7, <1>8

LEMMA LeaveReranks ==
  ASSUME CellTypes, NEW rank \in [1..Cells -> 0..Cells - 1], Ranked(rank), Filled(rank),
         Leaves, Cells' = Cells
  PROVE  Reranked(rank)
<1>1. Ranked(rank) /\ Filled(rank)
  OBVIOUS
<1>2. Cells \in Nat \ {0} /\ curr \in 1..Cells /\ next[curr] \in 1..Cells /\ prst \in 1..Cells
  BY Numbered DEF CellTypes
<1>3. \A c \in 1..Cells : status[c] = "FULL" <=> rank[c] < rank[curr]
  BY <1>1, <1>2 DEF Filled, Leaves
<1>4. \A c \in 1..Cells : status'[c] = IF c = curr THEN "FULL" ELSE status[c]
  BY DEF Leaves, CellTypes
<1>5. /\ \A c \in 1..Cells : rank[c] \in 0..Cells - 1
      /\ \A c \in 1..Cells : rank[c] = rank[curr] => c = curr
  BY <1>1, <1>2 DEF Ranked
<1>6. Ranked(rank)'
  BY <1>1 DEF Ranked, Leaves
<1>7. Filled(rank)'
  <2>1. curr' = next[curr] /\ prst' = prst /\ status[next[curr]] = "FREE"
    BY DEF Leaves
  <2>2. CASE rank[curr] = Cells - 1
    <3>1. next[curr] = prst /\ rank[prst] = 0
      BY <1>1, <1>2, <2>2, AfterLast DEF Ranked
    <3>2. Cells = 1
      <4>1. ~(rank[prst] < rank[curr])
        BY <1>2, <1>3, <2>1, <3>1
      <4> QED
        BY ONLY <1>2, <2>2, <3>1, <4>1
    <3>3. \A c \in 1..Cells : c = curr
      BY <1>2, <3>2
    <3> QED
      BY <1>4, <2>1, <3>1, <3>3 DEF Filled
  <2>3. CASE rank[curr] # Cells - 1
    <3>1. rank[next[curr]] = rank[curr] + 1
      BY <1>1, <1>2, <2>3 DEF Ranked
    <3>2. \A c \in 1..Cells : status'[c] = "FULL" <=> rank[c] < rank[curr] + 1
      <4>1. ASSUME NEW c \in 1..Cells
            PROVE  status'[c] = "FULL" <=> rank[c] < rank[curr] + 1
        <5>1. rank[c] < rank[curr] + 1 <=> rank[c] < rank[curr] \/ c = curr
          BY <1>2, <1>5
        <5> QED
          BY <1>3, <1>4, <5>1
      <4> QED
        BY <4>1
    <3> QED
      BY <2>1, <3>1, <3>2 DEF Filled
  <2> QED
    BY <2>2, <2>3
<1>8. Follows(rank, rank)
  BY DEF Follows
<1> QED
  BY <1>6, <1>7, <1>8 DEF Reranked

LEMMA RunningIntoReranks ==
  ASSUME CellTypes, NEW rank \in [1..Cells -> 0..Cells - 1], Ranked(rank), Filled(rank),
         RunsInto, Cells' = Cells
  PROVE  Reranked(rank)
<1>1. Ranked(rank) /\ Filled(rank)
  OBVIOUS
<1>2. /\ next[curr] = prst
      /\ \A c \in 1..Cells : c # curr => status[c] = "FULL"
  BY <1>1, LastIsCurrent DEF RunsInto
<1>3. Ranked(rank)'
  BY <1>1 DEF Ranked, RunsInto
<1>4. Filled(rank)'
  BY <1>2 DEF Filled, RunsInto, CellTypes
<1>5. Follows(rank, rank)
  BY DEF Follows
<1> QED
  BY <1>3, <1>4, <1>5 DEF Reranked

LEMMA ExtensionReranks ==
  ASSUME CellTypes, NEW rank \in [1..Cells -> 0..Cells - 1], Ranked(rank), Filled(rank),
         Extends(Cells), Cells' = Cells + 1, cells'[Cells + 1] = <<>>
  PROVE  Reranked(rank)
<1> DEFINE n == Cells
<1>1. Ranked(rank) /\ Filled(rank) /\ rank \in [1..n -> 0..n - 1] /\ cells'[n + 1] = <<>>
  OBVIOUS
<1>2. n \in Nat \ {0} /\ curr \in 1..n /\ prst \in 1..n
  BY Numbered DEF CellTypes
<1>3. /\ rank[curr] = n - 1 /\ next[curr] = prst
      /\ \A c \in 1..n : c # curr => status[c] = "FULL" /\ rank[c] < n - 1
  BY <1>1, LastIsCurrent DEF Extends
<1>4. /\ \A c \in 1..n : next[c] \in 1..n /\ rank[c] \in 0..n - 1
      /\ \A c \in 1..n : rank[next[c]] = IF rank[c] = n - 1 THEN 0 ELSE rank[c] + 1
      /\ \A c, d \in 1..n : rank[c] = rank[d] => c = d
      /\ rank[prst] = 0
  BY <1>1 DEF CellTypes, Ranked
<1>5. /\ \A c \in 1..n : status'[c] = IF c = curr THEN "FULL" ELSE status[c]
      /\ status'[n + 1] = "FREE"
      /\ \A c \in 1..n : next'[c] = IF c = curr THEN n + 1 ELSE next[c]
      /\ next'[n + 1] = prst
      /\ curr' = n + 1 /\ prst' = prst /\ Cells' = n + 1
  BY <1>3 DEF Extends
<1> HIDE DEF n
<1>6. /\ \A c \in 1..n : c \in 1..n + 1 /\ c # n + 1
      /\ n + 1 \in 1..n + 1
      /\ \A c \in 1..n + 1 : c \in 1..n \/ c = n + 1
  BY ONLY <1>2
<1>7. PICK longer \in [1..n + 1 -> 0..n] : /\ \A c \in 1..n : longer[c] = rank[c]
                                          /\ longer[n + 1] = n
  <2> DEFINE l == [c \in 1..n + 1 |-> IF c = n + 1 THEN n ELSE rank[c]]
  <2>1. /\ \A c \in 1..n : l[c] = rank[c]
        /\ l[n + 1] = n
    BY ONLY <1>6
  <2>2. l \in [1..n + 1 -> 0..n]
    BY ONLY <1>2, <1>4, <1>6
  <2> HIDE DEF l
  <2> QED
    BY ONLY <2>1, <2>2
<1>8. \A c, d \in 1..n + 1 : longer[c] = longer[d] => c = d
  <2>1. \A c \in 1..n : longer[c] # n
    BY ONLY <1>2, <1>4, <1>7
  <2> QED
    BY ONLY <2>1, <1>4, <1>6, <1>7
<1>9. longer[prst] = 0
  BY ONLY <1>2, <1>4, <1>7
<1>10. ASSUME NEW c \in 1..n + 1
       PROVE  longer[next'[c]] = IF longer[c] = n THEN 0 ELSE longer[c] + 1
  <2>1. CASE c = n + 1
    BY ONLY <2>1, <1>5, <1>7, <1>9
  <2>2. CASE c = curr
    <3>1. next'[c] = n + 1 /\ longer[c] = n - 1
      BY ONLY <2>2, <1>2, <1>3, <1>5, <1>7
    <3> QED
      BY ONLY <3>1, <1>2, <1>7
  <2>3. CASE c \in 1..n /\ c # curr
    <3>1. /\ next'[c] = next[c] /\ next[c] \in 1..n
          /\ longer[c] = rank[c] /\ longer[next[c]] = rank[next[c]]
      BY ONLY <2>3, <1>4, <1>5, <1>7
    <3>2. rank[c] < n - 1 /\ rank[c] \in 0..n - 1
      BY ONLY <2>3, <1>3, <1>4
    <3> QED
      BY ONLY <2>3, <3>1, <3>2, <1>2, <1>4
  <2> QED
    BY ONLY <2>1, <2>2, <2>3, <1>6
<1>11. ASSUME NEW c \in 1..n + 1
       PROVE  status'[c] = "FULL" <=> longer[c] < n
  <2>1. CASE c = n + 1
    BY ONLY <2>1, <1>2, <1>5, <1>7
  <2>2. CASE c \in 1..n
    <3>1. status'[c] = "FULL"
      BY ONLY <2>2, <1>3, <1>5
    <3>2. longer[c] < n
      BY ONLY <2>2, <1>2, <1>4, <1>7
    <3> QED
      BY ONLY <3>1, <3>2
  <2> QED
    BY ONLY <2>1, <2>2, <1>6
<1>12. Ranked(longer)'
  <2>1. (Cells - 1)' = n
    BY ONLY <1>2, <1>5
  <2> QED
    BY <2>1, <1>5, <1>8, <1>9, <1>10 DEF Ranked
<1>13. Filled(longer)'
  BY <1>5, <1>7, <1>11 DEF Filled
<1>14. longer \in [1..Cells' -> 0..Cells' - 1]
  <2>1. Cells' = n + 1
    BY ONLY <1>5
  <2>2. Cells' - 1 = n
    BY ONLY <1>2, <2>1
  <2>3. longer \in [1..n + 1 -> 0..n]
    OBVIOUS
  <2> QED
    BY ONLY <2>1, <2>2, <2>3, Zenon
<1>15. ASSUME NEW c \in 1..n + 1, NEW d \in 1..n + 1, longer[c] < longer[d]
       PROVE  cells'[d] = <<>> \/ (c \in 1..n /\ d \in 1..n /\ rank[c] < rank[d])
  <2>1. CASE d = n + 1
    BY ONLY <2>1, <1>1
  <2>2. CASE d \in 1..n
    <3>1. longer[d] \in 0..n - 1
      BY ONLY <2>2, <1>4, <1>7
    <3>2. c # n + 1
      BY ONLY <3>1, <1>2, <1>7, <1>15
    <3> QED
      BY ONLY <2>2, <3>2, <1>6, <1>7, <1>15
  <2> QED
    BY ONLY <2>1, <2>2, <1>6
<1>16. Follows(rank, longer)
  <2>1. Cells' = n + 1
    BY <1>5
  <2> QED
    BY <2>1, <1>15 DEF Follows, n
<1> QED
  BY <1>12, <1>13, <1>14, <1>16 DEF Reranked

(* One rank down, around the ring.                                         *)
Back(r, n) == IF r = 0 THEN n - 1 ELSE r - 1

LEMMA BackFacts ==
  ASSUME NEW n \in Nat \ {0}, NEW r \in 0..n - 1, NEW s \in 0..n - 1
  PROVE  /\ Back(r, n) \in 0..n - 1
         /\ Back(r, n) = Back(s, n) => r = s
         /\ r = 0 => Back(r, n) = n - 1
         /\ r # 0 => Back(r, n) < n - 1
         /\ r # 0 /\ s # 0 => (Back(r, n) < Back(s, n) <=> r < s)
BY DEF Back

LEMMA GivingBackReranks ==
  ASSUME CellTypes, NEW rank \in [1..Cells -> 0..Cells - 1], Ranked(rank), Filled(rank),
         GivesBack, Cells' = Cells
  PROVE  Reranked(rank)
<1> DEFINE n == Cells
<1>1. Ranked(rank) /\ Filled(rank) /\ rank \in [1..n -> 0..n - 1]
  OBVIOUS
<1>2. n \in Nat \ {0} /\ curr \in 1..n /\ prst \in 1..n
  BY Numbered DEF CellTypes
<1>3. /\ \A c \in 1..n : next[c] \in 1..n /\ rank[c] \in 0..n - 1
      /\ \A c \in 1..n : rank[next[c]] = IF rank[c] = n - 1 THEN 0 ELSE rank[c] + 1
      /\ \A c, d \in 1..n : rank[c] = rank[d] => c = d
      /\ rank[prst] = 0
  BY <1>1 DEF CellTypes, Ranked
<1>4. /\ \A c \in 1..n : status'[c] = IF c = prst THEN "FREE" ELSE status[c]
      /\ status[prst] = "FULL"
      /\ next' = next /\ curr' = curr /\ prst' = next[prst] /\ Cells' = n
      /\ cells'[prst] = <<>>
  BY DEF GivesBack, CellTypes
<1>5. \/ \A c \in 1..n : status[c] = "FULL" <=> rank[c] < rank[curr]
      \/ curr = prst /\ \A c \in 1..n : status[c] = "FULL"
  BY <1>1 DEF Filled
<1> HIDE DEF n
<1>6. PICK shifted \in [1..n -> 0..n - 1] : \A c \in 1..n : shifted[c] = Back(rank[c], n)
  <2> DEFINE s == [c \in 1..n |-> Back(rank[c], n)]
  <2>1. \A c \in 1..n : s[c] = Back(rank[c], n)
    OBVIOUS
  <2>2. s \in [1..n -> 0..n - 1]
    <3>1. \A c \in 1..n : Back(rank[c], n) \in 0..n - 1
      BY ONLY <1>2, <1>3, BackFacts
    <3> QED
      BY ONLY <3>1
  <2> HIDE DEF s
  <2> QED
    BY ONLY <2>1, <2>2
<1>7. ASSUME NEW c \in 1..n, NEW d \in 1..n, shifted[c] = shifted[d] PROVE c = d
  <2>1. Back(rank[c], n) = Back(rank[d], n)
    BY ONLY <1>6, <1>7
  <2>2. rank[c] = rank[d]
    <3> DEFINE r == rank[c]
               q == rank[d]
    <3>1. n \in Nat \ {0} /\ r \in 0..n - 1 /\ q \in 0..n - 1
      BY ONLY <1>2, <1>3
    <3> HIDE DEF r, q
    <3>2. Back(r, n) = Back(q, n) => r = q
      BY ONLY <3>1, BackFacts
    <3> QED
      BY <2>1, <3>2 DEF r, q
  <2> QED
    BY ONLY <2>2, <1>3
<1>8. ASSUME NEW c \in 1..n
      PROVE  shifted[next[c]] = IF shifted[c] = n - 1 THEN 0 ELSE shifted[c] + 1
  <2>1. /\ rank[c] \in 0..n - 1 /\ next[c] \in 1..n
        /\ rank[next[c]] = IF rank[c] = n - 1 THEN 0 ELSE rank[c] + 1
        /\ shifted[c] = Back(rank[c], n) /\ shifted[next[c]] = Back(rank[next[c]], n)
    BY ONLY <1>3, <1>6
  <2>2. n \in Nat \ {0}
    BY ONLY <1>2
  <2> QED
    BY ONLY <2>1, <2>2 DEF Back
<1>9. shifted[next[prst]] = 0
  <2>1. shifted[prst] = n - 1
    BY ONLY <1>2, <1>3, <1>6 DEF Back
  <2> QED
    BY ONLY <2>1, <1>2, <1>8
<1>10. ASSUME NEW c \in 1..n
       PROVE  status'[c] = "FULL" <=> shifted[c] < shifted[curr]
  <2>1. /\ n \in Nat \ {0} /\ rank[c] \in 0..n - 1 /\ rank[curr] \in 0..n - 1
        /\ shifted[c] = Back(rank[c], n) /\ shifted[curr] = Back(rank[curr], n)
    BY ONLY <1>2, <1>3, <1>6
  <2>2. /\ rank[c] = 0 <=> c = prst
        /\ rank[curr] = 0 <=> curr = prst
    BY ONLY <1>2, <1>3
  <2> DEFINE r == rank[c]
             q == rank[curr]
  <2>0. /\ r = 0 => Back(r, n) = n - 1
        /\ r # 0 => Back(r, n) < n - 1
        /\ q = 0 => Back(q, n) = n - 1
        /\ Back(q, n) \in 0..n - 1
        /\ r # 0 /\ q # 0 => (Back(r, n) < Back(q, n) <=> r < q)
    <3> HIDE DEF r, q
    <3>1. n \in Nat \ {0} /\ r \in 0..n - 1 /\ q \in 0..n - 1
      BY <2>1 DEF r, q
    <3> QED
      BY ONLY <3>1, BackFacts
  <2>3. CASE c = prst
    <3>1. status'[c] # "FULL"
      BY ONLY <2>3, <1>2, <1>4
    <3>2. ~(shifted[c] < shifted[curr])
      <4>1. shifted[c] = n - 1 /\ shifted[curr] \in 0..n - 1
        BY ONLY <2>0, <2>1, <2>2, <2>3
      <4> QED
        BY ONLY <2>1, <4>1
    <3> QED
      BY ONLY <3>1, <3>2
  <2>4. CASE c # prst /\ \A d \in 1..n : status[d] = "FULL" <=> rank[d] < rank[curr]
    <3>1. status'[c] = "FULL" <=> rank[c] < rank[curr]
      BY ONLY <2>4, <1>4
    <3>2. rank[prst] < rank[curr]
      BY ONLY <2>4, <1>2, <1>4
    <3>3. rank[c] # 0 /\ rank[curr] # 0
      BY ONLY <3>2, <2>1, <2>2, <2>4, <1>3
    <3> QED
      BY ONLY <3>1, <3>3, <2>0, <2>1
  <2>5. CASE c # prst /\ curr = prst /\ \A d \in 1..n : status[d] = "FULL"
    <3>1. status'[c] = "FULL"
      BY ONLY <2>5, <1>4
    <3>2. shifted[c] < n - 1 /\ shifted[curr] = n - 1
      BY ONLY <2>0, <2>1, <2>2, <2>5
    <3> QED
      BY ONLY <3>1, <3>2
  <2> QED
    BY ONLY <2>3, <2>4, <2>5, <1>5
<1>11. Ranked(shifted)'
  BY <1>4, <1>7, <1>8, <1>9 DEF Ranked
<1>12. Filled(shifted)'
  BY <1>4, <1>10 DEF Filled
<1>13. ASSUME NEW c \in 1..n, NEW d \in 1..n, shifted[c] < shifted[d]
       PROVE  cells'[d] = <<>> \/ rank[c] < rank[d]
  <2>1. CASE d = prst
    BY ONLY <2>1, <1>4
  <2>2. CASE d # prst
    <3> DEFINE r == rank[c]
               q == rank[d]
    <3>1. n \in Nat \ {0} /\ r \in 0..n - 1 /\ q \in 0..n - 1 /\ q # 0
      BY ONLY <2>2, <1>2, <1>3
    <3>2. Back(r, n) < Back(q, n)
      BY ONLY <1>6, <1>13
    <3> HIDE DEF r, q
    <3>3. r < q
      BY ONLY <3>1, <3>2, BackFacts
    <3> QED
      BY ONLY <3>3 DEF r, q
  <2> QED
    BY ONLY <2>1, <2>2
<1>14. Follows(rank, shifted)
  BY <1>4, <1>13 DEF Follows, n
<1> QED
  BY <1>4, <1>11, <1>12, <1>14 DEF Reranked, n

LEMMA NextRanks ==
  ASSUME RingInv, [Next]_vars,
         NEW rank \in [1..Cells -> 0..Cells - 1], Ranked(rank), Filled(rank)
  PROVE  Reranked(rank)
<1>1. RingChange /\ CellTypes /\ CellTypes'
  BY RingChanges, NextCellTypes DEF RingInv, TypeInv
<1>2. DOMAIN cells = 1..Cells /\ Cells \in Nat \ {0}
  BY <1>1, Numbered DEF Cell
<1>3. curr \in 1..Cells /\ prst \in 1..Cells /\ next[curr] \in 1..Cells
  BY <1>1 DEF CellTypes
<1>4. ASSUME UNCHANGED <<status, next, curr, prst>>, DOMAIN cells' = DOMAIN cells
      PROVE  Reranked(rank)
  <2>1. Cells' = Cells
    BY <1>4 DEF Cells, Cell
  <2>2. Ranked(rank)' /\ Filled(rank)'
    BY <1>4, <2>1 DEF Ranked, Filled
  <2>3. Follows(rank, rank)
    BY <2>1 DEF Follows
  <2> QED
    BY <2>1, <2>2, <2>3 DEF Reranked
<1>5. ASSUME NEW t \in Thread, AppendHere(t) \/ Retest(t) PROVE Reranked(rank)
  BY <1>4, <1>5 DEF AppendHere, Retest, PutLine
<1>6. CASE UNCHANGED bufVars
  BY <1>4, <1>6 DEF bufVars
<1>7. ASSUME NEW t \in Thread, UseNext(t) PROVE Reranked(rank)
  BY <1>1, <1>7, LeaveReranks DEF UseNext, CurrIsFilled, Leaves, Cells, Cell
<1>8. ASSUME NEW t \in Thread, GiveUp(t) PROVE Reranked(rank)
  BY <1>1, <1>8, RunningIntoReranks DEF GiveUp, CurrIsFilled, RunsInto, Cells, Cell
<1>9. ASSUME NEW t \in Thread, AddCell(t) PROVE Reranked(rank)
  <2>1. /\ Cells' = Cells + 1 /\ curr' = Cells + 1 /\ prst' = prst
        /\ \A c \in 1..Cells :
             /\ status'[c] = IF c = curr THEN "FULL" ELSE status[c]
             /\ next'[c] = IF c = curr THEN Cells + 1 ELSE next[c]
        /\ cells'[Cells + 1] = <<>> /\ status'[Cells + 1] = "FREE"
        /\ next'[Cells + 1] = next[curr]
    BY <1>1, <1>9, ExtendedCells
  <2>2. status[curr] = "FREE" /\ status[next[curr]] = "FULL"
    BY <1>9 DEF AddCell, CurrIsFilled
  <2>3. status' \in [1..Cells + 1 -> {"FREE", "FULL"}]
    <3>1. status' \in [1..Cells' -> {"FREE", "FULL"}]
      BY <1>1 DEF CellTypes
    <3> QED
      BY ONLY <2>1, <3>1
  <2>4. Extends(Cells)
    BY <2>1, <2>2, <2>3 DEF Extends
  <2> QED
    BY <1>1, <2>1, <2>4, ExtensionReranks
<1>10. ASSUME NEW p \in Persister, TakePartial(p) PROVE Reranked(rank)
  <2>1. curr = prst
    BY <1>3, <1>10 DEF TakePartial, RingInv, FreeIsEmpty
  <2>2. status[next[curr]] = "FREE"
    <3>1. status[next[curr]] # "FULL"
      <4>1. rank[curr] = 0 /\ rank[next[curr]] >= 0
        BY <1>3, <2>1 DEF Ranked
      <4>2. status[curr] # "FULL"
        BY <1>10, <2>1 DEF TakePartial
      <4> QED
        BY <1>3, <4>1, <4>2 DEF Filled
    <3> QED
      BY <1>1, <1>3, <3>1 DEF CellTypes
  <2>3. Leaves /\ Cells' = Cells
    BY <1>10, <2>1, <2>2 DEF TakePartial, Leaves, Cells, Cell
  <2> QED
    BY <1>1, <2>3, LeaveReranks
<1>11. ASSUME NEW p \in Persister, Clear(p) PROVE Reranked(rank)
  <2>1. status[prst] = "FULL"
    BY <1>11 DEF Clear, RingInv, BeingWritten
  <2>2. GivesBack /\ Cells' = Cells
    BY <1>2, <1>3, <1>11, <2>1 DEF Clear, GivesBack, Cells, Cell
  <2> QED
    BY <1>1, <2>2, GivingBackReranks
<1> QED
  BY <1>1, <1>5, <1>6, <1>7, <1>8, <1>9, <1>10, <1>11 DEF RingChange

LEMMA NextRing ==
  ASSUME RingInv, [Next]_vars
  PROVE  Ring'
BY NextRanks DEF RingInv, Ring, Reranked

LEMMA NextFreeIsEmpty ==
  ASSUME RingInv, [Next]_vars
  PROVE  FreeIsEmpty'
<1>1. RingChange /\ CellTypes /\ CellTypes' /\ FreeIsEmpty
  BY RingChanges, NextCellTypes DEF RingInv, TypeInv
<1>2. DOMAIN cells = 1..Cells /\ Cells \in Nat \ {0} /\ curr \in 1..Cells
  BY <1>1, Numbered DEF Cell, CellTypes
<1>3. DOMAIN cells' = 1..Cells'
  BY <1>1 DEF CellTypes
<1>4. ASSUME NEW t \in Thread, AppendHere(t) \/ Retest(t) PROVE FreeIsEmpty'
  BY <1>1, <1>2, <1>4 DEF AppendHere, Retest, PutLine, FreeIsEmpty, CellTypes, Cells, Cell
<1>5. ASSUME NEW t \in Thread, UseNext(t) \/ GiveUp(t) PROVE FreeIsEmpty'
  BY <1>1, <1>2, <1>5 DEF UseNext, GiveUp, CurrIsFilled, FreeIsEmpty, CellTypes, Cells, Cell
<1>6. ASSUME NEW t \in Thread, AddCell(t) PROVE FreeIsEmpty'
  <2>1. /\ Cells' = Cells + 1 /\ curr' = Cells + 1
        /\ \A c \in 1..Cells : /\ cells'[c] = cells[c]
                               /\ status'[c] = IF c = curr THEN "FULL" ELSE status[c]
    BY <1>1, <1>6, ExtendedCells
  <2>2. \A c \in 1..Cells' : c # Cells + 1 => c \in 1..Cells
    BY <1>2, <2>1
  <2> QED
    BY <1>1, <2>1, <2>2 DEF FreeIsEmpty
<1>7. ASSUME NEW p \in Persister, TakePartial(p) PROVE FreeIsEmpty'
  BY <1>1, <1>2, <1>7 DEF TakePartial, FreeIsEmpty, CellTypes, Cells, Cell
<1>8. ASSUME NEW p \in Persister, Clear(p) PROVE FreeIsEmpty'
  BY <1>1, <1>2, <1>8 DEF Clear, FreeIsEmpty, CellTypes, Cells, Cell
<1>9. CASE UNCHANGED bufVars
  BY <1>1, <1>9 DEF bufVars, FreeIsEmpty, Cells, Cell
<1> QED
  BY <1>1, <1>4, <1>5, <1>6, <1>7, <1>8, <1>9 DEF RingChange

LEMMA NextBeingWritten ==
  ASSUME OnePersister, RingInv, [Next]_vars
  PROVE  BeingWritten'
<1> DEFINE Middle == {"file", "write", "clear"}
<1>1. /\ CellTypes /\ CellTypes' /\ ThreadTypes /\ BeingWritten /\ FreeIsEmpty
      /\ prst \in 1..Cells /\ curr \in 1..Cells
  BY NextCellTypes DEF RingInv, TypeInv, CellTypes
<1>2. SUFFICES ASSUME NEW p \in Persister, pc'[p] \in Middle PROVE status'[prst'] = "FULL"
  BY DEF BeingWritten
<1>3. p \in Thread
  BY DEF Thread
<1>4. ASSUME pc[p] \in Middle, prst' = prst, status[prst] = "FULL" => status'[prst] = "FULL"
      PROVE  status'[prst'] = "FULL"
  BY <1>1, <1>4 DEF BeingWritten
<1>5. ASSUME NEW t \in Thread, Step(t) PROVE status'[prst'] = "FULL"
  <2> USE DEF Goto, ThreadTypes
  <2>1. CASE LogLine(t) \/ Handler(t) \/ Reset(t) \/ Refuse(t) \/ Interrupt(t)
             \/ AppendHere(t) \/ Retest(t)
    <3>1. pc[p] \in Middle /\ prst' = prst /\ status' = status
      BY <1>1, <1>2, <1>3, <2>1 DEF LogLine, Handler, Warn, StartAppend, LogStop, is_empty,
         OnlyPolls, LoadCurr, TestCurr, LoadPrst, TestPrst, Reset, Refuse, Interrupt, AppendHere,
         Retest, bufVars
    <3> QED
      BY <1>4, <3>1
  <2>2. CASE UseNext(t) \/ GiveUp(t)
    <3>1. pc[p] \in Middle /\ prst' = prst /\ status' = [status EXCEPT ![curr] = "FULL"]
      BY <1>1, <1>2, <1>3, <2>2 DEF UseNext, GiveUp, CurrIsFilled
    <3> QED
      BY <1>1, <1>4, <3>1 DEF CellTypes
  <2>3. CASE AddCell(t)
    <3>1. prst' = prst /\ status'[prst] = IF prst = curr THEN "FULL" ELSE status[prst]
      BY <1>1, <2>3, ExtendedCells
    <3>2. pc[p] \in Middle
      BY <1>1, <1>2, <1>3, <2>3 DEF AddCell, CurrIsFilled
    <3> QED
      BY <1>4, <3>1, <3>2
  <2>4. CASE t \in Persister /\ Persist(t)
    <3>1. t = p
      BY <2>4 DEF OnePersister
    <3>2. CASE Wait(p) \/ NothingThere(p) \/ FileFails(p) \/ Clear(p)
      BY <1>1, <1>2, <1>3, <3>2 DEF Wait, NothingThere, FileFails, Clear
    <3>3. CASE TakeFull(p)
      BY <3>3 DEF TakeFull, bufVars
    <3>4. CASE FileOpen(p) \/ Write(p)
      <4>1. pc[p] \in Middle /\ prst' = prst /\ status' = status
        BY <3>4 DEF FileOpen, Write, bufVars
      <4> QED
        BY <1>4, <4>1
    <3>5. CASE TakePartial(p)
      <4>1. curr = prst
        BY <1>1, <3>5 DEF TakePartial, FreeIsEmpty
      <4> QED
        BY <1>1, <3>5, <4>1 DEF TakePartial, CellTypes
    <3> QED
      BY <2>4, <3>1, <3>2, <3>3, <3>4, <3>5 DEF Persist
  <2> QED
    BY <1>5, <2>1, <2>2, <2>3, <2>4 DEF Step, TryAppend
<1>6. CASE UNCHANGED vars
  BY <1>2, <1>4, <1>6 DEF vars, bufVars
<1> QED
  BY <1>5, <1>6, Steps

LEMMA InitRingInv ==
  Init => RingInv
<1> SUFFICES ASSUME Init PROVE RingInv
  OBVIOUS
<1> DEFINE n == InitCells
<1>1. Cells = n /\ n \in Nat \ {0}
  <2>1. DOMAIN cells = 1..n
    BY DEF Init
  <2> QED
    BY <2>1, RingLogAssumption, CountTo DEF Cells, Cell
<1>2. PICK rank \in [1..n -> 0..n - 1] : \A c \in 1..n : rank[c] = c - 1
  <2> DEFINE r == [c \in 1..n |-> c - 1]
  <2>1. r \in [1..n -> 0..n - 1] /\ \A c \in 1..n : r[c] = c - 1
    BY <1>1
  <2> HIDE DEF r
  <2> QED
    BY ONLY <2>1
<1>3. \A c \in 1..n : next[c] = IF c = n THEN 1 ELSE c + 1
  <2>1. \A c \in 1..n : next[c] = (c % n) + 1
    BY DEF Init
  <2>2. \A c \in 1..n : c % n = IF c = n THEN 0 ELSE c
    BY <1>1, Remainder
  <2> QED
    BY ONLY <2>1, <2>2, <1>1
<1>4. Ranked(rank)
  <2>1. \A c, d \in 1..n : rank[c] = rank[d] => c = d
    BY ONLY <1>1, <1>2
  <2>2. prst = 1 /\ rank[1] = 0
    BY <1>1, <1>2 DEF Init
  <2>3. \A c \in 1..n : rank[next[c]] = IF rank[c] = n - 1 THEN 0 ELSE rank[c] + 1
    BY ONLY <1>1, <1>2, <1>3
  <2> QED
    BY <1>1, <2>1, <2>2, <2>3 DEF Ranked
<1>5. Filled(rank)
  <2>1. curr = 1 /\ rank[1] = 0 /\ \A c \in 1..n : rank[c] >= 0 /\ status[c] = "FREE"
    BY <1>1, <1>2 DEF Init
  <2> QED
    BY <1>1, <2>1 DEF Filled
<1>6. FreeIsEmpty
  BY <1>1 DEF Init, FreeIsEmpty
<1>7. BeingWritten
  BY DEF Init, BeingWritten, Thread
<1> QED
  BY <1>1, <1>4, <1>5, <1>6, <1>7, InitTypeInv DEF RingInv, Ring

LEMMA Invariance ==
  ASSUME OnePersister
  PROVE  Spec => []RingInv
<1>1. RingInv /\ [Next]_vars => RingInv'
  BY NextTypeInv, NextRing, NextFreeIsEmpty, NextBeingWritten DEF RingInv
<1> QED
  BY <1>1, InitRingInv, PTL DEF Spec

(* With one persister, what try_append concludes from a status it reads is *)
(* so: a full current buffer is the one that is persisted, and a full      *)
(* buffer after a free current one is too, so that nothing is skipped when *)
(* the ring is extended between the two.                                   *)
THEOREM FullIsPersisted ==
  ASSUME OnePersister
  PROVE  Spec => []FullMeansPersisting
<1>1. RingInv => FullMeansPersisting
  <2> SUFFICES ASSUME RingInv PROVE FullMeansPersisting
    OBVIOUS
  <2>1. PICK rank \in [1..Cells -> 0..Cells - 1] : Ranked(rank) /\ Filled(rank)
    BY DEF RingInv, Ring
  <2>2. curr \in 1..Cells /\ CellTypes /\ rank[curr] \in 0..Cells - 1
    BY DEF RingInv, TypeInv, CellTypes
  <2>3. status[curr] = "FULL" => curr = prst
    <3>1. ~(rank[curr] < rank[curr])
      BY <2>2, Numbered
    <3> QED
      BY <2>1, <2>2, <3>1 DEF Filled
  <2>4. status[curr] = "FREE" /\ status[next[curr]] = "FULL" => next[curr] = prst
    BY <2>1, <2>2, LastIsCurrent
  <2> QED
    BY <2>3, <2>4 DEF FullMeansPersisting
<1> QED
  BY <1>1, Invariance, PTL

(* And the assertion of the persister holds: a buffer it finds lines in    *)
(* that is not full is the current one.                                    *)
THEOREM PartialOneIsCurrent ==
  ASSUME OnePersister
  PROVE  Spec => []PartialIsCurrent
<1>1. RingInv => PartialIsCurrent
  BY DEF RingInv, TypeInv, CellTypes, FreeIsEmpty, PartialIsCurrent
<1> QED
  BY <1>1, Invariance, PTL

-----------------------------------------------------------------------------
(* Lines in sequences: the order of RingLog's Ascending and Precedes, with *)
(* the set L of the exempt lines as a parameter.                           *)

In(s, l) == \E i \in DOMAIN s : s[i] = l

Rises(s, L) == \A i, j \in DOMAIN s : i < j => s[i] < s[j] \/ s[i] \in L \/ s[j] \in L

Before(s, u, L) ==
  \A i \in DOMAIN s, j \in DOMAIN u : s[i] < u[j] \/ s[i] \in L \/ u[j] \in L

Below(s, x, L) == \A i \in DOMAIN s : s[i] < x \/ s[i] \in L

LEMMA Appended ==
  ASSUME NEW s \in Seq(Line), NEW x \in Line
  PROVE  /\ DOMAIN Append(s, x) = 1..Len(s) + 1 /\ DOMAIN s = 1..Len(s) /\ Len(s) \in Nat
         /\ \A i \in 1..Len(s) : Append(s, x)[i] = s[i]
         /\ Append(s, x)[Len(s) + 1] = x
BY AppendProperties, LenProperties

LEMMA Joined ==
  ASSUME NEW s \in Seq(Line), NEW u \in Seq(Line)
  PROVE  /\ DOMAIN (s \o u) = 1..Len(s) + Len(u)
         /\ DOMAIN s = 1..Len(s) /\ Len(s) \in Nat
         /\ DOMAIN u = 1..Len(u) /\ Len(u) \in Nat
         /\ \A i \in 1..Len(s) : (s \o u)[i] = s[i]
         /\ \A i \in 1..Len(u) : (s \o u)[Len(s) + i] = u[i]
BY ConcatProperties, LenProperties

LEMMA AppendedIn ==
  ASSUME NEW s \in Seq(Line), NEW x \in Line, NEW l
  PROVE  In(Append(s, x), l) <=> In(s, l) \/ l = x
<1> DEFINE n == Len(s)
           a == Append(s, x)
<1>1. /\ DOMAIN a = 1..n + 1 /\ DOMAIN s = 1..n /\ n \in Nat
      /\ \A i \in 1..n : a[i] = s[i]
      /\ a[n + 1] = x
  BY Appended
<1> HIDE DEF n, a
<1>2. In(a, l) <=> In(s, l) \/ l = x
  BY ONLY <1>1 DEF In
<1> QED
  BY <1>2 DEF a

LEMMA JoinedIn ==
  ASSUME NEW s \in Seq(Line), NEW u \in Seq(Line), NEW l
  PROVE  In(s \o u, l) <=> In(s, l) \/ In(u, l)
<1> DEFINE n == Len(s)
           m == Len(u)
           a == s \o u
<1>1. /\ DOMAIN a = 1..n + m /\ DOMAIN s = 1..n /\ DOMAIN u = 1..m /\ n \in Nat /\ m \in Nat
      /\ \A i \in 1..n : a[i] = s[i]
      /\ \A i \in 1..m : a[n + i] = u[i]
  BY Joined
<1> HIDE DEF n, m, a
<1>2. ASSUME NEW i \in 1..n + m PROVE i \in 1..n \/ (i - n \in 1..m /\ n + (i - n) = i)
  BY ONLY <1>1
<1>3. ASSUME NEW i \in 1..m PROVE n + i \in 1..n + m
  BY ONLY <1>1
<1>4. ASSUME NEW i \in 1..n PROVE i \in 1..n + m
  BY ONLY <1>1
<1>5. In(a, l) => In(s, l) \/ In(u, l)
  BY ONLY <1>1, <1>2 DEF In
<1>6. In(s, l) \/ In(u, l) => In(a, l)
  BY ONLY <1>1, <1>3, <1>4 DEF In
<1> QED
  BY <1>5, <1>6 DEF a

LEMMA RisingAppend ==
  ASSUME NEW s \in Seq(Line), NEW x \in Line, NEW L, NEW M, L \subseteq M,
         Rises(s, L), x \in M \/ Below(s, x, L)
  PROVE  Rises(Append(s, x), M)
<1> DEFINE n == Len(s)
           a == Append(s, x)
<1>1. /\ DOMAIN a = 1..n + 1 /\ DOMAIN s = 1..n /\ n \in Nat
      /\ \A i \in 1..n : a[i] = s[i]
      /\ a[n + 1] = x
  BY Appended
<1> HIDE DEF n, a
<1>2. ASSUME NEW i \in 1..n + 1, NEW j \in 1..n + 1, i < j
      PROVE  a[i] < a[j] \/ a[i] \in M \/ a[j] \in M
  <2>1. i \in 1..n /\ (j \in 1..n \/ j = n + 1)
    BY ONLY <1>1, <1>2
  <2>2. CASE j \in 1..n
    BY <1>1, <1>2, <2>1, <2>2 DEF Rises
  <2>3. CASE j = n + 1
    BY <1>1, <2>1, <2>3 DEF Below
  <2> QED
    BY <2>1, <2>2, <2>3
<1> QED
  BY <1>1, <1>2 DEF Rises, a

LEMMA BeforeAppend ==
  ASSUME NEW s \in Seq(Line), NEW u \in Seq(Line), NEW x \in Line, NEW L,
         NEW M, L \subseteq M,
         Before(s, u, L), x \in M \/ Below(s, x, L)
  PROVE  Before(s, Append(u, x), M)
<1> DEFINE n == Len(u)
           a == Append(u, x)
<1>1. /\ DOMAIN a = 1..n + 1 /\ DOMAIN u = 1..n /\ n \in Nat
      /\ \A i \in 1..n : a[i] = u[i]
      /\ a[n + 1] = x
  BY Appended
<1> HIDE DEF n, a
<1>2. ASSUME NEW i \in DOMAIN s, NEW j \in 1..n + 1
      PROVE  s[i] < a[j] \/ s[i] \in M \/ a[j] \in M
  <2>1. j \in 1..n \/ j = n + 1
    BY ONLY <1>1
  <2>2. CASE j \in 1..n
    BY <1>1, <2>2 DEF Before
  <2>3. CASE j = n + 1
    BY <1>1, <2>3 DEF Below
  <2> QED
    BY <2>1, <2>2, <2>3
<1> QED
  BY <1>1, <1>2 DEF Before, a

LEMMA AppendBefore ==
  ASSUME NEW s \in Seq(Line), NEW u \in Seq(Line), NEW x \in Line, NEW L,
         NEW M, L \subseteq M,
         Before(s, u, L), x \in M \/ u = <<>>
  PROVE  Before(Append(s, x), u, M)
<1> DEFINE n == Len(s)
           a == Append(s, x)
<1>1. /\ DOMAIN a = 1..n + 1 /\ DOMAIN s = 1..n /\ n \in Nat
      /\ \A i \in 1..n : a[i] = s[i]
      /\ a[n + 1] = x
  BY Appended
<1>2. DOMAIN u = {} \/ x \in M
  BY EmptySeq
<1> HIDE DEF n, a
<1>3. ASSUME NEW i \in 1..n + 1, NEW j \in DOMAIN u
      PROVE  a[i] < u[j] \/ a[i] \in M \/ u[j] \in M
  <2>1. i \in 1..n \/ i = n + 1
    BY ONLY <1>1
  <2>2. CASE i \in 1..n
    BY <1>1, <2>2 DEF Before
  <2>3. CASE i = n + 1
    BY <1>1, <1>2, <2>3
  <2> QED
    BY <2>1, <2>2, <2>3
<1> QED
  BY <1>1, <1>3 DEF Before, a

LEMMA RisingJoin ==
  ASSUME NEW s \in Seq(Line), NEW u \in Seq(Line), NEW L,
         Rises(s, L), Rises(u, L), Before(s, u, L)
  PROVE  Rises(s \o u, L)
<1> DEFINE n == Len(s)
           m == Len(u)
           a == s \o u
<1>1. /\ DOMAIN a = 1..n + m /\ DOMAIN s = 1..n /\ DOMAIN u = 1..m /\ n \in Nat /\ m \in Nat
      /\ \A i \in 1..n : a[i] = s[i]
      /\ \A i \in 1..m : a[n + i] = u[i]
  BY Joined
<1> HIDE DEF n, m, a
<1>2. ASSUME NEW i \in 1..n + m, NEW j \in 1..n + m, i < j
      PROVE  a[i] < a[j] \/ a[i] \in L \/ a[j] \in L
  <2>1. CASE j \in 1..n
    <3>1. i \in 1..n
      BY ONLY <1>1, <1>2, <2>1
    <3> QED
      BY <1>1, <1>2, <2>1, <3>1 DEF Rises
  <2>2. CASE i \in 1..n /\ j \notin 1..n
    <3>1. j - n \in 1..m /\ n + (j - n) = j
      BY ONLY <1>1, <1>2, <2>2
    <3>2. a[j] = u[j - n] /\ a[i] = s[i]
      BY <1>1, <2>2, <3>1
    <3> QED
      BY <1>1, <2>2, <3>1, <3>2 DEF Before
  <2>3. CASE i \notin 1..n
    <3>1. /\ i - n \in 1..m /\ n + (i - n) = i
          /\ j - n \in 1..m /\ n + (j - n) = j
          /\ i - n < j - n
      BY ONLY <1>1, <1>2, <2>3
    <3>2. a[j] = u[j - n] /\ a[i] = u[i - n]
      BY <1>1, <3>1
    <3> QED
      BY <1>1, <3>1, <3>2 DEF Rises
  <2> QED
    BY <2>1, <2>2, <2>3
<1> QED
  BY <1>1, <1>2 DEF Rises, a

LEMMA JoinBefore ==
  ASSUME NEW s \in Seq(Line), NEW u \in Seq(Line), NEW v \in Seq(Line), NEW L,
         Before(s, v, L), Before(u, v, L)
  PROVE  Before(s \o u, v, L)
<1> DEFINE n == Len(s)
           m == Len(u)
           a == s \o u
<1>1. /\ DOMAIN a = 1..n + m /\ DOMAIN s = 1..n /\ DOMAIN u = 1..m /\ n \in Nat /\ m \in Nat
      /\ \A i \in 1..n : a[i] = s[i]
      /\ \A i \in 1..m : a[n + i] = u[i]
  BY Joined
<1> HIDE DEF n, m, a
<1>2. ASSUME NEW i \in 1..n + m, NEW j \in DOMAIN v
      PROVE  a[i] < v[j] \/ a[i] \in L \/ v[j] \in L
  <2>1. CASE i \in 1..n
    BY <1>1, <2>1 DEF Before
  <2>2. CASE i \notin 1..n
    <3>1. i - n \in 1..m /\ n + (i - n) = i
      BY ONLY <1>1, <2>2
    <3>2. a[i] = u[i - n]
      BY <1>1, <3>1
    <3> QED
      BY <1>1, <3>1, <3>2 DEF Before
  <2> QED
    BY <2>1, <2>2
<1> QED
  BY <1>1, <1>2 DEF Before, a

(* A line that is not in M is in the prefix that a short write leaves.     *)
LEMMA PrefixIn ==
  ASSUME NEW s \in Seq(Line), NEW n \in 0..Len(s), NEW M,
         \A i \in n + 1..Len(s) : s[i] \in M, NEW l, l \notin M
  PROVE  In(SubSeq(s, 1, n), l) <=> In(s, l)
<1> DEFINE m == Len(s)
           u == SubSeq(s, 1, n)
<1>1. /\ n \in Nat /\ m \in Nat /\ DOMAIN s = 1..m /\ DOMAIN u = 1..n
      /\ \A i \in 1..n : i \in 1..m /\ u[i] = s[i]
      /\ \A i \in n + 1..m : s[i] \in M
  BY Prefix
<1> HIDE DEF m, u
<1>2. \A i \in 1..m : i \in 1..n \/ i \in n + 1..m
  BY ONLY <1>1
<1>3. In(u, l) <=> In(s, l)
  BY <1>1, <1>2 DEF In
<1> QED
  BY <1>3 DEF u

(* And the prefix is in the same order, when more lines are exempt.        *)
LEMMA PrefixOrder ==
  ASSUME NEW s \in Seq(Line), NEW n \in 0..Len(s), NEW L, NEW M, L \subseteq M
  PROVE  /\ Rises(s, L) => Rises(SubSeq(s, 1, n), M)
         /\ \A u : Before(s, u, L) => Before(SubSeq(s, 1, n), u, M)
         /\ \A u : Before(u, s, L) => Before(u, SubSeq(s, 1, n), M)
<1> DEFINE m == Len(s)
           v == SubSeq(s, 1, n)
<1>1. /\ DOMAIN s = 1..m /\ DOMAIN v = 1..n
      /\ \A i \in 1..n : i \in 1..m /\ v[i] = s[i]
  BY Prefix
<1> HIDE DEF m, v
<1>2. Rises(s, L) => Rises(v, M)
  BY <1>1 DEF Rises
<1>3. \A u : Before(s, u, L) => Before(v, u, M)
  BY <1>1 DEF Before
<1>4. \A u : Before(u, s, L) => Before(u, v, M)
  BY <1>1 DEF Before
<1> QED
  BY <1>2, <1>3, <1>4 DEF v

LEMMA MoreExempt ==
  ASSUME NEW L, NEW M, L \subseteq M
  PROVE  /\ \A s : Rises(s, L) => Rises(s, M)
         /\ \A s, u : Before(s, u, L) => Before(s, u, M)
BY DEF Rises, Before

LEMMA NothingInEmpty ==
  /\ \A l : ~In(<<>>, l)
  /\ \A L : Rises(<<>>, L)
  /\ \A s, L : Before(s, <<>>, L) /\ Before(<<>>, s, L)
BY DEF In, Rises, Before

-----------------------------------------------------------------------------
(* The persister, its hands and the signal.                                *)

FullHasLines == \A c \in 1..Cells : status[c] = "FULL" => cells[c] # <<>>

(* Only a persister that was not interrupted is in the loop of persist.    *)
PersisterOnly ==
  \A t \in Thread :
    pc[t] \in {"top", "wait", "file", "write", "clear"} => t \in Persister /\ t \notin handling

(* A buffer left written and not cleared stays: nobody else clears it.     *)
WrittenIsFull == written => status[prst] = "FULL" /\ \E p \in Persister : p \in handling

HandInv == FullHasLines /\ PersisterOnly /\ WrittenIsFull

LEMMA ClearedIsFull ==
  ASSUME RingInv, HandInv, Cleared
  PROVE  status[prst] = "FULL"
BY DEF RingInv, BeingWritten, HandInv, PersisterOnly, WrittenIsFull, Cleared, At

LEMMA NextFullHasLines ==
  ASSUME RingInv, HandInv, [Next]_vars
  PROVE  FullHasLines'
<1>1. RingChange /\ CellTypes /\ CellTypes' /\ FullHasLines
  BY RingChanges, NextCellTypes DEF RingInv, TypeInv, HandInv
<1>2. DOMAIN cells = 1..Cells /\ Cells \in Nat \ {0} /\ curr \in 1..Cells /\ prst \in 1..Cells
  BY <1>1, Numbered DEF Cell, CellTypes
<1>3. ASSUME NEW t \in Thread, AppendHere(t) \/ Retest(t), PutLine PROVE FullHasLines'
  <2>1. accepted + 1 \in Line
    BY <1>3, NumberFits DEF AppendHere, Retest, RingInv, TypeInv
  <2>2. PICK s \in Seq(Line) : s = cells[curr]
    BY <1>1, <1>2 DEF CellTypes
  <2>3. Append(s, accepted + 1) # <<>>
    BY <2>1, <2>2, AppendProperties
  <2>4. /\ \A c \in 1..Cells :
             cells'[c] = IF c = curr THEN Append(s, accepted + 1) ELSE cells[c]
        /\ status' = status /\ Cells' = Cells
    <3>1. status' = status
      BY <1>3 DEF AppendHere, Retest
    <3>2. cells' = [cells EXCEPT ![curr] = Append(s, accepted + 1)]
      BY <1>3, <2>2 DEF PutLine
    <3>3. Cells' = Cells
      BY <1>2, <3>2 DEF Cells, Cell
    <3> QED
      BY <1>1, <3>1, <3>2, <3>3 DEF CellTypes
  <2> QED
    BY <1>1, <2>3, <2>4 DEF FullHasLines
<1>4. ASSUME NEW t \in Thread, CurrIsFilled(t) PROVE cells[curr] # <<>>
  BY <1>4, EmptySeq, RingLogAssumption DEF CurrIsFilled
<1>5. ASSUME NEW t \in Thread, UseNext(t) \/ GiveUp(t) PROVE FullHasLines'
  <2>1. /\ cells[curr] # <<>> /\ cells' = cells /\ Cells' = Cells
        /\ status' = [status EXCEPT ![curr] = "FULL"]
    BY <1>4, <1>5 DEF UseNext, GiveUp, Cells, Cell
  <2> QED
    BY <1>1, <2>1 DEF FullHasLines, CellTypes
<1>6. ASSUME NEW t \in Thread, AddCell(t) PROVE FullHasLines'
  <2>1. cells[curr] # <<>>
    BY <1>4, <1>6 DEF AddCell
  <2>2. /\ Cells' = Cells + 1
        /\ \A c \in 1..Cells : /\ cells'[c] = cells[c]
                               /\ status'[c] = IF c = curr THEN "FULL" ELSE status[c]
        /\ status'[Cells + 1] = "FREE"
    BY <1>1, <1>6, ExtendedCells
  <2>3. \A c \in 1..Cells' : c # Cells + 1 => c \in 1..Cells
    BY <1>2, <2>2
  <2> QED
    BY <1>1, <2>1, <2>2, <2>3 DEF FullHasLines
<1>7. ASSUME NEW p \in Persister, TakePartial(p) PROVE FullHasLines'
  <2>1. curr = prst
    BY <1>2, <1>7 DEF TakePartial, RingInv, FreeIsEmpty
  <2>2. /\ cells[curr] # <<>> /\ cells' = cells /\ Cells' = Cells
        /\ status' = [status EXCEPT ![curr] = "FULL"]
    BY <1>7, <2>1 DEF TakePartial, Cells, Cell
  <2> QED
    BY <1>1, <2>2 DEF FullHasLines, CellTypes
<1>8. ASSUME NEW p \in Persister, Clear(p) PROVE FullHasLines'
  <2>1. /\ cells' = [cells EXCEPT ![prst] = <<>>] /\ Cells' = Cells
        /\ status' = [status EXCEPT ![prst] = "FREE"]
    BY <1>2, <1>8 DEF Clear, Cells, Cell
  <2> QED
    BY <1>1, <2>1 DEF FullHasLines, CellTypes
<1>9. ASSUME UNCHANGED <<cells, status>> PROVE FullHasLines'
  BY <1>1, <1>9 DEF FullHasLines, Cells, Cell
<1>10. CASE UNCHANGED bufVars
  BY <1>9, <1>10 DEF bufVars
<1> QED
  BY <1>1, <1>3, <1>5, <1>6, <1>7, <1>8, <1>9, <1>10 DEF RingChange, Retest, AppendHere

LEMMA NextPersisterOnly ==
  ASSUME TypeInv, PersisterOnly, [Next]_vars
  PROVE  PersisterOnly'
<1> USE DEF PersisterOnly, TypeInv, ThreadTypes, Goto, signalVars
<1>1. ASSUME NEW t \in Thread, Step(t) PROVE PersisterOnly'
  <2>1. CASE LogLine(t) \/ Warn(t) \/ Reset(t)
    BY <2>1 DEF LogLine, Warn, StartAppend, Reset
  <2>2. CASE AppendHere(t) \/ Retest(t) \/ Refuse(t)
    BY <2>2 DEF AppendHere, Retest, Refuse
  <2>3. CASE UseNext(t) \/ AddCell(t) \/ GiveUp(t)
    BY <2>3 DEF UseNext, AddCell, GiveUp, CurrIsFilled
  <2>4. CASE LogStop(t) \/ is_empty(t)
    BY <2>4 DEF LogStop, is_empty, OnlyPolls,
         LoadCurr, TestCurr, LoadPrst, TestPrst
  <2>5. CASE t \in Persister /\ Persist(t)
    <3>1. /\ pc[t] \in {"top", "wait", "file", "write", "clear"} /\ handling' = handling
          /\ \A v \in Thread : v # t => pc'[v] = pc[v]
      BY <2>5 DEF Persist, Wait, Looking, NothingThere, TakeFull, TakePartial, FileOpen,
         FileFails, Write, Clear
    <3> QED
      BY <2>5, <3>1
  <2>6. CASE Interrupt(t)
    BY <2>6 DEF Interrupt
  <2> QED
    BY <1>1, <2>1, <2>2, <2>3, <2>4, <2>5, <2>6 DEF Step, TryAppend, Handler
<1>2. CASE UNCHANGED vars
  BY <1>2 DEF vars
<1> QED
  BY <1>1, <1>2, Steps

(* What a step does to the hand of the persister and to who handles.       *)
LEMMA HandSteps ==
  ASSUME ThreadTypes, NEW t \in Thread, Step(t)
  PROVE  \/ Interrupt(t)
         \/ /\ UNCHANGED <<written, handling>>
            /\ \/ t \in Persister /\ (Write(t) \/ Clear(t))
               \/ /\ UNCHANGED prst /\ pc[t] # "clear" /\ pc'[t] # "clear"
                  /\ \A v \in Thread : v # t => pc'[v] = pc[v]
<1> USE DEF ThreadTypes, Goto, signalVars, bufVars
<1>1. CASE LogLine(t) \/ Warn(t) \/ Reset(t)
  BY <1>1 DEF LogLine, Warn, StartAppend, Reset
<1>2. CASE AppendHere(t) \/ Retest(t) \/ Refuse(t)
  BY <1>2 DEF AppendHere, Retest, Refuse
<1>3. CASE UseNext(t) \/ AddCell(t) \/ GiveUp(t)
  BY <1>3 DEF UseNext, AddCell, GiveUp, CurrIsFilled
<1>4. CASE LogStop(t) \/ is_empty(t)
  BY <1>4 DEF LogStop, is_empty, OnlyPolls,
         LoadCurr, TestCurr, LoadPrst, TestPrst
<1>5. CASE Wait(t) \/ NothingThere(t) \/ TakeFull(t) \/ TakePartial(t)
  BY <1>5 DEF Wait, Looking, NothingThere, TakeFull, TakePartial
<1>6. CASE FileOpen(t) \/ FileFails(t)
  BY <1>6 DEF FileOpen, FileFails
<1>7. CASE t \in Persister /\ (Write(t) \/ Clear(t))
  BY <1>7 DEF Write, Clear
<1> QED
  BY <1>1, <1>2, <1>3, <1>4, <1>5, <1>6, <1>7 DEF Step, TryAppend, Handler, Persist

LEMMA NextWrittenIsFull ==
  ASSUME OnePersister, RingInv, HandInv, [Next]_vars
  PROVE  WrittenIsFull'
<1>1. /\ ThreadTypes /\ CellTypes /\ CellTypes' /\ PersisterOnly /\ WrittenIsFull /\ RingChange
      /\ prst \in 1..Cells
  BY NextCellTypes, RingChanges DEF RingInv, TypeInv, HandInv, CellTypes
<1>2. ASSUME NEW p \in Persister, Clear(p) PROVE ~written
  BY <1>1, <1>2 DEF Clear, PersisterOnly, WrittenIsFull, OnePersister, Thread
<1>3. ASSUME status[prst] = "FULL", prst' = prst,
             ~ \E p \in Persister : Clear(p)
      PROVE  status'[prst'] = "FULL"
  <2>1. ASSUME NEW t \in Thread, AddCell(t) PROVE status'[prst] = "FULL"
    <3>1. status'[prst] = IF prst = curr THEN "FULL" ELSE status[prst]
      BY <1>1, <2>1, ExtendedCells
    <3> QED
      BY <1>3, <3>1
  <2>2. ASSUME NEW t \in Thread, AppendHere(t) \/ Retest(t) \/ UseNext(t) \/ GiveUp(t)
        PROVE  status'[prst] = "FULL"
    BY <1>1, <1>3, <2>2 DEF AppendHere, Retest, UseNext, GiveUp, CellTypes
  <2>3. ASSUME NEW p \in Persister, TakePartial(p) PROVE status'[prst] = "FULL"
    BY <1>1, <1>3, <2>3 DEF TakePartial, CellTypes
  <2>4. CASE UNCHANGED bufVars
    BY <1>3, <2>4 DEF bufVars
  <2> QED
    BY <1>1, <1>3, <2>1, <2>2, <2>3, <2>4 DEF RingChange
<1>4. ASSUME NEW t \in Thread, Step(t) PROVE WrittenIsFull'
  <2>1. CASE Interrupt(t)
    <3>1. /\ written' = (pc[t] = "clear") /\ handling' = {t} /\ status' = status /\ prst' = prst
      BY <2>1 DEF Interrupt, bufVars
    <3>2. CASE pc[t] = "clear"
      <4>1. t \in Persister /\ status[prst] = "FULL"
        BY <1>1, <3>2 DEF PersisterOnly, RingInv, BeingWritten
      <4> QED
        BY <3>1, <4>1 DEF WrittenIsFull
    <3>3. CASE pc[t] # "clear"
      BY <3>1, <3>3 DEF WrittenIsFull
    <3> QED
      BY <3>2, <3>3
  <2>2. CASE ~Interrupt(t) /\ written
    <3>1. UNCHANGED <<written, handling>>
      BY <1>1, <1>4, <2>2, HandSteps
    <3>2. ~ \E p \in Persister : Clear(p)
      BY <1>2, <2>2
    <3>3. UNCHANGED prst
      <4>1. CASE Write(t)
        BY <4>1 DEF Write, bufVars
      <4>2. CASE ~Write(t)
        BY <1>1, <1>4, <2>2, <3>2, <4>2, HandSteps
      <4> QED
        BY <4>1, <4>2
    <3>4. status'[prst'] = "FULL"
      BY <1>1, <1>3, <2>2, <3>2, <3>3 DEF WrittenIsFull
    <3> QED
      BY <1>1, <3>1, <3>4 DEF WrittenIsFull
  <2>3. CASE ~Interrupt(t) /\ ~written
    BY <1>1, <1>4, <2>3, HandSteps DEF WrittenIsFull
  <2> QED
    BY <2>1, <2>2, <2>3
<1>5. CASE UNCHANGED vars
  BY <1>1, <1>5 DEF vars, bufVars, signalVars, WrittenIsFull
<1> QED
  BY <1>4, <1>5, Steps

-----------------------------------------------------------------------------
(* What a step does to the lines.                                          *)

KeepsLines ==
  /\ accepted' = accepted /\ exempt' = exempt /\ disk' = disk
  /\ \A c \in 1..Cells : c \in 1..Cells' /\ Shelf(c)' = Shelf(c)
  /\ \A c \in 1..Cells' : c \notin 1..Cells => Shelf(c)' = <<>>

(* A line that is not exempt goes into a buffer that is not full.          *)
PutsOne ==
  /\ Cells' = Cells /\ disk' = disk
  /\ accepted' = accepted + 1 /\ accepted + 1 \in Line
  /\ exempt \subseteq exempt' /\ exempt' \subseteq exempt \union {accepted + 1}
  /\ status[curr] = "FREE" \/ accepted + 1 \in exempt'
  /\ \A c \in 1..Cells :
       \/ Shelf(c)' = Shelf(c) /\ (c # curr \/ accepted + 1 \in exempt')
       \/ Shelf(c)' = Append(Shelf(c), accepted + 1) /\ c = curr

(* Of the lines of the buffer the first n are written, the others exempt.  *)
WritesSome(n) ==
  /\ accepted' = accepted /\ exempt \subseteq exempt' /\ Cells' = Cells
  /\ disk' = disk \o SubSeq(Shelf(prst), 1, n)
  /\ \A i \in n + 1..Len(Shelf(prst)) : Shelf(prst)[i] \in exempt'
  /\ \A c \in 1..Cells : Shelf(c)' = IF c = prst THEN <<>> ELSE Shelf(c)

WritesOne == \E n \in 0..Len(Shelf(prst)) : WritesSome(n)

(* What is cleared changes by Write and Clear only.                        *)
LEMMA ClearedKept ==
  ASSUME RingInv, HandInv, NEW t \in Thread, Step(t), ~Write(t), ~Clear(t)
  PROVE  Cleared' = Cleared
<1>1. ThreadTypes /\ PersisterOnly /\ WrittenIsFull
  BY DEF RingInv, TypeInv, HandInv
<1>2. CASE Interrupt(t)
  <2>1. /\ handling = {} /\ written' = (pc[t] = "clear") /\ pc' = [pc EXCEPT ![t] = "warn"]
    BY <1>2 DEF Interrupt, Goto
  <2>2. ~written
    BY <1>1, <2>1 DEF WrittenIsFull
  <2>3. CASE pc[t] = "clear"
    BY <2>1, <2>3 DEF Cleared, At
  <2>4. CASE pc[t] # "clear"
    <3>1. At("clear")' = At("clear")
      BY <1>1, <2>1, <2>4 DEF At, ThreadTypes
    <3> QED
      BY <2>1, <2>2, <2>4, <3>1 DEF Cleared
  <2> QED
    BY <2>3, <2>4
<1>3. CASE ~Interrupt(t)
  <2>1. /\ written' = written /\ pc[t] # "clear" /\ pc'[t] # "clear"
        /\ \A v \in Thread : v # t => pc'[v] = pc[v]
    BY <1>1, <1>3, HandSteps
  <2>2. At("clear")' = At("clear")
    BY <2>1 DEF At
  <2> QED
    BY <2>1, <2>2 DEF Cleared
<1> QED
  BY <1>2, <1>3

(* Nothing is cleared while the persister is about to write, or has just   *)
(* given the buffer back.                                                  *)
LEMMA NotCleared ==
  ASSUME OnePersister, HandInv, NEW p \in Persister,
         pc[p] \in {"top", "wait", "file", "write"}
  PROVE  ~Cleared
BY DEF HandInv, PersisterOnly, WrittenIsFull, OnePersister, Cleared, At, Thread

LEMMA LineStep ==
  ASSUME OnePersister, RingInv, HandInv, RingInv', HandInv', [Next]_vars
  PROVE  KeepsLines \/ PutsOne \/ WritesOne
<1>1. /\ CellTypes /\ CellTypes' /\ ThreadTypes /\ LineTypes
      /\ DOMAIN cells = 1..Cells /\ Cells \in Nat \ {0}
      /\ curr \in 1..Cells /\ prst \in 1..Cells
  <2>1. CellTypes /\ CellTypes' /\ ThreadTypes /\ LineTypes
    BY DEF RingInv, TypeInv
  <2> QED
    BY <2>1, Numbered DEF Cell, CellTypes
<1>2. ASSUME cells' = cells, prst' = prst, Cleared' = Cleared, UNCHANGED <<lineVars, disk>>
      PROVE  KeepsLines
  <2>1. Cells' = Cells
    BY <1>2 DEF Cells, Cell
  <2> QED
    BY <1>2, <2>1 DEF KeepsLines, Shelf, lineVars
<1>3. ASSUME NEW t \in Thread, Step(t) PROVE KeepsLines \/ PutsOne \/ WritesOne
  <2>1. CASE AppendHere(t) \/ Retest(t)
    <3>1. /\ prst' = prst /\ curr' = curr /\ status' = status /\ disk' = disk
          /\ pc[t] \in {"append", "retest"}
      BY <2>1 DEF AppendHere, Retest
    <3>2. ~Write(t) /\ ~Clear(t)
      BY <3>1 DEF Write, Clear
    <3>3. Cleared' = Cleared
      BY <1>3, <3>2, ClearedKept
    <3>4. CASE ~PutLine
      <4>1. cells' = cells /\ UNCHANGED lineVars
        BY <2>1, <3>4 DEF AppendHere, Retest, lineVars
      <4> QED
        BY <1>2, <3>1, <3>3, <4>1
    <3>5. CASE PutLine
      <4>1. accepted + 1 \in Line
        BY <3>1, NumberFits DEF RingInv, TypeInv
      <4>2. /\ accepted' = accepted + 1
            /\ cells' = [cells EXCEPT ![curr] = Append(cells[curr], accepted + 1)]
        BY <3>5 DEF PutLine
      <4>3. Cells' = Cells
        BY <1>1, <4>2 DEF Cells, Cell
      <4>4. /\ exempt \subseteq exempt' /\ exempt' \subseteq exempt \union {accepted + 1}
            /\ status[curr] = "FREE" \/ accepted + 1 \in exempt'
        <5>1. CASE AppendHere(t)
          BY <5>1 DEF AppendHere
        <5>2. CASE Retest(t)
          <6>1. accepted' # accepted
            BY <1>1, <4>2 DEF LineTypes
          <6>2. exempt' = IF status[curr] = "FULL" THEN exempt \union {accepted + 1} ELSE exempt
            BY <4>2, <5>2, <6>1 DEF Retest
          <6>3. status[curr] \in {"FREE", "FULL"}
            BY <1>1 DEF CellTypes
          <6> QED
            BY <6>2, <6>3
        <5> QED
          BY <2>1, <5>1, <5>2
      <4>5. ASSUME NEW c \in 1..Cells
            PROVE  \/ Shelf(c)' = Shelf(c) /\ (c # curr \/ accepted + 1 \in exempt')
                   \/ Shelf(c)' = Append(Shelf(c), accepted + 1) /\ c = curr
        <5>1. cells'[c] = IF c = curr THEN Append(cells[c], accepted + 1) ELSE cells[c]
          BY <1>1, <4>2 DEF CellTypes
        <5>2. CASE c = prst /\ Cleared
          <6>1. Shelf(c)' = Shelf(c)
            BY <3>1, <3>3, <5>2 DEF Shelf
          <6>2. status[c] = "FULL"
            BY <5>2, ClearedIsFull
          <6> QED
            BY <4>4, <6>1, <6>2
        <5>3. CASE ~(c = prst /\ Cleared)
          <6>1. Shelf(c) = cells[c] /\ Shelf(c)' = cells'[c]
            BY <3>1, <3>3, <5>3 DEF Shelf
          <6> QED
            BY <5>1, <6>1
        <5> QED
          BY <5>2, <5>3
      <4> QED
        BY <3>1, <4>1, <4>2, <4>3, <4>4, <4>5 DEF PutsOne
    <3> QED
      BY <3>4, <3>5
  <2>2. CASE AddCell(t)
    <3>1. /\ Cells' = Cells + 1 /\ prst' = prst
          /\ \A c \in 1..Cells : cells'[c] = cells[c]
          /\ cells'[Cells + 1] = <<>>
      BY <1>1, <2>2, ExtendedCells
    <3>2. ~Write(t) /\ ~Clear(t)
      BY <2>2 DEF AddCell, CurrIsFilled, Write, Clear
    <3>3. Cleared' = Cleared
      BY <1>3, <3>2, ClearedKept
    <3>4. accepted' = accepted /\ exempt' = exempt /\ disk' = disk
      BY <2>2 DEF AddCell, CurrIsFilled, lineVars
    <3>5. \A c \in 1..Cells : c \in 1..Cells' /\ Shelf(c)' = Shelf(c)
      BY <1>1, <3>1, <3>3 DEF Shelf
    <3>6. ASSUME NEW c \in 1..Cells', c \notin 1..Cells PROVE Shelf(c)' = <<>>
      <4>1. c = Cells + 1
        BY <1>1, <3>1, <3>6
      <4> QED
        BY <3>1, <4>1 DEF Shelf
    <3> QED
      BY <3>4, <3>5, <3>6 DEF KeepsLines
  <2>3. CASE t \in Persister /\ Write(t)
    <3>1. /\ pc[t] = "write" /\ pc'[t] = "clear" /\ UNCHANGED <<cells, prst, accepted>>
      BY <1>1, <2>3 DEF Write, Goto, bufVars, ThreadTypes
    <3>2. Cells' = Cells
      BY <3>1 DEF Cells, Cell
    <3>3. Cleared'
      BY <3>1 DEF Cleared, At
    <3>4. ~Cleared
      BY <2>3, <3>1, NotCleared
    <3>5. /\ \A c \in 1..Cells : Shelf(c) = cells[c]
          /\ \A c \in 1..Cells : Shelf(c)' = IF c = prst THEN <<>> ELSE cells[c]
      BY <3>1, <3>3, <3>4 DEF Shelf
    <3>6. PICK n \in 0..Len(cells[prst]) :
            /\ disk' = disk \o SubSeq(cells[prst], 1, n)
            /\ exempt' = exempt \union {cells[prst][i] : i \in n + 1..Len(cells[prst])}
      BY <2>3 DEF Write
    <3>7. WritesSome(n)
      BY <1>1, <3>1, <3>2, <3>5, <3>6 DEF WritesSome
    <3> QED
      BY <1>1, <3>5, <3>6, <3>7 DEF WritesOne
  <2>4. CASE t \in Persister /\ Clear(t)
    <3>1. /\ pc[t] = "clear" /\ pc'[t] = "top"
          /\ cells' = [cells EXCEPT ![prst] = <<>>]
          /\ UNCHANGED <<accepted, exempt, disk>>
      BY <1>1, <2>4 DEF Clear, Goto, lineVars, ThreadTypes
    <3>2. Cells' = Cells
      BY <1>1, <3>1 DEF Cells, Cell
    <3>3. Cleared
      BY <3>1 DEF Cleared, At
    <3>4. ~Cleared'
      <4>1. HandInv' /\ pc'[t] \in {"top", "wait", "file", "write"}
        BY <3>1
      <4> QED
        BY <2>4, <4>1 DEF HandInv, PersisterOnly, WrittenIsFull, OnePersister, Cleared, At,
           Thread
    <3>5. ASSUME NEW c \in 1..Cells PROVE Shelf(c)' = Shelf(c)
      <4>1. Shelf(c)' = cells'[c] /\ Shelf(c) = IF c = prst THEN <<>> ELSE cells[c]
        BY <3>3, <3>4 DEF Shelf
      <4>2. cells'[c] = IF c = prst THEN <<>> ELSE cells[c]
        BY <1>1, <3>1 DEF CellTypes
      <4> QED
        BY <4>1, <4>2
    <3> QED
      BY <3>1, <3>2, <3>5 DEF KeepsLines
  <2>5. CASE \/ LogLine(t) \/ Handler(t) \/ Reset(t) \/ Refuse(t) \/ UseNext(t) \/ GiveUp(t)
             \/ Interrupt(t) \/ (t \in Persister /\ Persist(t) /\ ~Write(t) /\ ~Clear(t))
    <3>1. cells' = cells /\ prst' = prst /\ UNCHANGED <<lineVars, disk>>
      BY <2>5 DEF LogLine, Handler, Warn, StartAppend, LogStop, is_empty, OnlyPolls,
         LoadCurr, TestCurr, LoadPrst, TestPrst, Reset,
         Refuse, UseNext, GiveUp, CurrIsFilled, Interrupt, Persist, Wait, NothingThere,
         TakeFull, TakePartial, FileOpen, FileFails, bufVars
    <3>2. CASE ~Write(t) /\ ~Clear(t)
      <4>1. Cleared' = Cleared
        BY <1>3, <3>2, ClearedKept
      <4> QED
        BY <1>2, <3>1, <4>1
    <3>3. CASE t \notin Persister /\ (Write(t) \/ Clear(t))
      BY <3>3 DEF HandInv, PersisterOnly, Write, Clear
    <3> QED
      BY <2>3, <2>4, <3>2, <3>3
  <2> QED
    BY <1>3, <2>1, <2>2, <2>3, <2>4, <2>5 DEF Step, TryAppend
<1>4. CASE UNCHANGED vars
  <2>1. Cleared' = Cleared
    BY <1>4 DEF vars, signalVars, Cleared, At
  <2> QED
    BY <1>2, <1>4, <2>1 DEF vars, bufVars
<1> QED
  BY <1>3, <1>4, Steps

-----------------------------------------------------------------------------
(* Where the lines are, and in which order.                                *)

(* A line not exempt was accepted exactly if it is on disk or in a buffer. *)
Stored ==
  \A l \in Line :
    l \notin exempt =>
      (l <= accepted <=> In(disk, l) \/ \E c \in 1..Cells : In(Shelf(c), l))

Sorted ==
  /\ Rises(disk, exempt)
  /\ \A c \in 1..Cells : Rises(Shelf(c), exempt) /\ Before(disk, Shelf(c), exempt)

(* Lines rise along the ring.                                              *)
Ordered(rank) ==
  \A c, d \in 1..Cells : rank[c] < rank[d] => Before(Shelf(c), Shelf(d), exempt)

OrderedRing ==
  \E rank \in [1..Cells -> 0..Cells - 1] : Ranked(rank) /\ Filled(rank) /\ Ordered(rank)

LinesInv == Stored /\ Sorted /\ OrderedRing

LEMMA ShelfType ==
  ASSUME CellTypes, NEW c \in 1..Cells
  PROVE  Shelf(c) \in Seq(Line)
BY EmptySeq DEF CellTypes, Shelf

(* The next line is above all others.                                      *)
LEMMA NextIsAbove ==
  ASSUME TypeInv, Stored
  PROVE  /\ Below(disk, accepted + 1, exempt)
         /\ \A c \in 1..Cells : Below(Shelf(c), accepted + 1, exempt)
<1>1. disk \in Seq(Line) /\ accepted \in Int /\ Line \subseteq Int
  BY RingLogAssumption DEF TypeInv, LineTypes, Line
<1>2. ASSUME NEW s \in Seq(Line),
             \A l : In(s, l) => In(disk, l) \/ \E c \in 1..Cells : In(Shelf(c), l)
      PROVE  Below(s, accepted + 1, exempt)
  <2> SUFFICES ASSUME NEW i \in DOMAIN s, s[i] \notin exempt PROVE s[i] < accepted + 1
    BY DEF Below
  <2>1. s[i] \in Line
    BY <1>2, LenProperties
  <2>2. In(s, s[i])
    BY DEF In
  <2>3. s[i] <= accepted
    BY <1>2, <2>1, <2>2 DEF Stored
  <2>4. s[i] \in Int /\ accepted \in Int
    BY <1>1, <2>1
  <2> QED
    BY ONLY <2>3, <2>4
<1>3. Below(disk, accepted + 1, exempt)
  BY <1>1, <1>2
<1>4. ASSUME NEW c \in 1..Cells PROVE Below(Shelf(c), accepted + 1, exempt)
  <2>1. Shelf(c) \in Seq(Line)
    BY ShelfType DEF TypeInv
  <2> QED
    BY <1>2, <2>1
<1> QED
  BY <1>3, <1>4

LEMMA NextStored ==
  ASSUME TypeInv, TypeInv', Stored, KeepsLines \/ PutsOne \/ WritesOne
  PROVE  Stored'
<1>1. /\ Cells \in Nat \ {0} /\ accepted \in Nat
      /\ curr \in 1..Cells /\ prst \in 1..Cells /\ disk \in Seq(Line)
      /\ \A c \in 1..Cells : Shelf(c) \in Seq(Line)
  <2>1. CellTypes /\ disk \in Seq(Line) /\ accepted \in Nat
    BY RingLogAssumption DEF TypeInv, LineTypes
  <2>2. \A c \in 1..Cells : Shelf(c) \in Seq(Line)
    BY <2>1, ShelfType
  <2> QED
    BY <2>1, <2>2, Numbered DEF CellTypes
<1>2. SUFFICES ASSUME NEW l \in Line, l \notin exempt'
               PROVE  l <= accepted' <=>
                        In(disk', l) \/ \E c \in 1..Cells' : In(Shelf(c)', l)
  BY DEF Stored
<1>3. CASE KeepsLines
  <2>1. \A c \in 1..Cells : c \in 1..Cells' /\ (In(Shelf(c)', l) <=> In(Shelf(c), l))
    BY <1>3 DEF KeepsLines
  <2>2. \A c \in 1..Cells' : c \notin 1..Cells => ~In(Shelf(c)', l)
    BY <1>3, NothingInEmpty DEF KeepsLines
  <2>3. accepted' = accepted /\ exempt' = exempt /\ disk' = disk
    BY <1>3 DEF KeepsLines
  <2> QED
    BY <1>2, <2>1, <2>2, <2>3 DEF Stored
<1>4. CASE PutsOne
  <2>1. /\ Cells' = Cells /\ disk' = disk /\ accepted' = accepted + 1 /\ accepted + 1 \in Line
        /\ l \notin exempt
    BY <1>2, <1>4 DEF PutsOne
  <2>2. \A c \in 1..Cells : In(Append(Shelf(c), accepted + 1), l)
                              <=> In(Shelf(c), l) \/ l = accepted + 1
    BY <1>1, <2>1, AppendedIn
  <2>3. ASSUME NEW c \in 1..Cells
        PROVE  In(Shelf(c)', l) <=> In(Shelf(c), l) \/ (c = curr /\ l = accepted + 1)
    <3>1. \/ Shelf(c)' = Shelf(c) /\ (c # curr \/ accepted + 1 \in exempt')
          \/ Shelf(c)' = Append(Shelf(c), accepted + 1) /\ c = curr
      BY <1>4 DEF PutsOne
    <3>2. CASE Shelf(c)' = Shelf(c) /\ (c # curr \/ accepted + 1 \in exempt')
      BY <1>2, <3>2
    <3>3. CASE Shelf(c)' = Append(Shelf(c), accepted + 1) /\ c = curr
      BY <2>2, <3>3
    <3> QED
      BY <3>1, <3>2, <3>3
  <2>4. l <= accepted <=> In(disk, l) \/ \E c \in 1..Cells : In(Shelf(c), l)
    <3>1. \A k \in Line :
            k \notin exempt =>
              (k <= accepted <=> In(disk, k) \/ \E c \in 1..Cells : In(Shelf(c), k))
      BY DEF Stored
    <3>2. l \in Line /\ l \notin exempt
      BY <2>1
    <3> QED
      BY ONLY <3>1, <3>2, Zenon
  <2>5. l <= accepted' <=> l <= accepted \/ l = accepted + 1
    BY <1>1, <2>1 DEF Line
  <2> QED
    BY <1>1, <2>1, <2>3, <2>4, <2>5
<1>5. CASE WritesOne
  <2>1. PICK s \in Seq(Line) : s = Shelf(prst)
    BY <1>1
  <2>2. PICK n \in 0..Len(s) : WritesSome(n)
    BY <1>5, <2>1 DEF WritesOne
  <2>3. /\ accepted' = accepted /\ exempt \subseteq exempt' /\ Cells' = Cells
        /\ disk' = disk \o SubSeq(s, 1, n)
        /\ \A i \in n + 1..Len(s) : s[i] \in exempt'
    BY <2>1, <2>2 DEF WritesSome
  <2>4. In(SubSeq(s, 1, n), l) <=> In(s, l)
    BY <1>2, <2>3, PrefixIn
  <2>5. In(disk', l) <=> In(disk, l) \/ In(s, l)
    <3>1. SubSeq(s, 1, n) \in Seq(Line)
      BY Prefix
    <3> QED
      BY <1>1, <2>3, <2>4, <3>1, JoinedIn
  <2>6. \A c \in 1..Cells : In(Shelf(c)', l) <=> c # prst /\ In(Shelf(c), l)
    BY <2>2, NothingInEmpty DEF WritesSome
  <2>7. l <= accepted <=> In(disk, l) \/ \E c \in 1..Cells : In(Shelf(c), l)
    <3>1. l \in Line /\ l \notin exempt
      BY <1>2, <2>3
    <3> QED
      BY <3>1, Zenon DEF Stored
  <2> QED
    BY <1>1, <2>1, <2>3, <2>5, <2>6, <2>7
<1> QED
  BY <1>3, <1>4, <1>5

LEMMA NextOrdered ==
  ASSUME TypeInv, FreeIsEmpty, Stored, KeepsLines \/ PutsOne \/ WritesOne,
         NEW rank \in [1..Cells -> 0..Cells - 1], Ranked(rank), Filled(rank), Ordered(rank),
         NEW r \in [1..Cells' -> 0..Cells' - 1], Follows(rank, r)
  PROVE  Ordered(r)'
<1>1. /\ CellTypes /\ Cells \in Nat \ {0}
      /\ curr \in 1..Cells /\ prst \in 1..Cells
      /\ \A c \in 1..Cells : Shelf(c) \in Seq(Line)
  BY Numbered, ShelfType DEF TypeInv, CellTypes
<1>2. SUFFICES ASSUME NEW c \in 1..Cells', NEW d \in 1..Cells', r[c] < r[d]
               PROVE  Before(Shelf(c)', Shelf(d)', exempt')
  BY DEF Ordered
<1>3. CASE cells'[d] = <<>>
  <2>1. Shelf(d)' = <<>>
    BY <1>3 DEF Shelf
  <2> QED
    BY <2>1, NothingInEmpty
<1>4. CASE c \in 1..Cells /\ d \in 1..Cells /\ rank[c] < rank[d]
  <2>1. Before(Shelf(c), Shelf(d), exempt)
    BY <1>4 DEF Ordered
  <2>2. c # d
    <3>1. rank[c] \in 0..Cells - 1
      BY <1>4
    <3> QED
      BY ONLY <1>1, <1>4, <3>1
  <2>3. CASE KeepsLines
    BY <1>4, <2>1, <2>3 DEF KeepsLines
  <2>4. CASE WritesOne
    <3>1. PICK n \in 0..Len(Shelf(prst)) : WritesSome(n)
      BY <2>4 DEF WritesOne
    <3>2. CASE c = prst \/ d = prst
      BY <1>4, <3>1, <3>2, NothingInEmpty DEF WritesSome
    <3>3. CASE c # prst /\ d # prst
      <4>1. Before(Shelf(c), Shelf(d), exempt')
        BY <2>1, <3>1, MoreExempt DEF WritesSome
      <4> QED
        BY <1>4, <3>1, <3>3, <4>1 DEF WritesSome
    <3> QED
      BY <3>2, <3>3
  <2>5. CASE PutsOne
    <3> DEFINE x == accepted + 1
               M == exempt'
    <3>1. /\ x \in Line /\ exempt \subseteq M
          /\ status[curr] = "FREE" \/ x \in M
      BY <2>5 DEF PutsOne
    <3>2. PICK s \in Seq(Line), u \in Seq(Line) : s = Shelf(c) /\ u = Shelf(d)
      BY <1>1, <1>4
    <3>3. Before(s, u, exempt) /\ Below(s, x, exempt)
      BY <1>4, <2>1, <3>2, NextIsAbove
    <3>4. /\ Shelf(c)' = s \/ (Shelf(c)' = Append(s, x) /\ c = curr)
          /\ Shelf(d)' = u \/ (Shelf(d)' = Append(u, x) /\ d = curr)
      BY <1>4, <2>5, <3>2 DEF PutsOne
    <3>5. c = curr => x \in M \/ u = <<>>
      <4> SUFFICES ASSUME c = curr, status[curr] = "FREE" PROVE u = <<>>
        BY <3>1
      <4>1. status[d] # "FULL"
        <5>1. ~(rank[d] < rank[curr])
          BY <1>1, <1>4
        <5> QED
          BY <1>1, <1>4, <5>1 DEF Filled
      <4>2. status[d] = "FREE"
        BY <1>1, <1>4, <4>1 DEF CellTypes
      <4>3. cells[d] = <<>>
        BY <1>4, <2>2, <4>2 DEF FreeIsEmpty
      <4> QED
        BY <3>2, <4>3 DEF Shelf
    <3> HIDE DEF x, M
    <3>6. Before(s, u, M)
      BY <3>1, <3>3 DEF Before
    <3>7. Before(s, Append(u, x), M)
      BY ONLY <3>1, <3>3, BeforeAppend
    <3>8. c = curr => Before(Append(s, x), u, M)
      BY ONLY <3>1, <3>3, <3>5, AppendBefore
    <3>9. Before(Shelf(c)', Shelf(d)', M)
      BY <2>2, <3>4, <3>6, <3>7, <3>8
    <3> QED
      BY <3>9 DEF M
  <2> QED
    BY <2>3, <2>4, <2>5
<1> QED
  BY <1>2, <1>3, <1>4 DEF Follows

LEMMA NextSorted ==
  ASSUME TypeInv, Stored, Sorted, OrderedRing, KeepsLines \/ PutsOne \/ WritesOne
  PROVE  Sorted'
<1>1. /\ CellTypes /\ Cells \in Nat \ {0}
      /\ curr \in 1..Cells /\ prst \in 1..Cells /\ disk \in Seq(Line)
      /\ \A c \in 1..Cells : Shelf(c) \in Seq(Line)
  BY Numbered, ShelfType DEF TypeInv, CellTypes, LineTypes
<1>2. CASE KeepsLines
  <2>1. exempt' = exempt /\ disk' = disk
    BY <1>2 DEF KeepsLines
  <2>2. ASSUME NEW c \in 1..Cells'
        PROVE  Shelf(c)' = <<>> \/ (c \in 1..Cells /\ Shelf(c)' = Shelf(c))
    BY <1>2 DEF KeepsLines
  <2>3. \A c \in 1..Cells' : Rises(Shelf(c)', exempt) /\ Before(disk, Shelf(c)', exempt)
    BY <2>2, NothingInEmpty DEF Sorted
  <2> QED
    BY <2>1, <2>3 DEF Sorted
<1>3. CASE PutsOne
  <2> DEFINE x == accepted + 1
             M == exempt'
  <2>1. x \in Line /\ exempt \subseteq M /\ Cells' = Cells /\ disk' = disk
    BY <1>3 DEF PutsOne
  <2>2. Rises(disk, M)
    BY <2>1 DEF Sorted, Rises
  <2>3. ASSUME NEW c \in 1..Cells PROVE Rises(Shelf(c)', M) /\ Before(disk, Shelf(c)', M)
    <3>1. PICK s \in Seq(Line) : s = Shelf(c)
      BY <1>1
    <3>2. /\ Rises(s, exempt) /\ Before(disk, s, exempt)
          /\ Below(s, x, exempt) /\ Below(disk, x, exempt)
      BY <3>1, NextIsAbove DEF Sorted
    <3>3. Shelf(c)' = s \/ Shelf(c)' = Append(s, x)
      BY <1>3, <3>1 DEF PutsOne
    <3> HIDE DEF x, M
    <3>4. Rises(s, M)
      BY <2>1, <3>2 DEF Rises
    <3>5. Before(disk, s, M)
      BY <2>1, <3>2 DEF Before
    <3>6. Rises(Append(s, x), M)
      BY ONLY <2>1, <3>2, RisingAppend
    <3>7. Before(disk, Append(s, x), M)
      BY ONLY <1>1, <2>1, <3>2, BeforeAppend
    <3> QED
      BY <3>3, <3>4, <3>5, <3>6, <3>7
  <2> QED
    BY <2>1, <2>2, <2>3 DEF Sorted
<1>4. CASE WritesOne
  <2> DEFINE M == exempt'
  <2>1. PICK s \in Seq(Line) : s = Shelf(prst)
    BY <1>1
  <2>2. PICK n \in 0..Len(s) : WritesSome(n)
    BY <1>4, <2>1 DEF WritesOne
  <2>3. PICK w \in Seq(Line) : w = SubSeq(s, 1, n)
    BY Prefix
  <2>4. /\ exempt \subseteq M /\ Cells' = Cells /\ disk' = disk \o w
        /\ \A c \in 1..Cells : Shelf(c)' = IF c = prst THEN <<>> ELSE Shelf(c)
    BY <2>1, <2>2, <2>3 DEF WritesSome
  <2>5. Rises(disk, exempt) /\ Rises(s, exempt) /\ Before(disk, s, exempt)
    BY <1>1, <2>1 DEF Sorted
  <2> HIDE DEF M
  <2>6. Rises(disk, M) /\ Rises(w, M) /\ Before(disk, w, M)
    BY <2>3, <2>4, <2>5, PrefixOrder, MoreExempt
  <2>7. Rises(disk \o w, M)
    BY <1>1, <2>6, RisingJoin
  <2>8. ASSUME NEW c \in 1..Cells
        PROVE  Rises(Shelf(c)', M) /\ Before(disk \o w, Shelf(c)', M)
    <3>1. CASE c = prst
      BY <2>4, <3>1, NothingInEmpty
    <3>2. CASE c # prst
      <4>1. PICK u \in Seq(Line) : u = Shelf(c)
        BY <1>1
      <4>2. Rises(u, exempt) /\ Before(disk, u, exempt)
        BY <4>1 DEF Sorted
      <4>3. Before(s, u, exempt)
        <5>1. PICK rank \in [1..Cells -> 0..Cells - 1] : Ranked(rank) /\ Ordered(rank)
          BY DEF OrderedRing
        <5>2. rank[prst] = 0 /\ rank[c] # 0 /\ rank[c] \in 0..Cells - 1
          BY <1>1, <3>2, <5>1 DEF Ranked
        <5>3. rank[prst] < rank[c]
          BY <1>1, <5>2
        <5> QED
          BY <1>1, <2>1, <4>1, <5>1, <5>3 DEF Ordered
      <4>4. Rises(u, M) /\ Before(disk, u, M) /\ Before(w, u, M)
        BY <2>3, <2>4, <4>2, <4>3, PrefixOrder, MoreExempt
      <4>5. Before(disk \o w, u, M)
        BY <1>1, <4>4, JoinBefore
      <4> QED
        BY <2>4, <3>2, <4>1, <4>4, <4>5
    <3> QED
      BY <3>1, <3>2
  <2> QED
    BY <2>4, <2>7, <2>8 DEF Sorted, M
<1> QED
  BY <1>2, <1>3, <1>4

LEMMA NextOrderedRing ==
  ASSUME RingInv, Stored, OrderedRing, KeepsLines \/ PutsOne \/ WritesOne, [Next]_vars
  PROVE  OrderedRing'
<1>1. PICK rank \in [1..Cells -> 0..Cells - 1] : Ranked(rank) /\ Filled(rank) /\ Ordered(rank)
  BY DEF OrderedRing
<1>2. Reranked(rank)
  BY <1>1, NextRanks
<1>3. PICK r \in [1..Cells' -> 0..Cells' - 1] : Ranked(r)' /\ Filled(r)' /\ Follows(rank, r)
  BY <1>2 DEF Reranked
<1>4. Ordered(r)'
  BY <1>1, <1>3, NextOrdered DEF RingInv
<1> QED
  BY <1>3, <1>4 DEF OrderedRing

-----------------------------------------------------------------------------
(* What the handler has seen.                                              *)

OnlyPrst == \A c \in 1..Cells : cells[c] # <<>> => c = prst
AllEmpty == \A c \in 1..Cells : cells[c] = <<>>
Room == Cells < MaxCells

OneRetest == \A t, v \in At("retest") : t = v

(* Below the memory limit the current buffer is free, nothing fails, and   *)
(* the append after a change of buffer finds an empty one.                 *)
Roomy == Room => status[curr] = "FREE" /\ ~lstLts
RetestEmpty == Room /\ At("retest") # {} => cells[curr] = <<>>

(* Then an empty current buffer follows the one that is persisted.         *)
NoGap ==
  Room /\ MutexFree /\ cells[curr] = <<>> => \A c \in 1..Cells : status[c] = "FULL" => c = prst

MutexInv == OneRetest /\ Roomy /\ RetestEmpty /\ NoGap

PollsCurr ==
  \A h \in Thread : pc[h] = "pollCurr" /\ Quiet /\ MutexFree => looked = curr \/ OnlyPrst

PollsPrst ==
  \A h \in Thread : pc[h] \in {"poll2", "pollPrst"} /\ Quiet /\ MutexFree => OnlyPrst

PollsLast ==
  \A h \in Thread : pc[h] = "pollPrst" /\ Quiet => looked = prst \/ AllEmpty

Flushed == Exited /\ (looked = prst \/ Quiet) => AllEmpty

PollInv == PollsCurr /\ PollsPrst /\ PollsLast /\ Flushed

(* When the buffer to be persisted is empty, it is the current one, which  *)
(* is before every other: the ring is empty.                               *)
LEMMA EmptyFromPrst ==
  ASSUME RingInv, HandInv, cells[prst] = <<>>
  PROVE  AllEmpty
<1>1. /\ CellTypes /\ FreeIsEmpty /\ FullHasLines
      /\ curr \in 1..Cells /\ prst \in 1..Cells /\ Cells \in Nat \ {0}
  BY Numbered DEF RingInv, TypeInv, HandInv, CellTypes
<1>2. PICK rank \in [1..Cells -> 0..Cells - 1] : Ranked(rank) /\ Filled(rank)
  BY DEF RingInv, Ring
<1>3. status[prst] # "FULL"
  BY <1>1 DEF FullHasLines
<1>4. \A c \in 1..Cells : status[c] = "FULL" <=> rank[c] < rank[curr]
  BY <1>1, <1>2, <1>3 DEF Filled
<1>5. rank[curr] = 0
  <2>1. rank[prst] = 0 /\ ~(rank[prst] < rank[curr]) /\ rank[curr] \in 0..Cells - 1
    BY <1>1, <1>2, <1>3, <1>4 DEF Ranked
  <2> QED
    BY <1>1, <2>1
<1>6. curr = prst
  BY <1>1, <1>2, <1>5 DEF Ranked
<1>7. \A c \in 1..Cells : status[c] = "FREE"
  <2>1. \A c \in 1..Cells : ~(rank[c] < rank[curr])
    BY <1>1, <1>5
  <2> QED
    BY <1>1, <1>4, <2>1 DEF CellTypes
<1> QED
  BY <1>1, <1>6, <1>7 DEF FreeIsEmpty, AllEmpty

(* When the current buffer is free and the one to be persisted, no buffer  *)
(* is full; the next one is another.                                       *)
LEMMA NoneFull ==
  ASSUME RingInv, curr = prst, status[curr] = "FREE"
  PROVE  \A c \in 1..Cells : status[c] = "FREE"
<1>1. CellTypes /\ curr \in 1..Cells /\ Cells \in Nat \ {0}
  BY Numbered DEF RingInv, TypeInv, CellTypes
<1>2. PICK rank \in [1..Cells -> 0..Cells - 1] : Ranked(rank) /\ Filled(rank)
  BY DEF RingInv, Ring
<1>3. \A c \in 1..Cells : status[c] = "FULL" <=> rank[c] < rank[curr]
  BY <1>1, <1>2 DEF Filled
<1>4. \A c \in 1..Cells : ~(rank[c] < rank[curr])
  BY <1>1, <1>2 DEF Ranked
<1> QED
  BY <1>1, <1>3, <1>4 DEF CellTypes

LEMMA NextDiffers ==
  ASSUME RingInv
  PROVE  next[curr] \in 1..Cells /\ next[curr] # curr
<1>1. /\ curr \in 1..Cells /\ next[curr] \in 1..Cells /\ Cells \in Nat /\ Cells >= 2
  <2>1. CellTypes /\ Cells \in InitCells..MaxCells
    BY DEF RingInv, TypeInv, CellTypes
  <2>2. Cells \in Nat /\ Cells >= 2
    <3>1. InitCells \in Nat \ {0, 1} /\ MaxCells \in Nat
      BY RingLogAssumption
    <3> QED
      BY ONLY <2>1, <3>1
  <2> QED
    BY <2>1, <2>2 DEF CellTypes
<1>2. PICK rank \in [1..Cells -> 0..Cells - 1] : Ranked(rank)
  BY DEF RingInv, Ring
<1>3. /\ rank[curr] \in 0..Cells - 1
      /\ rank[next[curr]] = IF rank[curr] = Cells - 1 THEN 0 ELSE rank[curr] + 1
  BY <1>1, <1>2 DEF Ranked
<1>4. rank[next[curr]] # rank[curr]
  BY ONLY <1>1, <1>3
<1> QED
  BY <1>1, <1>4

(* The steps that leave the ring alone: they neither unlock the mutex nor  *)
(* enter the second half of an append.                                     *)
Rests ==
  /\ UNCHANGED <<bufVars, accepted>>
  /\ lstLts' => lstLts \/ status[curr] = "FULL"
  /\ At("retest")' \subseteq At("retest")
  /\ MutexFree' => MutexFree

LEMMA Kinds ==
  ASSUME ThreadTypes, HandInv, NEW t \in Thread, Step(t)
  PROVE  \/ AppendHere(t) \/ Retest(t) \/ UseNext(t) \/ AddCell(t) \/ GiveUp(t)
         \/ t \in Persister /\ (TakePartial(t) \/ Clear(t))
         \/ Rests
<1> USE DEF ThreadTypes, Goto, signalVars, lineVars
<1>1. ASSUME UNCHANGED <<bufVars, accepted, seized>>,
             lstLts' => lstLts \/ status[curr] = "FULL",
             pc[t] # "retest", pc' = [pc EXCEPT ![t] = pc'[t]], pc'[t] # "retest"
      PROVE  Rests
  <2>1. At("retest")' = At("retest")
    BY <1>1 DEF At
  <2> QED
    BY <1>1, <2>1 DEF Rests, MutexFree
<1>2. CASE LogLine(t) \/ Warn(t) \/ Reset(t) \/ Refuse(t)
  BY <1>1, <1>2 DEF LogLine, Warn, StartAppend, Reset, Refuse
<1>3. CASE LogStop(t) \/ is_empty(t)
  BY <1>1, <1>3 DEF LogStop, is_empty, OnlyPolls, LoadCurr, TestCurr, LoadPrst, TestPrst
<1>4. CASE Wait(t) \/ NothingThere(t) \/ TakeFull(t) \/ FileOpen(t) \/ FileFails(t) \/ Write(t)
  BY <1>1, <1>4 DEF Wait, Looking, NothingThere, TakeFull, FileOpen, FileFails, Write
<1>5. CASE Interrupt(t)
  <2>1. /\ UNCHANGED <<bufVars, accepted, lstLts>> /\ pc' = [pc EXCEPT ![t] = "warn"]
        /\ pc[t] = "retest" => seized'
        /\ seized => seized'
    BY <1>5 DEF Interrupt
  <2>2. At("retest")' = At("retest") \ {t}
    BY <2>1 DEF At
  <2>3. MutexFree' => MutexFree
    BY <2>1, <2>2 DEF MutexFree, At
  <2> QED
    BY <2>1, <2>2, <2>3 DEF Rests
<1> QED
  BY <1>2, <1>3, <1>4, <1>5 DEF Step, TryAppend, Handler, Persist

LEMMA NextOneRetest ==
  ASSUME RingInv, HandInv, MutexInv, [Next]_vars
  PROVE  OneRetest'
<1>1. ThreadTypes /\ OneRetest
  BY DEF RingInv, TypeInv, MutexInv
<1>2. ASSUME At("retest")' \subseteq At("retest") PROVE OneRetest'
  BY <1>1, <1>2 DEF OneRetest
<1>3. ASSUME NEW t \in Thread, Step(t) PROVE OneRetest'
  <2>1. CASE UseNext(t) \/ AddCell(t) \/ GiveUp(t)
    <3>1. At("retest") = {} /\ pc' = [pc EXCEPT ![t] = "retest"]
      BY <2>1 DEF UseNext, AddCell, GiveUp, CurrIsFilled, MutexFree, Goto
    <3> QED
      BY <1>1, <3>1 DEF ThreadTypes, At, OneRetest
  <2>2. CASE AppendHere(t) \/ Retest(t) \/ TakePartial(t) \/ Clear(t)
    <3>1. pc' = [pc EXCEPT ![t] = pc'[t]] /\ pc'[t] # "retest"
      BY <1>1, <2>2 DEF AppendHere, Retest, TakePartial, Clear, Goto, ThreadTypes
    <3> QED
      BY <1>1, <1>2, <3>1 DEF ThreadTypes, At
  <2>3. CASE Rests
    BY <1>2, <2>3 DEF Rests
  <2> QED
    BY <1>1, <1>3, <2>1, <2>2, <2>3, Kinds
<1>4. CASE UNCHANGED vars
  BY <1>2, <1>4 DEF vars, At
<1> QED
  BY <1>3, <1>4, Steps

LEMMA NextRoomy ==
  ASSUME RingInv, HandInv, MutexInv, [Next]_vars
  PROVE  Roomy'
<1> SUFFICES ASSUME Room' PROVE status'[curr'] = "FREE" /\ ~lstLts'
  BY DEF Roomy
<1>1. /\ CellTypes /\ ThreadTypes /\ curr \in 1..Cells /\ prst \in 1..Cells
      /\ Cells \in Nat /\ MaxCells \in Nat
  BY Numbered, RingLogAssumption DEF RingInv, TypeInv, CellTypes
<1>2. Room
  BY <1>1, OnlyGrows DEF RingInv, TypeInv, Room
<1>3. status[curr] = "FREE" /\ ~lstLts
  BY <1>2 DEF MutexInv, Roomy
<1>4. ASSUME UNCHANGED <<status, curr>>, lstLts' => lstLts \/ status[curr] = "FULL"
      PROVE  status'[curr'] = "FREE" /\ ~lstLts'
  BY <1>3, <1>4
<1>5. ASSUME NEW t \in Thread, Step(t) PROVE status'[curr'] = "FREE" /\ ~lstLts'
  <2>1. CASE AppendHere(t) \/ Retest(t)
    BY <1>4, <2>1 DEF AppendHere, Retest
  <2>2. CASE UseNext(t)
    BY <1>1, <1>3, <2>2, NextDiffers DEF UseNext, CellTypes
  <2>3. CASE AddCell(t)
    <3>1. /\ curr' = Cells + 1 /\ status'[Cells + 1] = "FREE" /\ lstLts' = lstLts
      BY <1>1, <2>3, ExtendedCells, NextCellTypes DEF AddCell, RingInv, TypeInv
    <3> QED
      BY <1>3, <3>1
  <2>4. CASE GiveUp(t)
    <3>1. ~(Cells < MaxCells)
      BY <1>1, <2>4 DEF GiveUp, Cells
    <3> QED
      BY <1>2, <3>1 DEF Room
  <2>5. CASE t \in Persister /\ TakePartial(t)
    <3>1. curr = prst
      BY <1>1, <2>5 DEF TakePartial, RingInv, FreeIsEmpty
    <3>2. status[next[curr]] = "FREE" /\ next[curr] # curr
      BY <1>3, <3>1, NoneFull, NextDiffers
    <3> QED
      BY <1>1, <1>3, <2>5, <3>2, NextDiffers DEF TakePartial, CellTypes
  <2>6. CASE t \in Persister /\ Clear(t)
    BY <1>1, <1>3, <2>6 DEF Clear, CellTypes
  <2>7. CASE Rests
    BY <1>4, <2>7 DEF Rests, bufVars
  <2> QED
    BY <1>1, <1>5, <2>1, <2>2, <2>3, <2>4, <2>5, <2>6, <2>7, Kinds
<1>6. CASE UNCHANGED vars
  BY <1>4, <1>6 DEF vars, bufVars
<1> QED
  BY <1>5, <1>6, Steps

LEMMA NextRetestEmpty ==
  ASSUME RingInv, HandInv, MutexInv, [Next]_vars
  PROVE  RetestEmpty'
<1> SUFFICES ASSUME Room', At("retest")' # {} PROVE cells'[curr'] = <<>>
  BY DEF RetestEmpty
<1>1. /\ CellTypes /\ ThreadTypes /\ curr \in 1..Cells /\ prst \in 1..Cells
      /\ Cells \in Nat /\ MaxCells \in Nat
  BY Numbered, RingLogAssumption DEF RingInv, TypeInv, CellTypes
<1>2. Room
  BY <1>1, OnlyGrows DEF RingInv, TypeInv, Room
<1>3. ASSUME At("retest")' \subseteq At("retest"), UNCHANGED <<cells, curr>>
      PROVE  cells'[curr'] = <<>>
  BY <1>2, <1>3 DEF MutexInv, RetestEmpty
<1>4. ASSUME NEW t \in Thread, Step(t) PROVE cells'[curr'] = <<>>
  <2>1. CASE AppendHere(t) \/ TakePartial(t) \/ Clear(t)
    <3>1. /\ At("retest") = {} /\ pc' = [pc EXCEPT ![t] = pc'[t]] /\ pc'[t] # "retest"
      BY <1>1, <2>1 DEF AppendHere, TakePartial, Looking, Clear, MutexFree, Goto, ThreadTypes
    <3>2. At("retest")' = {}
      BY <1>1, <3>1 DEF At, ThreadTypes
    <3> QED
      BY <3>2
  <2>2. CASE Retest(t)
    <3>1. /\ pc[t] = "retest" /\ pc' = [pc EXCEPT ![t] = "idle"]
      BY <2>2 DEF Retest, Goto
    <3>2. At("retest")' = {}
      BY <1>1, <3>1 DEF At, ThreadTypes, MutexInv, OneRetest
    <3> QED
      BY <3>2
  <2>3. CASE UseNext(t)
    <3>1. cells[next[curr]] = <<>>
      BY <2>3, NextDiffers DEF UseNext, RingInv, FreeIsEmpty
    <3> QED
      BY <2>3, <3>1 DEF UseNext
  <2>4. CASE AddCell(t)
    <3>1. CellTypes'
      BY NextCellTypes DEF RingInv
    <3> QED
      BY <1>1, <2>4, <3>1, ExtendedCells
  <2>5. CASE GiveUp(t)
    <3>1. ~(Cells < MaxCells)
      BY <1>1, <2>5 DEF GiveUp, Cells
    <3> QED
      BY <1>2, <3>1 DEF Room
  <2>6. CASE Rests
    BY <1>3, <2>6 DEF Rests, bufVars
  <2> QED
    BY <1>1, <1>4, <2>1, <2>2, <2>3, <2>4, <2>5, <2>6, Kinds
<1>5. CASE UNCHANGED vars
  BY <1>3, <1>5 DEF vars, bufVars, At
<1> QED
  BY <1>4, <1>5, Steps

(* The mutex is unlocked by Retest only, which puts a line below the limit.*)
LEMMA Unlocks ==
  ASSUME RingInv, HandInv, MutexInv, NEW t \in Thread, Step(t), Room, ~MutexFree, MutexFree'
  PROVE  Retest(t) /\ PutLine
<1>1. ThreadTypes /\ CellTypes /\ Cells \in Nat
  BY Numbered DEF RingInv, TypeInv
<1>2. CASE Retest(t)
  <2>1. cells[curr] = <<>> /\ ~lstLts
    BY <1>2 DEF MutexInv, RetestEmpty, Roomy, Retest, At
  <2>2. Len(cells[curr]) < CellLen
    BY <2>1, EmptySeq, RingLogAssumption
  <2> QED
    BY <1>2, <2>1, <2>2 DEF Retest
<1>3. CASE UseNext(t) \/ AddCell(t) \/ GiveUp(t) \/ AppendHere(t)
  BY <1>3 DEF UseNext, AddCell, GiveUp, CurrIsFilled, AppendHere
<1>4. CASE TakePartial(t) \/ Clear(t)
  BY <1>4 DEF TakePartial, Looking, Clear
<1> QED
  BY <1>1, <1>2, <1>3, <1>4, Kinds DEF Rests

LEMMA NextNoGap ==
  ASSUME RingInv, HandInv, MutexInv, [Next]_vars
  PROVE  NoGap'
<1> SUFFICES ASSUME Room', MutexFree', cells'[curr'] = <<>>, NEW c \in 1..Cells',
                    status'[c] = "FULL"
             PROVE  c = prst'
  BY DEF NoGap
<1>1. /\ CellTypes /\ ThreadTypes /\ curr \in 1..Cells /\ prst \in 1..Cells
      /\ Cells \in Nat /\ MaxCells \in Nat /\ DOMAIN cells = 1..Cells
  BY Numbered, RingLogAssumption DEF RingInv, TypeInv, CellTypes
<1>2. Room
  BY <1>1, OnlyGrows DEF RingInv, TypeInv, Room
<1>3. ASSUME MutexFree, UNCHANGED bufVars PROVE c = prst'
  BY <1>2, <1>3 DEF MutexInv, NoGap, bufVars, Cells, Cell
<1>4. ASSUME NEW t \in Thread, Step(t) PROVE c = prst'
  <2>1. ASSUME PutLine, AppendHere(t) \/ Retest(t) PROVE FALSE
    <3>1. accepted + 1 \in Line
      BY <2>1, NumberFits DEF AppendHere, Retest, RingInv, TypeInv
    <3>2. PICK s \in Seq(Line) : s = cells[curr]
      BY <1>1 DEF CellTypes
    <3>3. Append(s, accepted + 1) # <<>>
      BY <3>1, AppendProperties
    <3>4. cells' = [cells EXCEPT ![curr] = Append(s, accepted + 1)] /\ curr' = curr
      BY <2>1, <3>2 DEF PutLine, AppendHere, Retest
    <3> QED
      BY <1>1, <3>3, <3>4
  <2>2. CASE ~MutexFree
    BY <1>2, <1>4, <2>1, <2>2, Unlocks
  <2>3. CASE MutexFree
    <3>1. CASE AppendHere(t)
      BY <2>1, <3>1 DEF AppendHere
    <3>2. CASE Retest(t)
      BY <2>3, <3>2 DEF Retest, MutexFree, At
    <3>3. CASE UseNext(t) \/ AddCell(t) \/ GiveUp(t)
      <4>1. pc' = [pc EXCEPT ![t] = "retest"]
        BY <3>3 DEF UseNext, AddCell, GiveUp, CurrIsFilled, Goto
      <4> QED
        BY <1>1, <4>1 DEF MutexFree, At, ThreadTypes
    <3>4. CASE t \in Persister /\ TakePartial(t)
      <4>1. /\ cells' = cells /\ prst' = prst /\ status[prst] = "FREE"
            /\ status' = [status EXCEPT ![curr] = "FULL"]
        BY <3>4 DEF TakePartial
      <4>2. curr = prst
        BY <1>1, <3>4 DEF TakePartial, RingInv, FreeIsEmpty
      <4>3. \A d \in 1..Cells : status[d] = "FREE"
        BY <4>1, <4>2, NoneFull
      <4>4. c \in 1..Cells
        BY <4>1 DEF Cells, Cell
      <4> QED
        BY <1>1, <4>1, <4>2, <4>3, <4>4 DEF CellTypes
    <3>5. CASE t \in Persister /\ Clear(t)
      <4>1. /\ cells' = [cells EXCEPT ![prst] = <<>>] /\ curr' = curr
            /\ status' = [status EXCEPT ![prst] = "FREE"]
        BY <3>5 DEF Clear
      <4>2. c \in 1..Cells
        BY <1>1, <4>1 DEF Cells, Cell
      <4>3. curr # prst
        <5>1. status[prst] = "FULL"
          BY <3>5 DEF Clear, RingInv, BeingWritten
        <5> QED
          BY <1>2, <5>1 DEF MutexInv, Roomy
      <4>4. cells[curr] = <<>>
        BY <1>1, <4>1, <4>3
      <4>5. status[c] = "FULL" /\ c # prst
        BY <1>1, <4>1, <4>2 DEF CellTypes
      <4> QED
        BY <1>2, <2>3, <4>2, <4>4, <4>5 DEF MutexInv, NoGap
    <3>6. CASE Rests
      BY <1>3, <2>3, <3>6 DEF Rests
    <3> QED
      BY <1>1, <1>4, <3>1, <3>2, <3>3, <3>4, <3>5, <3>6, Kinds
  <2> QED
    BY <2>2, <2>3
<1>5. CASE UNCHANGED vars
  <2>1. MutexFree
    BY <1>5 DEF vars, signalVars, MutexFree, At
  <2> QED
    BY <1>3, <1>5, <2>1 DEF vars
<1> QED
  BY <1>4, <1>5, Steps

(* What becomes of the quiet while the handler does not read: it was there *)
(* before, and the ring changed, if at all, in one of these ways.          *)
Calms(t) ==
  \/ UNCHANGED <<cells, curr, prst>>
  \/ UseNext(t) \/ AddCell(t)
  \/ t \in Persister /\ (TakePartial(t) \/ Clear(t))

LEMMA QuietBefore ==
  ASSUME RingInv, HandInv, MutexInv, NEW t \in Thread, Step(t), [Next]_vars,
         ~is_empty(t), Quiet'
  PROVE  /\ Quiet /\ Calms(t)
         /\ MutexFree' => MutexFree
<1>1. /\ ThreadTypes /\ before \in 0..accepted /\ accepted \in Nat
      /\ accepted' \in {accepted, accepted + 1} /\ before' = before
      /\ Cells \in Nat /\ Cells' \in Nat /\ Cells <= Cells' /\ MaxCells \in Nat
  BY OnlyGrows, PollsKept, RingLogAssumption DEF RingInv, TypeInv, PollTypes, pollVars
<1>2. accepted' = before' /\ Cells' < MaxCells
  BY DEF Quiet, Cells
<1>3. accepted' = accepted /\ Quiet /\ Room
  BY <1>1, <1>2 DEF Quiet, Room, Cells
<1>4. ~PutLine
  BY <1>1, <1>3 DEF PutLine
<1>5. MutexFree' => MutexFree
  BY <1>3, <1>4, Unlocks
<1>6. Calms(t)
  <2>1. CASE AppendHere(t) \/ Retest(t)
    BY <1>4, <2>1 DEF AppendHere, Retest, Calms
  <2>2. CASE GiveUp(t)
    <3>1. ~(Cells < MaxCells)
      BY <1>1, <2>2 DEF GiveUp, Cells
    <3> QED
      BY <1>3, <3>1 DEF Room
  <2>3. CASE Rests
    BY <2>3 DEF Rests, bufVars, Calms
  <2> QED
    BY <1>1, <2>1, <2>2, <2>3, Kinds DEF Calms
<1> QED
  BY <1>3, <1>5, <1>6

(* Such steps keep what the handler may conclude.                          *)
LEMMA CalmKeeps ==
  ASSUME RingInv, HandInv, NEW t \in Thread, Calms(t), [Next]_vars
  PROVE  /\ AllEmpty => AllEmpty'
         /\ MutexFree' /\ OnlyPrst => OnlyPrst'
         /\ MutexFree' /\ curr' # curr => OnlyPrst'
         /\ prst' # prst /\ OnlyPrst => AllEmpty'
         /\ prst' # prst => MutexFree
<1>1. /\ CellTypes /\ ThreadTypes /\ curr \in 1..Cells /\ prst \in 1..Cells
      /\ Cells \in Nat /\ DOMAIN cells = 1..Cells
  BY Numbered DEF RingInv, TypeInv, CellTypes
<1>2. CASE UNCHANGED <<cells, curr, prst>>
  BY <1>2 DEF AllEmpty, OnlyPrst, Cells, Cell
<1>3. CASE UseNext(t) \/ AddCell(t)
  <2>1. ~MutexFree'
    <3>1. pc' = [pc EXCEPT ![t] = "retest"]
      BY <1>3 DEF UseNext, AddCell, CurrIsFilled, Goto
    <3> QED
      BY <1>1, <3>1 DEF MutexFree, At, ThreadTypes
  <2>2. prst' = prst
    BY <1>3 DEF UseNext, AddCell, CurrIsFilled
  <2>3. CASE UseNext(t)
    BY <2>1, <2>2, <2>3 DEF UseNext, AllEmpty, Cells, Cell
  <2>4. CASE AddCell(t)
    <3>1. /\ Cells' = Cells + 1 /\ cells'[Cells + 1] = <<>>
          /\ \A c \in 1..Cells : cells'[c] = cells[c]
      <4>1. CellTypes'
        BY NextCellTypes DEF RingInv
      <4> QED
        BY <1>1, <2>4, <4>1, ExtendedCells
    <3>2. \A c \in 1..Cells' : c # Cells + 1 => c \in 1..Cells
      BY <1>1, <3>1
    <3> QED
      BY <2>1, <2>2, <3>1, <3>2 DEF AllEmpty
  <2> QED
    BY <1>3, <2>3, <2>4
<1>4. CASE t \in Persister /\ TakePartial(t)
  <2>1. cells' = cells /\ prst' = prst /\ Cells' = Cells /\ status[prst] = "FREE"
    BY <1>4 DEF TakePartial, Cells, Cell
  <2>2. curr = prst
    BY <1>1, <1>4 DEF TakePartial, RingInv, FreeIsEmpty
  <2>3. OnlyPrst
    BY <2>1, <2>2, NoneFull DEF RingInv, FreeIsEmpty, OnlyPrst
  <2> QED
    BY <2>1, <2>3 DEF OnlyPrst, AllEmpty
<1>5. CASE t \in Persister /\ Clear(t)
  <2>1. /\ cells' = [cells EXCEPT ![prst] = <<>>] /\ curr' = curr /\ MutexFree
    BY <1>5 DEF Clear
  <2>2. Cells' = Cells
    BY <1>1, <2>1 DEF Cells, Cell
  <2>3. \A c \in 1..Cells : cells'[c] = IF c = prst THEN <<>> ELSE cells[c]
    BY <1>1, <2>1
  <2>4. OnlyPrst => AllEmpty'
    BY <2>2, <2>3 DEF OnlyPrst, AllEmpty
  <2>5. AllEmpty => AllEmpty'
    BY <2>2, <2>3 DEF AllEmpty
  <2> QED
    BY <2>1, <2>4, <2>5 DEF OnlyPrst, AllEmpty
<1> QED
  BY <1>2, <1>3, <1>4, <1>5 DEF Calms

(* When a free mutex shows an empty current buffer, lines are in the       *)
(* buffer to be persisted only.                                            *)
LEMMA CurrIsEmpty ==
  ASSUME RingInv, MutexInv, Quiet, MutexFree, cells[curr] = <<>>
  PROVE  OnlyPrst
<1>1. CellTypes /\ FreeIsEmpty /\ Room
  BY DEF RingInv, TypeInv, Quiet, Room, Cells
<1>2. \A c \in 1..Cells : status[c] = "FULL" => c = prst
  BY <1>1 DEF MutexInv, NoGap
<1> QED
  BY <1>1, <1>2 DEF FreeIsEmpty, CellTypes, OnlyPrst

LEMMA NextPolls ==
  ASSUME RingInv, HandInv, MutexInv, PollInv, [Next]_vars
  PROVE  PollsCurr' /\ PollsPrst' /\ PollsLast'
<1> DEFINE Goal(h) ==
             /\ pc[h] = "pollCurr" /\ Quiet /\ MutexFree => looked = curr \/ OnlyPrst
             /\ pc[h] \in {"poll2", "pollPrst"} /\ Quiet /\ MutexFree => OnlyPrst
             /\ pc[h] = "pollPrst" /\ Quiet => looked = prst \/ AllEmpty
<1>1. ThreadTypes /\ OneHandler
  BY DEF RingInv, TypeInv
<1>2. \A h \in Thread : Goal(h)
  BY DEF PollInv, PollsCurr, PollsPrst, PollsLast
<1>3. SUFFICES ASSUME NEW h \in Thread PROVE Goal(h)'
  BY DEF PollsCurr, PollsPrst, PollsLast
<1>4. ASSUME NEW t \in Thread, Step(t), ~is_empty(t) PROVE Goal(h)'
  <2> SUFFICES ASSUME pc'[h] \in Polling, Quiet' PROVE Goal(h)'
    BY DEF Polling
  <2>1. pc'[h] = pc[h] /\ looked' = looked
    BY <1>1, <1>4, PollsKept DEF pollVars
  <2>2. Quiet /\ Calms(t) /\ (MutexFree' => MutexFree)
    BY <1>4, QuietBefore
  <2>3. /\ AllEmpty => AllEmpty'
        /\ MutexFree' /\ OnlyPrst => OnlyPrst'
        /\ MutexFree' /\ curr' # curr => OnlyPrst'
        /\ prst' # prst /\ OnlyPrst => AllEmpty'
        /\ prst' # prst => MutexFree
    BY <2>2, CalmKeeps
  <2> QED
    BY <1>2, <2>1, <2>2, <2>3
<1>5. ASSUME NEW t \in Thread, is_empty(t) PROVE Goal(h)'
  <2>1. /\ UNCHANGED <<cells, curr, prst>> /\ accepted' = accepted /\ Cells' = Cells
        /\ (OnlyPrst' <=> OnlyPrst) /\ (AllEmpty' <=> AllEmpty)
        /\ \A v \in Thread : v # t => pc'[v] = pc[v]
        /\ pc[t] \in {"poll", "pollCurr", "poll2", "pollPrst"}
    BY <1>1, <1>5 DEF is_empty, OnlyPolls, LoadCurr, TestCurr, LoadPrst, TestPrst, bufVars,
       lineVars, OnlyPrst, AllEmpty, Cells, Cell, Goto, ThreadTypes
  <2>2. MutexFree' <=> MutexFree
    <3>1. At("retest")' = At("retest") /\ seized' = seized
      BY <1>1, <1>5 DEF is_empty, OnlyPolls, LoadCurr, TestCurr, LoadPrst, TestPrst, At, Goto,
         ThreadTypes
    <3> QED
      BY <3>1 DEF MutexFree
  <2>3. CASE h # t
    <3>1. h \notin handling \/ t \notin handling
      BY <1>1, <2>3 DEF OneHandler
    <3>2. pc[t] \in {"poll", "pollCurr", "poll2", "pollPrst"} /\ pc'[h] = pc[h]
      BY <2>1, <2>3
    <3>3. pc[h] \notin {"pollCurr", "poll2", "pollPrst"}
      BY <1>1, <3>1, <3>2 DEF OneHandler
    <3> QED
      BY <3>2, <3>3
  <2>4. CASE h = t /\ LoadCurr(t)
    BY <1>1, <2>1, <2>4 DEF LoadCurr, Goto, ThreadTypes
  <2>5. CASE h = t /\ LoadPrst(t)
    <3>1. /\ pc[h] = "poll2" /\ pc'[h] = "pollPrst" /\ looked' = prst /\ before' = before
      BY <1>1, <2>5 DEF LoadPrst, Goto, ThreadTypes
    <3>2. Quiet' => Quiet
      BY <2>1, <3>1 DEF Quiet, Cells
    <3> QED
      BY <1>2, <2>1, <2>2, <3>1, <3>2
  <2>6. CASE h = t /\ TestCurr(t)
    <3>1. /\ pc[h] = "pollCurr" /\ looked' = looked /\ before' = before
          /\ pc'[h] = IF cells[looked] = <<>> THEN "poll2" ELSE "poll"
      BY <1>1, <2>6 DEF TestCurr, Goto, ThreadTypes, pollVars
    <3>2. SUFFICES ASSUME pc'[h] = "poll2", Quiet', MutexFree' PROVE OnlyPrst'
      BY <3>1
    <3>3. Quiet /\ MutexFree /\ cells[looked] = <<>>
      BY <2>1, <2>2, <3>1, <3>2 DEF Quiet, Cells
    <3>4. looked = curr \/ OnlyPrst
      BY <1>2, <3>1, <3>3
    <3>5. OnlyPrst
      BY <3>3, <3>4, CurrIsEmpty
    <3> QED
      BY <2>1, <3>5
  <2>7. CASE h = t /\ TestPrst(t)
    BY <1>1, <2>7 DEF TestPrst, Goto, ThreadTypes
  <2> QED
    BY <1>5, <2>3, <2>4, <2>5, <2>6, <2>7 DEF is_empty
<1>6. CASE UNCHANGED vars
  <2>1. Goal(h)' <=> Goal(h)
    BY <1>6 DEF vars, bufVars, signalVars, pollVars, lineVars, Quiet, MutexFree, At, OnlyPrst,
       AllEmpty, Cells, Cell
  <2> QED
    BY <1>2, <2>1
<1> QED
  BY <1>4, <1>5, <1>6, Steps

(* The handler leaves after the last of its four reads.                    *)
LEMMA NextFlushed ==
  ASSUME RingInv, HandInv, PollInv, [Next]_vars
  PROVE  Flushed'
<1>1. ThreadTypes /\ CellTypes
  BY DEF RingInv, TypeInv
<1>2. CASE Next
  <2>1. ~Exited
    BY <1>2 DEF Next
  <2> SUFFICES ASSUME Exited', looked' = prst' \/ Quiet' PROVE AllEmpty'
    BY DEF Flushed
  <2>2. PICK v \in Thread : pc'[v] = "exit" /\ pc[v] # "exit"
    BY <2>1 DEF Exited, At
  <2>3. PICK t \in Thread : Step(t)
    <3>1. pc' # pc
      BY <2>2
    <3> QED
      BY <1>2, <3>1, Steps DEF vars
  <2>4. is_empty(t)
    BY <1>1, <2>2, <2>3, PollsKept DEF Polling
  <2>5. TestPrst(t) /\ cells[looked] = <<>>
    BY <1>1, <2>2, <2>4 DEF is_empty, LoadCurr, TestCurr, LoadPrst, TestPrst, Goto, ThreadTypes
  <2>6. /\ pc[t] = "pollPrst" /\ UNCHANGED <<cells, prst, looked, before, accepted>>
    BY <2>5 DEF TestPrst, OnlyPolls, pollVars, bufVars, lineVars
  <2>7. looked = prst \/ Quiet
    BY <2>6 DEF Quiet, Cell
  <2>8. looked = prst \/ AllEmpty
    BY <2>6, <2>7 DEF PollInv, PollsLast
  <2>9. AllEmpty
    BY <2>5, <2>8, EmptyFromPrst
  <2> QED
    BY <2>6, <2>9 DEF AllEmpty, Cells, Cell
<1>3. CASE UNCHANGED vars
  BY <1>3 DEF vars, bufVars, signalVars, pollVars, lineVars, PollInv, Flushed, Exited, Quiet, At,
     AllEmpty, Cells, Cell
<1> QED
  BY <1>2, <1>3

LEMMA InitHandInv ==
  Init => HandInv
<1> SUFFICES ASSUME Init PROVE HandInv
  OBVIOUS
<1>1. FullHasLines
  <2>1. DOMAIN status = 1..Cells
    BY InitRingInv DEF RingInv, TypeInv, CellTypes
  <2>2. \A c \in DOMAIN status : status[c] = "FREE"
    BY DEF Init
  <2> QED
    BY <2>1, <2>2 DEF FullHasLines
<1>2. PersisterOnly /\ WrittenIsFull
  BY DEF Init, PersisterOnly, WrittenIsFull, Thread
<1> QED
  BY <1>1, <1>2 DEF HandInv

LEMMA InitLinesInv ==
  Init => LinesInv
<1> SUFFICES ASSUME Init PROVE LinesInv
  OBVIOUS
<1>1. /\ \A c \in 1..Cells : cells[c] = <<>> /\ Shelf(c) = <<>>
      /\ disk = <<>> /\ accepted = 0 /\ exempt = {}
  <2>1. RingInv
    BY InitRingInv
  <2>2. DOMAIN cells = 1..Cells
    BY <2>1 DEF RingInv, TypeInv, CellTypes
  <2> QED
    BY <2>2 DEF Init, Shelf
<1>2. Stored
  <2>1. \A l \in Line : ~(l <= 0)
    BY RingLogAssumption DEF Line
  <2> QED
    BY <1>1, <2>1, NothingInEmpty DEF Stored
<1>3. Sorted
  BY <1>1, NothingInEmpty DEF Sorted
<1>4. OrderedRing
  <2>1. PICK rank \in [1..Cells -> 0..Cells - 1] : Ranked(rank) /\ Filled(rank)
    BY InitRingInv DEF RingInv, Ring
  <2>2. Ordered(rank)
    BY <1>1, NothingInEmpty DEF Ordered
  <2> QED
    BY <2>1, <2>2 DEF OrderedRing
<1> QED
  BY <1>2, <1>3, <1>4 DEF LinesInv

LEMMA InitMutexInv ==
  Init => MutexInv /\ PollInv
<1> SUFFICES ASSUME Init PROVE MutexInv /\ PollInv
  OBVIOUS
<1>1. \A c \in 1..Cells : status[c] = "FREE"
  <2>1. DOMAIN status = 1..Cells
    BY InitRingInv DEF RingInv, TypeInv, CellTypes
  <2> QED
    BY <2>1 DEF Init
<1>2. curr \in 1..Cells /\ ~lstLts
  BY InitRingInv DEF Init, RingInv, TypeInv, CellTypes
<1>3. \A t \in Thread : pc[t] \in {"top", "idle"}
  BY DEF Init
<1>4. MutexInv
  BY <1>1, <1>2, <1>3 DEF MutexInv, OneRetest, Roomy, RetestEmpty, NoGap, At
<1>5. PollInv
  BY <1>3 DEF PollInv, PollsCurr, PollsPrst, PollsLast, Flushed, Exited, At
<1> QED
  BY <1>4, <1>5

LEMMA LinesInvariance ==
  ASSUME OnePersister
  PROVE  Spec => [](RingInv /\ LinesInv /\ PollInv)
<1>1. Init => RingInv /\ HandInv /\ LinesInv /\ MutexInv /\ PollInv
  BY InitRingInv, InitHandInv, InitLinesInv, InitMutexInv
<1>2. ASSUME RingInv, HandInv, LinesInv, MutexInv, PollInv, [Next]_vars
      PROVE  RingInv' /\ HandInv' /\ LinesInv' /\ MutexInv' /\ PollInv'
  <2>1. RingInv'
    BY <1>2, NextTypeInv, NextRing, NextFreeIsEmpty, NextBeingWritten DEF RingInv
  <2>2. HandInv'
    <3>1. FullHasLines'
      BY <1>2, NextFullHasLines
    <3>2. PersisterOnly'
      BY <1>2, NextPersisterOnly DEF RingInv, HandInv
    <3>3. WrittenIsFull'
      BY <1>2, NextWrittenIsFull
    <3> QED
      BY <3>1, <3>2, <3>3 DEF HandInv
  <2>3. KeepsLines \/ PutsOne \/ WritesOne
    BY <1>2, <2>1, <2>2, LineStep
  <2>4. Stored'
    BY <1>2, <2>1, <2>3, NextStored DEF RingInv, LinesInv
  <2>5. Sorted'
    BY <1>2, <2>3, NextSorted DEF RingInv, LinesInv
  <2>6. OrderedRing'
    BY <1>2, <2>3, NextOrderedRing DEF LinesInv
  <2>7. MutexInv'
    BY <1>2, NextOneRetest, NextRoomy, NextRetestEmpty, NextNoGap DEF MutexInv
  <2>8. PollInv'
    BY <1>2, NextPolls, NextFlushed DEF PollInv
  <2> QED
    BY <2>1, <2>2, <2>4, <2>5, <2>6, <2>7, <2>8 DEF LinesInv
<1>3. RingInv /\ HandInv /\ LinesInv /\ MutexInv /\ PollInv /\ [Next]_vars
      => RingInv' /\ HandInv' /\ LinesInv' /\ MutexInv' /\ PollInv'
  BY <1>2
<1> QED
  BY <1>1, <1>3, PTL DEF Spec

(* Range, as RingLog says it, and the lines of a sequence.                 *)
LEMMA RangeIsIn ==
  ASSUME NEW s \in Seq(Line), NEW l
  PROVE  l \in Range(s) <=> In(s, l)
BY DEF Range, In

LEMMA LinesNumbered ==
  ASSUME TypeInv, NEW l \in Line
  PROVE  l \in 1..accepted <=> l <= accepted
BY RingLogAssumption DEF TypeInv, LineTypes, Line

(* Every line accepted, but for the exempt, is on disk or in a buffer, and *)
(* the lines are in the order of their acceptance along the disk and then  *)
(* the ring, which grows in the middle, wraps around and is given back     *)
(* while others log: lost are only lines put in a buffer that was being    *)
(* written, or cut off by a short fwrite.                                  *)
THEOREM OnlyTheExemptAreLost ==
  ASSUME OnePersister
  PROVE  Spec => []OnlyExemptLinesLost
<1>1. RingInv /\ LinesInv => OnlyExemptLinesLost
  <2> SUFFICES ASSUME RingInv, LinesInv PROVE OnlyExemptLinesLost
    OBVIOUS
  <2>1. /\ CellTypes /\ TypeInv /\ disk \in Seq(Line) /\ accepted \in 0..MaxLine + 1
        /\ Cell = 1..Cells /\ Cells \in Nat \ {0} /\ prst \in 1..Cells
    BY Numbered DEF RingInv, TypeInv, LineTypes, CellTypes
  <2>2. \A c \in Cell : Shelf(c) \in Seq(Line)
    BY <2>1, ShelfType
  <2>3. (1..accepted) \ exempt = (Range(disk) \union UNION {Range(Shelf(c)) : c \in Cell}) \ exempt
    <3> DEFINE All == Range(disk) \union UNION {Range(Shelf(c)) : c \in Cell}
    <3>1. ASSUME NEW l PROVE l \in All <=> In(disk, l) \/ \E c \in Cell : In(Shelf(c), l)
      <4>1. l \in Range(disk) <=> In(disk, l)
        BY <2>1, RangeIsIn
      <4>2. \A c \in Cell : l \in Range(Shelf(c)) <=> In(Shelf(c), l)
        BY <2>2, RangeIsIn
      <4> QED
        BY <4>1, <4>2
    <3>2. ASSUME NEW l, l \in All PROVE l \in Line
      <4>1. ASSUME NEW s \in Seq(Line), In(s, l) PROVE l \in Line
        BY <4>1, LenProperties DEF In
      <4> QED
        BY <2>1, <2>2, <3>1, <3>2, <4>1
    <3>3. ASSUME NEW l, l \in 1..accepted PROVE l \in Line
      BY <2>1, <3>3, RingLogAssumption DEF Line
    <3>4. ASSUME NEW l \in Line, l \notin exempt PROVE l \in 1..accepted <=> l \in All
      <4>1. l \in 1..accepted <=> l <= accepted
        BY <2>1, LinesNumbered
      <4>2. l <= accepted <=> In(disk, l) \/ \E c \in Cell : In(Shelf(c), l)
        BY <2>1, <3>4, Zenon DEF LinesInv, Stored
      <4> QED
        BY <3>1, <4>1, <4>2
    <3> HIDE DEF All
    <3>5. (1..accepted) \ exempt = All \ exempt
      BY <3>2, <3>3, <3>4
    <3> QED
      BY <3>5 DEF All
  <2>4. /\ Ascending(disk)
        /\ \A c \in Cell : Ascending(Shelf(c)) /\ Precedes(disk, Shelf(c))
    BY <2>1 DEF LinesInv, Sorted, Rises, Before, Ascending, Precedes
  <2>5. \E far \in Distances :
          \A c, d \in Cell : far[c] < far[d] => Precedes(Shelf(c), Shelf(d))
    <3>1. PICK rank \in [1..Cells -> 0..Cells - 1] : Ranked(rank) /\ Ordered(rank)
      BY DEF LinesInv, OrderedRing
    <3>2. rank \in Distances
      <4>1. rank[prst] = 0
        BY <3>1 DEF Ranked
      <4>2. ASSUME NEW c \in 1..Cells, next[c] # prst PROVE rank[next[c]] = rank[c] + 1
        <5>1. rank[c] # Cells - 1
          BY <2>1, <3>1, <4>2, AfterLast
        <5> QED
          BY <3>1, <5>1 DEF Ranked
      <4> QED
        BY <2>1, <4>1, <4>2 DEF Distances, Cells
    <3>3. \A c, d \in Cell : rank[c] < rank[d] => Precedes(Shelf(c), Shelf(d))
      BY <2>1, <3>1 DEF Ordered, Before, Precedes
    <3> QED
      BY <3>2, <3>3
  <2> QED
    BY <2>3, <2>4, <2>5 DEF OnlyExemptLinesLost
<1> QED
  BY <1>1, LinesInvariance, PTL

(* When the handler leaves, every line that is not exempt is on disk, if   *)
(* the buffer it tested last is still the one to be persisted, or if no    *)
(* line went into the ring while it read the four values of is_empty and   *)
(* the ring is below the memory limit: then the empty current buffer it    *)
(* saw followed the one being persisted, and that one, or the whole ring,  *)
(* was empty at the last read.                                             *)
THEOREM TheExitIsFlushed ==
  ASSUME OnePersister
  PROVE  Spec => []ExitIsFlushed
<1>1. RingInv /\ LinesInv /\ PollInv => ExitIsFlushed
  <2> SUFFICES ASSUME RingInv, LinesInv, PollInv, Exited, looked = prst \/ Quiet,
                      NEW l \in 1..accepted, l \notin exempt
               PROVE  l \in Range(disk)
    BY DEF ExitIsFlushed
  <2>1. /\ TypeInv /\ disk \in Seq(Line) /\ accepted \in 0..MaxLine + 1
    BY DEF RingInv, TypeInv, LineTypes
  <2>2. l \in Line /\ l <= accepted
    BY <2>1, RingLogAssumption DEF Line
  <2>3. \A c \in 1..Cells : ~In(Shelf(c), l)
    BY NothingInEmpty DEF PollInv, Flushed, AllEmpty, Shelf
  <2>4. In(disk, l)
    BY <2>2, <2>3, Zenon DEF LinesInv, Stored
  <2> QED
    BY <2>1, <2>4, RangeIsIn
<1> QED
  BY <1>1, LinesInvariance, PTL
=============================================================================
