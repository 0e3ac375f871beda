--------------------------- MODULE AtServerProofs ---------------------------
(***************************************************************************)
(* Proofs about the AT server, for every size of the line, of the receive  *)
(* FIFO and of the semaphore: one line is parsed at a time, no wakeup is   *)
(* lost, and a line that fits the buffer is not changed under the parser.  *)
(***************************************************************************)
EXTENDS AtServer, SequenceTheorems, TLAPS

\* The line reaches the end of the buffer only between the character that
\* fills it and the test that clears it, so there is room for a character
\* whenever the editor appends one.
RoomInLine == tpc \in {"wait", "loop", "read", "status", "char"} => Len(line) < MaxLine

\* The status that the transfer task has seen IDLE stays so until the task
\* itself sets it: the parser only clears it.
IdleSeen == tpc \in {"char", "busy"} => status = "IDLE"

\* The inductive invariant.
AtInv ==
  /\ TypeOK
  /\ RoomInLine
  /\ IdleSeen
  /\ BusyIsOneParse
  /\ NoLostWakeup

\* The server starts idle, with nothing received.
LEMMA AtInitInv == Init => AtInv
  BY AtAssumption DEF Init, AtInv, TypeOK, Chars, RoomInLine, IdleSeen, BusyIsOneParse,
     NoLostWakeup

\* A release never decreases a semaphore, keeps it within its limit, and
\* leaves it positive.
LEMMA ReleasedFacts ==
  ASSUME NEW max \in Nat \ {0}, NEW sem \in 0 .. max
  PROVE  Released(sem, max) \in 1 .. max
  BY DEF Released

\* The interrupt changes the FIFO and the semaphore of the transfer task.
LEMMA RxIsrInv ==
  ASSUME AtInv, NEW c \in Chars, RxIsr(c)
  PROVE  AtInv'
<1>1. rx' \in Seq(Chars) /\ Len(rx') <= RxSize
  BY AtAssumption DEF AtInv, TypeOK, RxIsr
<1>2. tsem' \in 1 .. SemMax
  BY AtAssumption, ReleasedFacts DEF AtInv, TypeOK, RxIsr
<1> QED
  BY <1>1, <1>2 DEF AtInv, TypeOK, RxIsr, RoomInLine, IdleSeen, BusyIsOneParse, NoLostWakeup

\* A character that the editor appends fits the buffer, and what it deletes
\* leaves a line.
LEMMA TCharLine ==
  ASSUME AtInv, TChar
  PROVE  /\ line' \in Seq(Chars)
         /\ Len(line') <= MaxLine
         /\ tpc' \in {"loop", "full", "busy"}
         /\ tpc' = "loop" => Len(line') < MaxLine
<1>0. line \in Seq(Chars) /\ Len(line) \in Nat /\ Len(line) < MaxLine /\ ch \in Chars
  BY DEF AtInv, TypeOK, RoomInLine, TChar
<1>1. CASE ch = "ESC"
  BY <1>1, AtAssumption DEF TChar
<1>2. CASE ch = "BS"
  <2>1. line' = SubSeq(line, 1, Len(line) - 1) /\ tpc' = "loop"
    BY <1>2 DEF TChar
  <2>2. CASE line = <<>>
    BY <2>1, <2>2, AtAssumption
  <2>3. CASE line # <<>>
    <3> DEFINE n == Len(line) - 1
    <3>1. n \in Nat /\ \A i \in 1 .. n : line[i] \in Chars
      BY <1>0, <2>3
    <3>2. \A m \in Nat : (IF 1 <= m THEN m - 1 + 1 ELSE 0) = m
      OBVIOUS
    <3>3. /\ SubSeq(line, 1, n) \in Seq(Chars)
          /\ Len(SubSeq(line, 1, n)) = IF 1 <= n THEN n - 1 + 1 ELSE 0
      BY <3>1, SubSeqProperties
    <3>4. line' \in Seq(Chars) /\ Len(line') = n
      BY <2>1, <3>1, <3>2, <3>3, Zenon
    <3> QED
      BY <1>0, <2>1, <3>4, AtAssumption
  <2> QED
    BY <2>2, <2>3
<1>3. CASE ch = "c"
  BY <1>0, <1>3, AtAssumption DEF TChar
<1>4. CASE ch \in {"CR", "LF"}
  <2>1. line' = Append(line, ch) /\ tpc' \in AfterEnd(line')
    BY <1>4 DEF TChar
  <2>2. tpc' \in {"full", "busy"}
    BY <2>1 DEF AfterEnd
  <2> QED
    BY <1>0, <2>1, <2>2, AtAssumption
<1> QED
  BY <1>0, <1>1, <1>2, <1>3, <1>4 DEF Chars

\* The steps of the transfer task.
LEMMA TransferInv ==
  ASSUME AtInv, Transfer
  PROVE  AtInv'
<1> USE DEF AtInv, RoomInLine, IdleSeen, BusyIsOneParse, NoLostWakeup
<1>1. CASE TWait
  BY <1>1, AtAssumption DEF TWait, TypeOK
<1>2. CASE TLoop
  BY <1>2 DEF TLoop, TypeOK
<1>3. CASE TRead
  <2>1. CASE rx = <<>>
    BY <1>3, <2>1 DEF TRead, TypeOK
  <2>2. CASE rx # <<>>
    <3>1. Head(rx) \in Chars /\ Tail(rx) \in Seq(Chars) /\ Len(Tail(rx)) <= RxSize
      BY <2>2, AtAssumption DEF TypeOK
    <3> QED
      BY <1>3, <2>2, <3>1 DEF TRead, TypeOK
  <2> QED
    BY <2>1, <2>2
<1>4. CASE TStatus
  BY <1>4 DEF TStatus, TypeOK
<1>5. CASE TChar
  <2>1. UNCHANGED <<rx, tsem, ch, status, psem, ppc>> /\ tpc = "char"
    BY <1>5 DEF TChar
  <2> QED
    BY <1>5, <2>1, TCharLine DEF TypeOK
<1>6. CASE TBusy
  BY <1>6 DEF TBusy, TypeOK
<1>7. CASE TNotify
  BY <1>7 DEF TNotify, TypeOK, Released
<1>8. CASE TFull
  BY <1>8, AtAssumption DEF TFull, TypeOK
<1> QED
  BY <1>1, <1>2, <1>3, <1>4, <1>5, <1>6, <1>7, <1>8 DEF Transfer

\* The steps of the parser task.
LEMMA ParserInv ==
  ASSUME AtInv, Parser
  PROVE  AtInv'
<1> USE DEF AtInv, TypeOK, RoomInLine, IdleSeen, BusyIsOneParse, NoLostWakeup
<1>1. CASE PWait
  BY <1>1 DEF PWait
<1>2. CASE PParse
  BY <1>2 DEF PParse
<1>3. CASE PDo
  BY <1>3 DEF PDo
<1>4. CASE PReset
  BY <1>4, AtAssumption DEF PReset
<1>5. CASE PClear
  BY <1>5 DEF PClear
<1> QED
  BY <1>1, <1>2, <1>3, <1>4, <1>5 DEF Parser

\* Every step of the server keeps the invariant.
LEMMA AtNextInv == AtInv /\ [Next]_atVars => AtInv'
<1> SUFFICES ASSUME AtInv, [Next]_atVars PROVE AtInv'
  OBVIOUS
<1>1. CASE UNCHANGED atVars
  BY <1>1 DEF atVars, AtInv, TypeOK, RoomInLine, IdleSeen, BusyIsOneParse, NoLostWakeup
<1> QED
  BY <1>1, RxIsrInv, TransferInv, ParserInv DEF Next

\* The tasks and the interrupt keep the inductive invariant.
LEMMA AtInvariant == Spec => []AtInv
  BY AtInitInv, AtNextInv, PTL DEF Spec

\* The line never grows past its buffer, whatever is received and however
\* often the end marks are missing, and no semaphore past its limit.
THEOREM AtTypes == Spec => []TypeOK
  BY AtInvariant, PTL DEF AtInv

\* One line at a time goes through the parser, and BUSY is what says so.
THEOREM AtBusyIsOneParse == Spec => []BusyIsOneParse
  BY AtInvariant, PTL DEF AtInv

\* The transfer task does not sleep on a character, for every limit of its
\* semaphore and every size of the FIFO.
THEOREM AtNoLostWakeup == Spec => []NoLostWakeup
  BY AtInvariant, PTL DEF AtInv

\* Nobody changes the line while it is parsed and its command runs, unless it
\* fills the buffer.
THEOREM AtLineStable == Spec => LineStable
<1>1. ASSUME AtInv, Next, ppc \in {"parse", "do"}, Len(line) < MaxLine
      PROVE  line' = line
  <2>1. status = "BUSY"
    BY <1>1 DEF AtInv, TypeOK, BusyIsOneParse
  <2>2. ~TChar
    BY <1>1, <2>1 DEF AtInv, IdleSeen, TChar
  <2>3. ASSUME Transfer PROVE line' = line
    <3>1. TFull => line' = line
      BY <1>1, AtAssumption DEF TFull, AtInv, TypeOK
    <3> QED
      BY <2>2, <2>3, <3>1 DEF Transfer, TWait, TLoop, TRead, TStatus, TBusy, TNotify
  <2>4. ASSUME Parser PROVE line' = line
    BY <1>1, <2>4 DEF Parser, PWait, PParse, PDo, PReset, PClear
  <2>5. ASSUME NEW c \in Chars, RxIsr(c) PROVE line' = line
    BY <2>5 DEF RxIsr
  <2> QED
    BY <1>1, <2>3, <2>4, <2>5 DEF Next
<1>2. AtInv /\ [Next]_atVars =>
        [(ppc \in {"parse", "do"} /\ Len(line) < MaxLine) => line' = line]_atVars
  BY <1>1
<1> QED
  BY <1>2, AtInvariant, PTL DEF Spec, LineStable

=============================================================================
