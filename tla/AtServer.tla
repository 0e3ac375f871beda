----------------------------- MODULE AtServer -----------------------------
(***************************************************************************)
(* The AT command server, components/ln_at: the receive interrupt of the   *)
(* UART (bsp/serial_hw.c) queues characters, the transfer task             *)
(* (ln_at_transfer.c) edits them into a line, and the parser task          *)
(* (ln_at_server.c) parses and executes the line.  The BUSY status is what *)
(* keeps the two tasks from using the line at the same time.               *)
(*                                                                         *)
(* Characters are reduced to what the line editor tells apart.  Every      *)
(* access under ln_at_lock is a single one, hence atomic here.  The        *)
(* receive FIFO is the queue that Fifo implements.                         *)
(***************************************************************************)
EXTENDS Integers, Sequences

CONSTANTS
  MaxLine,     \* LN_AT_MAX_LINE_SIZE
  RxSize,      \* characters that fit the receive FIFO
  SemMax       \* the limit of the semaphore of the transfer task (1024)

ASSUME AtAssumption ==
  /\ MaxLine \in Nat /\ MaxLine > 2
  /\ RxSize \in Nat \ {0}
  /\ SemMax \in Nat \ {0}

VARIABLES
  rx,          \* the receive FIFO
  tsem,        \* the semaphore of the transfer task
  tpc,         \* where the transfer task is
  ch,          \* the character it has read
  status,      \* LN_AT_STATUS_IDLE or LN_AT_STATUS_BUSY
  line,        \* in_buff up to index
  psem,        \* g_ln_at_parser_sem
  ppc          \* where the parser task is

atVars == <<rx, tsem, tpc, ch, status, line, psem, ppc>>

\* A printable character, the two halves of the end mark, escape, backspace.
Chars == {"c", "CR", "LF", "ESC", "BS"}

Init ==
  /\ rx = <<>>
  /\ tsem = 0
  /\ tpc = "wait"
  /\ ch = "c"
  /\ status = "IDLE"
  /\ line = <<>>
  /\ psem = 0
  /\ ppc = "wait"

Released(sem, max) == IF sem < max THEN sem + 1 ELSE sem

----------------------------------------------------------------------------
(* The interrupt: uart1_recv_data_isr and ln_serial_rx_callbcak.  A full   *)
(* FIFO is emptied first.                                                  *)

\* Mutant: the task is woken at the end of a line only.
RxIsrLineOnly(c) ==
  /\ rx' = IF Len(rx) = RxSize THEN <<c>> ELSE Append(rx, c)
  /\ tsem' = IF c = "LF" THEN Released(tsem, SemMax) ELSE tsem
  /\ UNCHANGED <<tpc, ch, status, line, psem, ppc>>

RxIsr(c) ==
  /\ rx' = IF Len(rx) = RxSize THEN <<c>> ELSE Append(rx, c)
  /\ tsem' = Released(tsem, SemMax)
  /\ UNCHANGED <<tpc, ch, status, line, psem, ppc>>

----------------------------------------------------------------------------
(* The transfer task: ln_transfer_task and ln_at_preparser.                *)

TWait ==
  /\ tpc = "wait"
  /\ tsem > 0
  /\ tsem' = tsem - 1
  /\ tpc' = "loop"
  /\ UNCHANGED <<rx, ch, status, line, psem, ppc>>

\* The inner loop runs until the FIFO is empty.
TLoop ==
  /\ tpc = "loop"
  /\ tpc' = IF rx = <<>> THEN "wait" ELSE "read"
  /\ UNCHANGED <<rx, tsem, ch, status, line, psem, ppc>>

\* serial_read of one character.
TRead ==
  /\ tpc = "read"
  /\ IF rx = <<>>
     THEN tpc' = "loop" /\ UNCHANGED <<rx, ch>>
     ELSE tpc' = "status" /\ ch' = Head(rx) /\ rx' = Tail(rx)
  /\ UNCHANGED <<tsem, status, line, psem, ppc>>

\* Mutant: the status is not looked at.
TStatusIgnored ==
  /\ tpc = "status"
  /\ tpc' = "char"
  /\ UNCHANGED <<rx, tsem, ch, status, line, psem, ppc>>

\* ln_at_preparser drops the character while the parser is busy.
TStatus ==
  /\ tpc = "status"
  /\ tpc' = IF status = "BUSY" THEN "loop" ELSE "char"
  /\ UNCHANGED <<rx, tsem, ch, status, line, psem, ppc>>

\* strstr(in_buff, "\r\n").
HasEndMark(s) == \E i \in 1 .. Len(s) - 1 : s[i] = "CR" /\ s[i + 1] = "LF"

\* The test behind CR and LF.  strstr runs past a buffer that is full and has
\* no end mark, into whatever memory is behind it.
AfterEnd(s) ==
  IF Len(s) > 2 /\ HasEndMark(s) THEN {"busy"}
  ELSE IF Len(s) > 2 /\ Len(s) = MaxLine THEN {"busy", "full"}
  ELSE {"full"}

\* The line editor; the tests at the end of ln_at_preparser follow unless it
\* returns early.
TChar ==
  /\ tpc = "char"
  /\ CASE ch = "ESC" -> line' = <<>> /\ tpc' = "loop"
       [] ch = "BS"  -> /\ line' = SubSeq(line, 1, Len(line) - 1)
                        /\ tpc' = "loop"
       [] ch = "c"   -> line' = Append(line, ch) /\ tpc' = "full"
       [] OTHER      -> /\ line' = Append(line, ch)
                        /\ tpc' \in AfterEnd(line')
  /\ UNCHANGED <<rx, tsem, ch, status, psem, ppc>>

\* LN_AT_PARSER_BUSY_SET.
TBusy ==
  /\ tpc = "busy"
  /\ status' = "BUSY"
  /\ tpc' = "notify"
  /\ UNCHANGED <<rx, tsem, ch, line, psem, ppc>>

\* ln_at_parser_notify.
TNotify ==
  /\ tpc = "notify"
  /\ psem' = Released(psem, 2)
  /\ tpc' = "full"
  /\ UNCHANGED <<rx, tsem, ch, status, line, ppc>>

\* The line has reached the end of the buffer: LN_AT_RESET_PARSER_ENV.
TFull ==
  /\ tpc = "full"
  /\ line' = IF Len(line) >= MaxLine THEN <<>> ELSE line
  /\ tpc' = "loop"
  /\ UNCHANGED <<rx, tsem, ch, status, psem, ppc>>

Transfer == TWait \/ TLoop \/ TRead \/ TStatus \/ TChar \/ TBusy \/ TNotify \/ TFull

----------------------------------------------------------------------------
(* The parser task: ln_at_parser_task.                                     *)

PWait ==
  /\ ppc = "wait"
  /\ psem > 0
  /\ psem' = psem - 1
  /\ ppc' = "parse"
  /\ UNCHANGED <<rx, tsem, tpc, ch, status, line>>

\* ln_at_cmd_parse; its result is not looked at.
PParse ==
  /\ ppc = "parse"
  /\ ppc' = "do"
  /\ UNCHANGED <<rx, tsem, tpc, ch, status, line, psem>>

\* ln_at_parser_get_result and ln_at_cmd_do: the command runs, on parameters
\* that point into the line.
PDo ==
  /\ ppc = "do"
  /\ ppc' = "reset"
  /\ UNCHANGED <<rx, tsem, tpc, ch, status, line, psem>>

\* LN_AT_RESET_PARSER_ENV.
PReset ==
  /\ ppc = "reset"
  /\ line' = <<>>
  /\ ppc' = "clear"
  /\ UNCHANGED <<rx, tsem, tpc, ch, status, psem>>

\* Mutant: the parser goes back to wait without LN_AT_PARSER_BUSY_CLR.
PClearForgotten ==
  /\ ppc = "clear"
  /\ ppc' = "wait"
  /\ UNCHANGED <<rx, tsem, tpc, ch, status, line, psem>>

\* LN_AT_PARSER_BUSY_CLR.
PClear ==
  /\ ppc = "clear"
  /\ status' = "IDLE"
  /\ ppc' = "wait"
  /\ UNCHANGED <<rx, tsem, tpc, ch, line, psem>>

Parser == PWait \/ PParse \/ PDo \/ PReset \/ PClear

----------------------------------------------------------------------------
Next ==
  \/ \E c \in Chars : RxIsr(c)
  \/ Transfer
  \/ Parser

\* Both tasks have the same priority and share the processor in time slices.
Spec == Init /\ [][Next]_atVars /\ WF_atVars(Transfer) /\ WF_atVars(Parser)

----------------------------------------------------------------------------
(* Properties *)

TypeOK ==
  /\ rx \in Seq(Chars) /\ Len(rx) <= RxSize
  /\ tsem \in 0 .. SemMax
  /\ tpc \in {"wait", "loop", "read", "status", "char", "busy", "notify", "full"}
  /\ ch \in Chars
  /\ status \in {"IDLE", "BUSY"}
  /\ line \in Seq(Chars) /\ Len(line) <= MaxLine
  /\ psem \in 0 .. 2
  /\ ppc \in {"wait", "parse", "do", "reset", "clear"}

\* BUSY stands for exactly one line on its way through the parser: a line is
\* never notified twice, no notification is lost in the semaphore, and the
\* server is not left BUSY without a parse that will clear it.
BusyIsOneParse ==
  (IF status = "BUSY" THEN 1 ELSE 0) =
    psem + (IF ppc # "wait" THEN 1 ELSE 0) + (IF tpc = "notify" THEN 1 ELSE 0)

\* The semaphore counts to SemMax only, and a character may arrive between the
\* emptiness test and the wait: the transfer task never sleeps on a FIFO that
\* holds a character.
NoLostWakeup == tpc = "wait" /\ rx # <<>> => tsem > 0

\* While a line that does not fill the buffer is parsed and its command runs,
\* nobody changes it under the parser.
LineStable ==
  [][(ppc \in {"parse", "do"} /\ Len(line) < MaxLine) => line' = line]_atVars

\* The server does not stay BUSY.
BusyEnds == status = "BUSY" ~> status = "IDLE"

=============================================================================
