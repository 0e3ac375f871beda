------------------------------ MODULE SerialTx ------------------------------
(***************************************************************************)
(* The transmit side of a serial port, components/serial/serial.c with the *)
(* polling driver of bsp/serial_hw.c, over the ring buffer of Fifo: a task *)
(* that puts a character pushes it into the FIFO and then empties the FIFO *)
(* into the UART itself.  Tasks share a port without a lock: the echo of   *)
(* the AT transfer task with the output of the AT parser task, and the log *)
(* of every task.                                                          *)
(***************************************************************************)
EXTENDS Fifo, FiniteSets

CONSTANTS
  Tasks,       \* the tasks that use the port
  MaxPuts,     \* bound: characters put by a task
  MaxChars     \* bound: characters put by all tasks

\* Characters are told apart by who put them; NUL is what a pop of an empty
\* FIFO returns.
Chars == Tasks \X (1 .. MaxPuts)
NUL == NoByte

ASSUME TxAssumption ==
  /\ IsFiniteSet(Tasks)
  /\ MaxPuts \in Nat /\ MaxChars \in Nat
  /\ Chars \subseteq Byte

VARIABLES
  tpc,         \* where a task is
  held,        \* the character that a task has popped and not yet sent
  puts,        \* characters put by a task so far
  wire,        \* how often the UART was given a character
  dropped      \* characters that met a full FIFO

txVars == <<fifoVars, tpc, held, puts, wire, dropped>>

Current(t) == <<t, puts[t]>>

Goto(t, l) == tpc' = [tpc EXCEPT ![t] = l]

TxInit ==
  /\ Init
  /\ tpc = [t \in Tasks |-> "idle"]
  /\ held = [t \in Tasks |-> NUL]
  /\ puts = [t \in Tasks |-> 0]
  /\ wire = [c \in Chars \cup {NUL} |-> 0]
  /\ dropped = {}

\* serial_putchar is called, by serial_write for every character of a buffer.
PutChar(t) ==
  /\ tpc[t] = "idle"
  /\ puts[t] < MaxPuts
  /\ Cardinality({c \in Chars : c[2] <= puts[c[1]]}) < MaxChars
  /\ puts' = [puts EXCEPT ![t] = @ + 1]
  /\ Goto(t, "full")
  /\ UNCHANGED <<fifoVars, held, wire, dropped>>

\* If the FIFO is full, txStart empties it before the push.
TestFull(t) ==
  /\ tpc[t] = "full"
  /\ Goto(t, IF IsFull THEN "drain1" ELSE "push")
  /\ UNCHANGED <<fifoVars, held, puts, wire, dropped>>

\* fifo_push: a full FIFO drops the character.
Pushed(t) ==
  /\ Push(Current(t))
  /\ dropped' = IF IsFull THEN dropped \cup {Current(t)} ELSE dropped

\* Mutant: the transmission is not started after the push.
PutPushOnly(t) ==
  /\ tpc[t] = "push"
  /\ Pushed(t)
  /\ Goto(t, "idle")
  /\ UNCHANGED <<held, puts, wire>>

\* fifo_push and the second txStart.
PutPush(t) ==
  /\ tpc[t] = "push"
  /\ Pushed(t)
  /\ Goto(t, "drain2")
  /\ UNCHANGED <<held, puts, wire>>

\* Where the emptiness test of the loop leads: into it, or on behind txStart.
Tested(t) ==
  IF tpc[t] = "drain1"
  THEN IF IsEmpty THEN "push" ELSE "pop1"
  ELSE IF IsEmpty THEN "idle" ELSE "pop2"

\* Mutant: a task waits until no other task is transmitting.
DrainTestAlone(t) ==
  /\ tpc[t] \in {"drain1", "drain2"}
  /\ \A u \in Tasks \ {t} : IsEmpty => tpc[u] = "idle"
  /\ Goto(t, Tested(t))
  /\ UNCHANGED <<fifoVars, held, puts, wire, dropped>>

\* hw_uart_tx_start_polling: the emptiness test ...
DrainTest(t) ==
  /\ tpc[t] \in {"drain1", "drain2"}
  /\ Goto(t, Tested(t))
  /\ UNCHANGED <<fifoVars, held, puts, wire, dropped>>

\* ... the pop, which may find that another task has taken the last character ...
DrainPop(t) ==
  /\ tpc[t] \in {"pop1", "pop2"}
  /\ Pop
  /\ held' = [held EXCEPT ![t] = popped']
  /\ Goto(t, IF tpc[t] = "pop1" THEN "send1" ELSE "send2")
  /\ UNCHANGED <<puts, wire, dropped>>

\* Mutant: the character is given to the UART twice.
DrainSendTwice(t) ==
  /\ tpc[t] \in {"send1", "send2"}
  /\ wire' = [wire EXCEPT ![held[t]] = @ + 2]
  /\ held' = [held EXCEPT ![t] = NUL]
  /\ Goto(t, IF tpc[t] = "send1" THEN "drain1" ELSE "drain2")
  /\ UNCHANGED <<fifoVars, puts, dropped>>

\* ... and the write to the UART, when it is ready.
DrainSend(t) ==
  /\ tpc[t] \in {"send1", "send2"}
  /\ wire' = [wire EXCEPT ![held[t]] = @ + 1]
  /\ held' = [held EXCEPT ![t] = NUL]
  /\ Goto(t, IF tpc[t] = "send1" THEN "drain1" ELSE "drain2")
  /\ UNCHANGED <<fifoVars, puts, dropped>>

TxNext ==
  \E t \in Tasks :
    \/ PutChar(t)
    \/ TestFull(t)
    \/ PutPush(t)
    \/ DrainTest(t)
    \/ DrainPop(t)
    \/ DrainSend(t)

\* Every task runs again and again.
TxSpec ==
  /\ TxInit
  /\ [][TxNext]_txVars
  /\ \A t \in Tasks :
       WF_txVars(TestFull(t) \/ PutPush(t) \/ DrainTest(t) \/ DrainPop(t) \/ DrainSend(t))

----------------------------------------------------------------------------
(* Properties *)

Busy == {t \in Tasks : tpc[t] # "idle"}

\* serial_putchar returns the character as sent whatever fifo_push did with it
\* (serial.c:25-31).  Because every task empties the FIFO before it returns, the
\* FIFO never holds more characters than there are tasks in serial_putchar: one
\* is dropped only when more of them are than the FIFO has places.
DropsOnlyWhenCrowded ==
  [][dropped' # dropped => Cardinality(Busy) > Size - 1]_txVars

\* No character is sent twice, however the pops of the tasks interleave.  (Two
\* tasks may both see the last character; the one that comes second sends a NUL,
\* serial_hw.c:232.)
SentOnce == \A c \in Chars : wire[c] <= 1

\* When no task is inside serial_putchar, every character has been sent: none
\* is stranded in the FIFO until the next call.
DrainedWhenIdle ==
  Busy = {} =>
     /\ IsEmpty
     /\ \A t \in Tasks : \A n \in 1 .. puts[t] : wire[<<t, n>>] = 1 \/ <<t, n>> \in dropped

\* serial_putchar returns, although other tasks refill the FIFO it empties.
PutReturns == \A t \in Tasks : tpc[t] # "idle" ~> tpc[t] = "idle"

=============================================================================
