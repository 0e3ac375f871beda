----------------------------- MODULE ByteQueue -----------------------------
(***************************************************************************)
(* What a FIFO of components/utils/fifo promises its producer and its      *)
(* consumer: bytes come out in the order in which they went in; a byte     *)
(* pushed into a full queue is dropped, and a pop of an empty one yields   *)
(* nothing.                                                                *)
(***************************************************************************)
EXTENDS Naturals, Sequences

CONSTANTS
  Byte,        \* the bytes
  NoByte,      \* the result of a pop of an empty queue
  Limit        \* the number of bytes that fit

VARIABLES
  q,           \* the queue
  out          \* the last byte popped

queueVars == <<q, out>>

Init == q = <<>> /\ out = NoByte

Push(c) ==
  /\ q' = IF Len(q) < Limit THEN Append(q, c) ELSE q
  /\ UNCHANGED out

Pop ==
  IF q = <<>>
  THEN q' = q /\ out' = NoByte
  ELSE q' = Tail(q) /\ out' = Head(q)

Flush == q' = <<>> /\ UNCHANGED out

Next ==
  \/ \E c \in Byte : Push(c)
  \/ Pop
  \/ Flush

Spec == Init /\ [][Next]_queueVars

=============================================================================
