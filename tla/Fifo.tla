-------------------------------- MODULE Fifo --------------------------------
(***************************************************************************)
(* The ring buffer of components/utils/fifo/fifobuf.c.  Every operation    *)
(* that changes it is one critical section, so an interrupt handler and a  *)
(* task may use it together.  Pointers are offsets from begin; end is the  *)
(* offset of the last byte, and one byte is never used.                    *)
(***************************************************************************)
EXTENDS Integers, Sequences

CONSTANTS
  Byte,        \* the bytes
  NoByte,      \* the 0 that a pop of an empty ring returns
  Size         \* bytes of the ring

\* fifo_init asserts it: "a known bug with 1-byte buffers".
ASSUME FifoAssumption == Size \in Nat /\ Size > 1 /\ NoByte \notin Byte

VARIABLES
  head,        \* the next byte to pop
  tail,        \* where the next byte is pushed
  mem,         \* the buffer
  popped       \* what the last pop returned

fifoVars == <<head, tail, mem, popped>>

begin == 0
end == Size - 1

\* fifo_init, of a static buffer.
Init ==
  /\ head = begin
  /\ tail = begin
  /\ mem = [i \in begin .. end |-> NoByte]
  /\ popped = NoByte

IsEmpty == head = tail

\* fifo_isfull_nonsafety.
IsFull == (head = begin /\ tail = end) \/ tail = head - 1

\* Move a pointer forward, or around.
Step(p) == IF p = end THEN begin ELSE p + 1

\* fifo_push.
Push(c) ==
  /\ IF IsFull
     THEN UNCHANGED <<tail, mem>>
     ELSE /\ mem' = [mem EXCEPT ![tail] = c]
          /\ tail' = Step(tail)
  /\ UNCHANGED <<head, popped>>

\* Mutant: the pointer is moved before the byte is taken.
PopMovesFirst ==
  /\ IF IsEmpty
     THEN popped' = NoByte /\ UNCHANGED head
     ELSE popped' = mem[Step(head)] /\ head' = Step(head)
  /\ UNCHANGED <<tail, mem>>

\* fifo_pop.
Pop ==
  /\ IF IsEmpty
     THEN popped' = NoByte /\ UNCHANGED head
     ELSE popped' = mem[head] /\ head' = Step(head)
  /\ UNCHANGED <<tail, mem>>

\* fifo_flush.
Flush ==
  /\ head' = begin
  /\ tail' = begin
  /\ UNCHANGED <<mem, popped>>

Next ==
  \/ \E c \in Byte : Push(c)
  \/ Pop
  \/ Flush

Spec == Init /\ [][Next]_fifoVars

----------------------------------------------------------------------------
(* Properties *)

\* Neither pointer leaves the buffer, so the LN_ASSERT(0) branches of push and
\* pop (fifobuf.c:51, 78) are never taken.
PointersInside ==
  /\ head \in begin .. end
  /\ tail \in begin .. end
  /\ mem \in [begin .. end -> Byte \cup {NoByte}]
  /\ popped \in Byte \cup {NoByte}

\* The bytes between head and tail, around the end of the buffer.
Used == IF tail >= head THEN tail - head ELSE tail - head + Size
At(i) == IF head + i <= end THEN head + i ELSE head + i - Size
Content == [i \in 1 .. Used |-> mem[At(i - 1)]]

Q == INSTANCE ByteQueue WITH q <- Content, out <- popped, Limit <- Size - 1

\* The ring is a queue of Size - 1 bytes, also when its content wraps around.
IsByteQueue == Q!Spec

Extends(s, t) == Len(s) >= Len(t) /\ SubSeq(s, 1, Len(t)) = t

\* A byte that does not fit is dropped; it never costs a byte that is already
\* in the ring.  A tail that caught up with head would make a full ring empty,
\* which IsByteQueue cannot tell from a flush.
PushKeepsContent ==
  [][\A c \in Byte : Push(c) => Extends(Content', Content)]_fifoVars

=============================================================================
