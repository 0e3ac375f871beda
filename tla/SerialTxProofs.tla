--------------------------- MODULE SerialTxProofs ---------------------------
(***************************************************************************)
(* Proofs about the serial port.  The ring buffer: its pointers stay       *)
(* inside, and it implements a bounded queue, for every size.  The         *)
(* transmit side above it: no character is sent twice or left behind,      *)
(* whatever number of tasks share the port without a lock, and one is      *)
(* dropped only when more tasks are in it than the ring has places.        *)
(***************************************************************************)
EXTENDS SerialTx, FiniteSetTheorems, TLAPS

----------------------------------------------------------------------------
(* The ring buffer.                                                        *)

\* The pointers and the content have their types at the start and stay there.
LEMMA PointersInductive ==
  /\ Init => PointersInside
  /\ PointersInside /\ [Next]_fifoVars => PointersInside'
<1>1. Init => PointersInside
  BY FifoAssumption DEF Init, PointersInside, begin, end
<1>2. ASSUME PointersInside, [Next]_fifoVars PROVE PointersInside'
  <2>1. ASSUME NEW c \in Byte, Push(c) PROVE PointersInside'
    BY <1>2, <2>1, FifoAssumption DEF PointersInside, Push, Step, begin, end
  <2>2. CASE Pop
    BY <1>2, <2>2, FifoAssumption DEF PointersInside, Pop, IsEmpty, Step, begin, end
  <2>3. CASE Flush
    BY <1>2, <2>3, FifoAssumption DEF PointersInside, Flush, begin, end
  <2>4. CASE UNCHANGED fifoVars
    BY <1>2, <2>4 DEF PointersInside, fifoVars
  <2> QED
    BY <1>2, <2>1, <2>2, <2>3, <2>4 DEF Next
<1> QED
  BY <1>1, <1>2

\* The pointers of the ring never leave the buffer: the assertion branches of
\* fifo_push and fifo_pop are dead code.
THEOREM FifoPointersInside == Spec => []PointersInside
  BY PointersInductive, PTL DEF Spec

\* What the content is: its length, and the bytes at its positions.
LEMMA ContentFacts ==
  ASSUME PointersInside
  PROVE  /\ Used \in 0 .. Size - 1
         /\ Content \in Seq(Byte \cup {NoByte})
         /\ Len(Content) = Used
         /\ \A i \in 1 .. Used : At(i - 1) \in begin .. end /\ Content[i] = mem[At(i - 1)]
<1>1. Used \in 0 .. Size - 1
  BY FifoAssumption DEF PointersInside, Used, begin, end
<1>2. \A i \in 1 .. Used : At(i - 1) \in begin .. end
  BY <1>1, FifoAssumption DEF PointersInside, At, begin, end
<1>3. \A i \in 1 .. Used : mem[At(i - 1)] \in Byte \cup {NoByte}
  BY <1>2 DEF PointersInside
<1>4. Content \in Seq(Byte \cup {NoByte}) /\ Len(Content) = Used
  BY <1>1, <1>3 DEF Content
<1> QED
  BY <1>1, <1>2, <1>4 DEF Content

\* A push appends to the content, or drops the byte if the queue is full.
LEMMA PushIsPush ==
  ASSUME PointersInside, NEW c \in Byte, Push(c)
  PROVE  Q!Push(c)
<1>0. PointersInside'
  BY PointersInductive DEF Next
<1>1. IsFull <=> ~(Used < Size - 1)
  BY FifoAssumption DEF PointersInside, IsFull, Used, begin, end
<1>2. CASE IsFull
  <2>1. Content' = Content
    BY <1>2 DEF Push, Content, Used, At
  <2> QED
    BY <1>1, <1>2, <2>1, ContentFacts DEF Push, Q!Push
<1>3. CASE ~IsFull
  <2>1. Used' = Used + 1
    BY <1>1, <1>3, FifoAssumption DEF PointersInside, Push, Used, Step, begin, end
  <2>2. At(Used) = tail
    BY FifoAssumption DEF PointersInside, At, Used, begin, end
  <2>3. \A i \in 1 .. Used : At(i - 1) # tail
    BY <1>1, <1>3, FifoAssumption DEF PointersInside, At, Used, begin, end
  <2>4. \A i \in 1 .. Used + 1 : At(i - 1)' = At(i - 1)
    BY <1>3 DEF Push, At
  <2>5. \A i \in 1 .. Used + 1 : Content'[i] = Append(Content, c)[i]
    <3> SUFFICES ASSUME NEW i \in 1 .. Used + 1 PROVE Content'[i] = Append(Content, c)[i]
      OBVIOUS
    <3>1. Content'[i] = mem'[At(i - 1)]
      BY <1>0, <2>1, <2>4 DEF Content
    <3>2. Used \in Nat
      BY ContentFacts
    <3>3. CASE i = Used + 1
      <4>1. i - 1 = Used
        BY <3>2, <3>3
      <4>2. mem'[tail] = c
        BY <1>3 DEF Push, PointersInside
      <4> QED
        BY <3>1, <3>3, <4>1, <4>2, <2>2, ContentFacts
    <3>4. CASE i \in 1 .. Used
      <4>1. mem'[At(i - 1)] = mem[At(i - 1)]
        BY <1>3, <2>3, <3>4, ContentFacts DEF Push, PointersInside
      <4> QED
        BY <3>1, <3>4, <4>1, ContentFacts
    <3>5. i = Used + 1 \/ i \in 1 .. Used
      BY <3>2
    <3> QED
      BY <3>3, <3>4, <3>5
  <2>6. Content' \in Seq(Byte \cup {NoByte}) /\ Len(Content') = Used + 1
    <3>1. (Content \in Seq(Byte \cup {NoByte}) /\ Len(Content) = Used)'
      BY <1>0, ContentFacts, PTL
    <3> QED
      BY <3>1, <2>1
  <2>7. Content' = Append(Content, c)
    BY <2>5, <2>6, ContentFacts
  <2> QED
    BY <1>1, <1>3, <2>7, ContentFacts DEF Push, Q!Push
<1> QED
  BY <1>2, <1>3

\* A pop takes the first byte of the content, if there is one.
LEMMA PopIsPop ==
  ASSUME PointersInside, Pop
  PROVE  Q!Pop
<1>0. PointersInside'
  BY PointersInductive DEF Next
<1>1. IsEmpty <=> Used = 0
  BY FifoAssumption DEF PointersInside, IsEmpty, Used, begin, end
<1>2. IsEmpty <=> Content = <<>>
  BY <1>1, ContentFacts
<1>3. CASE IsEmpty
  <2>1. Content' = Content
    BY <1>3 DEF Pop, Content, Used, At
  <2> QED
    BY <1>2, <1>3, <2>1 DEF Pop, Q!Pop
<1>4. CASE ~IsEmpty
  <2>1. Used' = Used - 1 /\ Used > 0
    BY <1>4, FifoAssumption DEF PointersInside, Pop, IsEmpty, Used, Step, begin, end
  <2>2. At(0) = head
    BY FifoAssumption DEF PointersInside, At, begin, end
  <2>3. \A i \in 1 .. Used - 1 : At(i - 1)' = At(i)
    BY <1>4, ContentFacts, FifoAssumption DEF PointersInside, Pop, At, Step, begin, end
  <2>4. Content' \in Seq(Byte \cup {NoByte}) /\ Len(Content') = Used - 1
    <3>1. (Content \in Seq(Byte \cup {NoByte}) /\ Len(Content) = Used)'
      BY <1>0, ContentFacts, PTL
    <3> QED
      BY <3>1, <2>1
  <2>5. Tail(Content) \in Seq(Byte \cup {NoByte}) /\ Len(Tail(Content)) = Used - 1
    BY <2>1, ContentFacts
  <2>6. \A i \in 1 .. Used - 1 : Content'[i] = Tail(Content)[i]
    <3> SUFFICES ASSUME NEW i \in 1 .. Used - 1 PROVE Content'[i] = Tail(Content)[i]
      OBVIOUS
    <3>1. Content'[i] = mem[At(i - 1)']
      BY <1>4, <2>1 DEF Content, Pop
    <3>2. Tail(Content)[i] = Content[i + 1] /\ i + 1 \in 1 .. Used /\ i + 1 - 1 = i
      BY <2>1, ContentFacts
    <3>3. Content[i + 1] = mem[At(i)]
      BY <3>2, ContentFacts
    <3> QED
      BY <3>1, <3>2, <3>3, <2>3
  <2>7. Content' = Tail(Content)
    BY <2>4, <2>5, <2>6
  <2>8. Head(Content) = mem[head]
    BY <2>1, <2>2, ContentFacts
  <2> QED
    BY <1>2, <1>4, <2>7, <2>8 DEF Pop, Q!Pop
<1> QED
  BY <1>3, <1>4

\* A flush empties the content.
LEMMA FlushIsFlush ==
  ASSUME PointersInside, Flush
  PROVE  Q!Flush
<1>1. PointersInside'
  BY PointersInductive DEF Next
<1>2. Used' = 0
  BY FifoAssumption DEF Flush, Used, begin
<1>3. (Content \in Seq(Byte \cup {NoByte}) /\ Len(Content) = Used)'
  BY <1>1, ContentFacts, PTL
<1>4. Content' = <<>>
  BY <1>2, <1>3
<1> QED
  BY <1>4 DEF Flush, Q!Flush

\* The ring buffer implements the bounded queue, for every size: bytes leave
\* it in the order in which they entered, and only a full ring drops one.
THEOREM FifoIsByteQueue == Spec => IsByteQueue
<1>1. Init => Q!Init
  <2> SUFFICES ASSUME Init PROVE Q!Init
    OBVIOUS
  <2>1. PointersInside
    BY PointersInductive
  <2>2. Used = 0
    BY FifoAssumption DEF Init, Used, begin
  <2>3. Content = <<>>
    BY <2>1, <2>2, ContentFacts
  <2> QED
    BY <2>3 DEF Init, Q!Init
<1>2. PointersInside /\ [Next]_fifoVars => [Q!Next]_(Q!queueVars)
  <2> SUFFICES ASSUME PointersInside, [Next]_fifoVars PROVE [Q!Next]_(Q!queueVars)
    OBVIOUS
  <2>1. ASSUME NEW c \in Byte, Push(c) PROVE Q!Next
    BY <2>1, PushIsPush DEF Q!Next
  <2>2. CASE Pop
    BY <2>2, PopIsPop DEF Q!Next
  <2>3. CASE Flush
    BY <2>3, FlushIsFlush DEF Q!Next
  <2>4. CASE UNCHANGED fifoVars
    BY <2>4 DEF fifoVars, Q!queueVars, Content, Used, At
  <2> QED
    BY <2>1, <2>2, <2>3, <2>4 DEF Next
<1> QED
  BY <1>1, <1>2, FifoPointersInside, PTL DEF Spec, IsByteQueue, Q!Spec

\* No push takes a byte out of the ring, whatever its size and its pointers.
THEOREM FifoPushKeepsContent == Spec => PushKeepsContent
<1>1. ASSUME PointersInside, NEW c \in Byte, Push(c)
      PROVE  Extends(Content', Content)
  <2>1. Content \in Seq(Byte \cup {NoByte})
    BY <1>1, ContentFacts
  <2>2. Content' = Content \/ Content' = Append(Content, c)
    BY <1>1, PushIsPush DEF Q!Push
  <2> QED
    BY <2>1, <2>2 DEF Extends
<1>2. PointersInside /\ [Next]_fifoVars =>
        [\A c \in Byte : Push(c) => Extends(Content', Content)]_fifoVars
  BY <1>1
<1> QED
  BY <1>2, FifoPointersInside, PTL DEF Spec, PushKeepsContent

----------------------------------------------------------------------------
(* The transmit side.                                                      *)

\* Where a task is before and after its fifo_push.
BeforePush == {"full", "drain1", "pop1", "send1", "push"}
AfterPush == {"drain2", "pop2", "send2"}

\* The characters of a task that have been given to fifo_push.
Handed(t) == IF tpc[t] \in BeforePush THEN puts[t] - 1 ELSE puts[t]

TxTypes ==
  /\ PointersInside
  /\ tpc \in [Tasks -> {"idle"} \cup BeforePush \cup AfterPush]
  /\ held \in [Tasks -> Chars \cup {NUL}]
  /\ puts \in [Tasks -> 0 .. MaxPuts]
  /\ wire \in [Chars \cup {NUL} -> Nat]
  /\ Content \in Seq(Chars)
  /\ \A t \in Tasks : tpc[t] \in BeforePush => puts[t] > 0
  /\ \A t \in Tasks : held[t] # NUL => tpc[t] \in {"send1", "send2"}

\* A character that is somewhere was given to fifo_push, so that the next one
\* that a task pushes is not there yet.
OnlyHanded ==
  /\ \A i \in DOMAIN Content : Content[i][2] <= Handed(Content[i][1])
  /\ \A d \in Chars : wire[d] > 0 => d[2] <= Handed(d[1])
  /\ \A t \in Tasks : held[t] # NUL => held[t][2] <= Handed(held[t][1])

\* A character is in one place: of the ring, of the wire, or in the hands of
\* one task.
OnePlace ==
  /\ \A i, j \in DOMAIN Content : Content[i] = Content[j] => i = j
  /\ SentOnce
  /\ \A t, u \in Tasks : held[t] = held[u] /\ held[t] # NUL => t = u
  /\ \A i \in DOMAIN Content : wire[Content[i]] = 0
  /\ \A i \in DOMAIN Content, t \in Tasks : Content[i] # held[t]
  /\ \A t \in Tasks : held[t] # NUL => wire[held[t]] = 0

\* A character given to fifo_push is somewhere.
Accounted ==
  \A t \in Tasks : \A n \in 1 .. Handed(t) :
    \/ <<t, n>> \in dropped
    \/ \E i \in DOMAIN Content : Content[i] = <<t, n>>
    \/ wire[<<t, n>>] > 0
    \/ \E u \in Tasks : held[u] = <<t, n>>

\* The tasks that have pushed and will see the ring empty before they return.
Draining == {t \in Tasks : tpc[t] \in AfterPush}

\* A task leaves only an empty ring, so each byte in it stands for a task that
\* has pushed and not returned.
FewerThanTasks == Len(Content) <= Cardinality(Draining)

TxInv ==
  /\ TxTypes
  /\ OnlyHanded
  /\ OnePlace
  /\ Accounted
  /\ FewerThanTasks

\* What a character is.
LEMMA CharFacts ==
  ASSUME NEW c \in Chars
  PROVE  /\ c[1] \in Tasks /\ c[2] \in 1 .. MaxPuts /\ c = <<c[1], c[2]>>
         /\ c \in Byte /\ c # NUL
  BY TxAssumption, FifoAssumption DEF Chars, NUL

\* The character that a task is putting has not been given to fifo_push.
LEMMA CurrentFacts ==
  ASSUME TxTypes, NEW t \in Tasks, tpc[t] \in BeforePush
  PROVE  /\ Current(t) \in Chars /\ Current(t)[1] = t /\ Current(t)[2] = puts[t]
         /\ puts[t] \in Nat /\ Handed(t) = puts[t] - 1
<1>1. puts[t] \in 1 .. MaxPuts
  BY TxAssumption DEF TxTypes
<1> QED
  BY <1>1, TxAssumption DEF Current, Chars, Handed

\* Every step of the port is a step of the ring, or none.
LEMMA TxIsFifo ==
  ASSUME TxTypes, [TxNext]_txVars
  PROVE  [Next]_fifoVars
<1>1. CASE UNCHANGED txVars
  BY <1>1 DEF txVars
<1>2. ASSUME NEW t \in Tasks, PutPush(t) PROVE Next
  <2>1. Current(t) \in Byte
    BY <1>2, CurrentFacts, CharFacts DEF PutPush, BeforePush
  <2> QED
    BY <1>2, <2>1 DEF PutPush, Pushed, Next
<1>3. ASSUME NEW t \in Tasks, DrainPop(t) PROVE Next
  BY <1>3 DEF DrainPop, Next
<1> QED
  BY <1>1, <1>2, <1>3 DEF TxNext, PutChar, TestFull, DrainTest, DrainSend

\* A set of the tasks has a number of members.
LEMMA TaskSets ==
  ASSUME NEW S \in SUBSET Tasks
  PROVE  IsFiniteSet(S) /\ Cardinality(S) \in Nat
  BY TxAssumption, FS_Subset, FS_CardinalityType

\* A step that moves no character and leaves the tasks that have pushed in
\* serial_putchar, unless the ring is empty.
LEMMA QuietInv ==
  ASSUME TxInv, UNCHANGED <<fifoVars, held, wire, dropped>>,
         NEW t \in Tasks, NEW l \in {"idle"} \cup BeforePush \cup AfterPush,
         tpc' = [tpc EXCEPT ![t] = l],
         puts' \in [Tasks -> 0 .. MaxPuts],
         \A u \in Tasks \ {t} : puts'[u] = puts[u],
         Handed(t)' = Handed(t), l \in BeforePush => puts'[t] > 0,
         tpc[t] \notin {"send1", "send2"},
         tpc[t] \in AfterPush => l \in AfterPush \/ IsEmpty
  PROVE  TxInv'
<1>0. /\ Content' = Content /\ PointersInside'
  BY DEF fifoVars, Content, Used, At, TxInv, TxTypes, PointersInside
<1>1. TxTypes'
  BY <1>0 DEF TxInv, TxTypes
<1>2. \A u \in Tasks : Handed(u)' = Handed(u)
  BY DEF Handed, TxInv, TxTypes
<1>3. OnlyHanded'
  <2>1. \A c \in Chars : c[1] \in Tasks
    BY CharFacts
  <2> QED
    BY <1>0, <1>2, <2>1 DEF TxInv, TxTypes, OnlyHanded
<1>4. OnePlace'
  BY <1>0 DEF TxInv, OnePlace, SentOnce
<1>5. Accounted'
  BY <1>0, <1>2 DEF TxInv, Accounted
<1>6. FewerThanTasks'
  <2>1. CASE tpc[t] \in AfterPush /\ l \notin AfterPush
    <3>1. Content = <<>>
      <4>1. Used = 0
        BY <2>1, FifoAssumption DEF TxInv, TxTypes, PointersInside, IsEmpty, Used, begin, end
      <4> QED
        BY <4>1, ContentFacts DEF TxInv, TxTypes
    <3>2. Draining' \in SUBSET Tasks
      BY DEF Draining
    <3>3. Cardinality(Draining') \in Nat
      BY <3>2, TaskSets
    <3> QED
      BY <1>0, <3>1, <3>3 DEF FewerThanTasks
  <2>2. CASE ~(tpc[t] \in AfterPush /\ l \notin AfterPush)
    <3>1. Draining \subseteq Draining' /\ Draining' \in SUBSET Tasks /\ Draining \in SUBSET Tasks
      BY <2>2 DEF Draining, TxInv, TxTypes
    <3>2. /\ Cardinality(Draining) <= Cardinality(Draining')
          /\ Cardinality(Draining) \in Nat /\ Cardinality(Draining') \in Nat
      BY <3>1, TaskSets, FS_Subset
    <3>3. Len(Content) \in Nat
      BY DEF TxInv, TxTypes
    <3> QED
      BY <1>0, <3>2, <3>3 DEF TxInv, FewerThanTasks
  <2> QED
    BY <2>1, <2>2
<1> QED
  BY <1>1, <1>3, <1>4, <1>5, <1>6 DEF TxInv

\* A call, the test for a full ring, and the test for an empty one.
LEMMA TestInv ==
  ASSUME TxInv, NEW t \in Tasks, PutChar(t) \/ TestFull(t) \/ DrainTest(t)
  PROVE  TxInv'
<1>0. tpc \in [Tasks -> {"idle"} \cup BeforePush \cup AfterPush] /\ puts \in [Tasks -> 0 .. MaxPuts]
  BY DEF TxInv, TxTypes
<1>1. CASE PutChar(t)
  <2>1. /\ tpc' = [tpc EXCEPT ![t] = "full"]
        /\ puts' \in [Tasks -> 0 .. MaxPuts] /\ puts'[t] = puts[t] + 1 /\ puts[t] \in Nat
        /\ \A u \in Tasks \ {t} : puts'[u] = puts[u]
        /\ tpc[t] = "idle"
    BY <1>0, <1>1, TxAssumption DEF PutChar, Goto
  <2>2. Handed(t)' = Handed(t)
    BY <1>0, <2>1 DEF Handed, BeforePush
  <2>3. /\ "full" \in {"idle"} \cup BeforePush \cup AfterPush
        /\ puts'[t] > 0
        /\ tpc[t] \notin {"send1", "send2"} /\ tpc[t] \notin AfterPush
        /\ UNCHANGED <<fifoVars, held, wire, dropped>>
    BY <1>1, <2>1 DEF PutChar, BeforePush, AfterPush
  <2> QED
    BY <2>1, <2>2, <2>3, QuietInv
<1>2. CASE TestFull(t)
  <2>1. PICK l \in {"drain1", "push"} : tpc' = [tpc EXCEPT ![t] = l]
    BY <1>2 DEF TestFull, Goto
  <2>2. tpc[t] = "full" /\ puts' = puts /\ puts[t] > 0
    BY <1>2 DEF TestFull, TxInv, TxTypes, BeforePush
  <2>3. Handed(t)' = Handed(t)
    BY <1>0, <2>1, <2>2 DEF Handed, BeforePush
  <2> QED
    BY <1>0, <1>2, <2>1, <2>2, <2>3, QuietInv DEF TestFull, BeforePush, AfterPush
<1>3. CASE DrainTest(t)
  <2> DEFINE l == Tested(t)
  <2>1. /\ tpc' = [tpc EXCEPT ![t] = l] /\ puts' = puts
        /\ tpc[t] \in {"drain1", "drain2"}
        /\ tpc[t] = "drain1" => l \in {"push", "pop1"} /\ puts[t] > 0
        /\ tpc[t] = "drain2" => l = "pop2" \/ (l = "idle" /\ IsEmpty)
    BY <1>3 DEF DrainTest, Goto, Tested, TxInv, TxTypes, BeforePush
  <2> HIDE DEF l
  <2>2. Handed(t)' = Handed(t)
    BY <1>0, <2>1 DEF Handed, BeforePush
  <2>3. l \in {"idle"} \cup BeforePush \cup AfterPush
    BY <2>1 DEF BeforePush, AfterPush
  <2> QED
    BY <1>0, <1>3, <2>1, <2>2, <2>3, QuietInv DEF DrainTest, BeforePush, AfterPush
<1> QED
  BY <1>1, <1>2, <1>3

\* What IsFull and IsEmpty say of the content.
LEMMA FullAndEmpty ==
  ASSUME PointersInside
  PROVE  /\ IsFull <=> Len(Content) = Size - 1
         /\ Len(Content) <= Size - 1
         /\ IsEmpty <=> Content = <<>>
<1>1. Used \in 0 .. Size - 1 /\ Content \in Seq(Byte \cup {NoByte}) /\ Len(Content) = Used
  BY ContentFacts
<1>2. IsFull <=> Used = Size - 1
  BY FifoAssumption DEF PointersInside, IsFull, Used, begin, end
<1>3. IsEmpty <=> Used = 0
  BY FifoAssumption DEF PointersInside, IsEmpty, Used, begin, end
<1> QED
  BY <1>1, <1>2, <1>3, FifoAssumption

\* The push: the new character is in the ring, or is dropped.
LEMMA PutPushInv ==
  ASSUME TxInv, NEW t \in Tasks, PutPush(t)
  PROVE  TxInv'
<1> DEFINE c == Current(t)
<1>0. /\ tpc[t] = "push" /\ tpc[t] \in BeforePush /\ TxTypes
      /\ tpc' = [tpc EXCEPT ![t] = "drain2"]
      /\ held' = held /\ puts' = puts /\ wire' = wire
      /\ tpc \in [Tasks -> {"idle"} \cup BeforePush \cup AfterPush]
      /\ "drain2" \in AfterPush /\ "drain2" \notin BeforePush
      /\ "push" \notin AfterPush
      /\ Content \in Seq(Chars) /\ wire \in [Chars \cup {NUL} -> Nat]
      /\ held \in [Tasks -> Chars \cup {NUL}]
  BY DEF PutPush, Goto, TxInv, TxTypes, BeforePush, AfterPush
<1>1. /\ c \in Chars /\ c[1] = t /\ c[2] = puts[t] /\ puts[t] \in Nat
      /\ c \in Byte /\ c # NUL
      /\ Handed(t) = puts[t] - 1 /\ Handed(t)' = puts[t]
  <2>1. Handed(t)' = puts[t]
    BY <1>0 DEF Handed
  <2> QED
    BY <1>0, <2>1, CurrentFacts, CharFacts
<1>2. \A u \in Tasks \ {t} : Handed(u)' = Handed(u)
  BY <1>0 DEF Handed
<1> HIDE DEF c
<1>3. PointersInside'
  BY <1>1, PointersInductive DEF PutPush, Pushed, Next, TxInv, TxTypes, c
<1>4. \/ /\ ~IsFull /\ Content' = Append(Content, c) /\ dropped' = dropped
      \/ /\ IsFull /\ Content' = Content /\ dropped' = dropped \cup {c}
  <2>1. Q!Push(c)
    BY <1>1, PushIsPush DEF PutPush, Pushed, TxInv, TxTypes, c
  <2>2. IsFull <=> ~(Len(Content) < Size - 1)
    BY <1>0, FullAndEmpty, FifoAssumption DEF TxInv, TxTypes
  <2> QED
    BY <2>1, <2>2 DEF Q!Push, PutPush, Pushed, c
<1>5. /\ Content' \in Seq(Chars)
      /\ \A i \in DOMAIN Content' :
           \/ i \in DOMAIN Content /\ Content'[i] = Content[i]
           \/ i = Len(Content) + 1 /\ Content'[i] = c
      /\ \A i \in DOMAIN Content : i \in DOMAIN Content' /\ Content'[i] = Content[i]
      /\ Len(Content') \in Nat /\ Len(Content') <= Len(Content) + 1 /\ Len(Content) \in Nat
      /\ \/ c \in dropped'
         \/ \E i \in DOMAIN Content' : Content'[i] = c
  <2>1. CASE Content' = Append(Content, c)
    <3>1. Content \in Seq(Chars) /\ c \in Chars
      BY <1>0, <1>1
    <3>2. Len(Content') = Len(Content) + 1 /\ Content'[Len(Content) + 1] = c
      BY <2>1, <3>1
    <3> QED
      BY <2>1, <3>1, <3>2
  <2>2. CASE Content' = Content /\ dropped' = dropped \cup {c}
    BY <1>0, <2>2
  <2> QED
    BY <1>4, <2>1, <2>2
<1>6. TxTypes'
  BY <1>0, <1>3, <1>5 DEF TxInv, TxTypes
<1>7. \A d \in Chars : d[1] \in Tasks /\ d[2] \in Nat
  BY CharFacts, TxAssumption
<1> DEFINE H(u) == IF tpc'[u] \in BeforePush THEN puts'[u] - 1 ELSE puts'[u]
<1>8. \A d \in Chars : d[2] <= Handed(d[1]) => d # c /\ d[2] <= H(d[1])
  <2> SUFFICES ASSUME NEW d \in Chars, d[2] <= Handed(d[1])
               PROVE  d # c /\ d[2] <= H(d[1])
    OBVIOUS
  <2>1. CASE d[1] = t
    BY <1>0, <1>1, <1>7, <2>1
  <2>2. CASE d[1] # t
    BY <1>0, <1>1, <1>7, <2>2 DEF Handed
  <2> QED
    BY <2>1, <2>2
<1>9. OnlyHanded'
  <2>1. H(c[1]) = c[2]
    BY <1>0, <1>1
  <2> HIDE DEF H
  <2>2. ASSUME NEW i \in DOMAIN Content' PROVE Content'[i][2] <= H(Content'[i][1])
    <3>1. CASE i \in DOMAIN Content /\ Content'[i] = Content[i]
      <4>1. Content[i] \in Chars /\ Content[i][2] <= Handed(Content[i][1])
        BY <1>0, <3>1 DEF TxInv, OnlyHanded
      <4>2. Content[i][2] <= H(Content[i][1])
        BY <1>8, <4>1
      <4> QED
        BY <3>1, <4>2
    <3>2. CASE Content'[i] = c
      BY <1>1, <2>1, <3>2
    <3> QED
      BY <1>5, <3>1, <3>2
  <2>3. ASSUME NEW d \in Chars, wire[d] > 0 PROVE d[2] <= H(d[1])
    <3>1. d[2] <= Handed(d[1])
      BY <2>3 DEF TxInv, OnlyHanded
    <3> QED
      BY <1>8, <3>1
  <2>4. ASSUME NEW u \in Tasks, held[u] # NUL PROVE held[u][2] <= H(held[u][1])
    <3>1. held[u] \in Chars /\ held[u][2] <= Handed(held[u][1])
      BY <1>0, <2>4 DEF TxInv, OnlyHanded
    <3> QED
      BY <1>8, <3>1
  <2> QED
    BY <1>0, <2>2, <2>3, <2>4 DEF OnlyHanded, Handed, H
<1> HIDE DEF H
<1>10. OnePlace'
  <2>1. \A i \in DOMAIN Content : Content[i] # c
    BY <1>0, <1>8 DEF TxInv, OnlyHanded
  <2>2. wire[c] = 0
    BY <1>0, <1>1, <1>8 DEF TxInv, OnlyHanded
  <2>3. \A u \in Tasks : held[u] # c
    BY <1>0, <1>1, <1>8 DEF TxInv, OnlyHanded
  <2>4. \A i, j \in DOMAIN Content' : Content'[i] = Content'[j] => i = j
    BY <1>5, <2>1 DEF TxInv, OnePlace
  <2>5. \A i \in DOMAIN Content' : wire[Content'[i]] = 0
    BY <1>5, <2>2 DEF TxInv, OnePlace
  <2>6. \A i \in DOMAIN Content', u \in Tasks : Content'[i] # held[u]
    BY <1>5, <2>3 DEF TxInv, OnePlace
  <2> QED
    BY <1>0, <2>4, <2>5, <2>6 DEF TxInv, OnePlace, SentOnce
<1>11. Accounted'
  <2> SUFFICES ASSUME NEW u \in Tasks, NEW n \in 1 .. Handed(u)'
               PROVE  \/ <<u, n>> \in dropped'
                      \/ \E i \in DOMAIN Content' : Content'[i] = <<u, n>>
                      \/ wire'[<<u, n>>] > 0
                      \/ \E v \in Tasks : held'[v] = <<u, n>>
    BY DEF Accounted
  <2>1. CASE u = t /\ n = puts[t]
    BY <1>5, <2>1 DEF c, Current
  <2>2. CASE ~(u = t /\ n = puts[t])
    <3>1. n \in 1 .. Handed(u)
      BY <1>1, <1>2, <2>2
    <3>2. dropped \subseteq dropped'
      BY <1>4
    <3> QED
      BY <1>0, <1>5, <3>1, <3>2 DEF TxInv, Accounted
  <2> QED
    BY <2>1, <2>2
<1>12. FewerThanTasks'
  <2>1. /\ Draining' = Draining \cup {t} /\ t \notin Draining
        /\ Draining \in SUBSET Tasks
    BY <1>0 DEF Draining
  <2>2. IsFiniteSet(Draining) /\ Cardinality(Draining) \in Nat
    BY <2>1, TaskSets
  <2>3. Cardinality(Draining') = Cardinality(Draining) + 1
    BY <2>1, <2>2, FS_AddElement
  <2> QED
    BY <1>5, <2>2, <2>3 DEF TxInv, FewerThanTasks
<1> QED
  BY <1>6, <1>9, <1>10, <1>11, <1>12 DEF TxInv

\* The number of the tasks that have pushed does not change when one goes on
\* in its loop.
LEMMA LoopKeepsTasks ==
  ASSUME TxTypes, NEW t \in Tasks, NEW l \in BeforePush \cup AfterPush,
         tpc' = [tpc EXCEPT ![t] = l], puts' = puts,
         tpc[t] # "idle", tpc[t] \in AfterPush <=> l \in AfterPush
  PROVE  /\ Draining' = Draining
         /\ tpc' \in [Tasks -> {"idle"} \cup BeforePush \cup AfterPush]
         /\ \A u \in Tasks : tpc'[u] \in BeforePush <=> tpc[u] \in BeforePush
<1>1. tpc \in [Tasks -> {"idle"} \cup BeforePush \cup AfterPush]
  BY DEF TxTypes
<1>2. tpc[t] \in BeforePush <=> l \in BeforePush
  BY <1>1 DEF BeforePush, AfterPush
<1> QED
  BY <1>1, <1>2 DEF Draining

\* The pop: the first character of the ring is in the hands of the task, or
\* there was none.
LEMMA DrainPopInv ==
  ASSUME TxInv, NEW t \in Tasks, DrainPop(t)
  PROVE  TxInv'
<1> DEFINE l == IF tpc[t] = "pop1" THEN "send1" ELSE "send2"
<1>0. /\ TxTypes /\ puts' = puts /\ wire' = wire /\ dropped' = dropped
      /\ tpc' = [tpc EXCEPT ![t] = l]
      /\ held' = [held EXCEPT ![t] = popped']
      /\ held[t] = NUL
      /\ tpc[t] \in {"pop1", "pop2"}
      /\ Content \in Seq(Chars) /\ wire \in [Chars \cup {NUL} -> Nat]
      /\ held \in [Tasks -> Chars \cup {NUL}]
  BY DEF DrainPop, Goto, TxInv, TxTypes
<1>1. /\ Draining' = Draining
      /\ tpc' \in [Tasks -> {"idle"} \cup BeforePush \cup AfterPush]
      /\ \A u \in Tasks : tpc'[u] \in BeforePush <=> tpc[u] \in BeforePush
      /\ tpc'[t] \in {"send1", "send2"} /\ \A u \in Tasks \ {t} : tpc'[u] = tpc[u]
  <2>1. /\ l \in BeforePush \cup AfterPush /\ l \in {"send1", "send2"}
        /\ tpc[t] # "idle" /\ (tpc[t] \in AfterPush <=> l \in AfterPush)
    BY <1>0 DEF BeforePush, AfterPush
  <2> HIDE DEF l
  <2> QED
    BY <1>0, <2>1, LoopKeepsTasks DEF TxTypes
<1> HIDE DEF l
<1>2. PointersInside'
  BY PointersInductive DEF DrainPop, Next, TxInv, TxTypes
<1>3. \/ Content' = Content /\ popped' = NUL
      \/ Content # <<>> /\ Content' = Tail(Content) /\ popped' = Head(Content)
  BY PopIsPop DEF DrainPop, Q!Pop, NUL, TxInv, TxTypes
<1>4. CASE Content' = Content /\ popped' = NUL
  <2>1. held' = held
    BY <1>0, <1>4
  <2>2. TxTypes'
    BY <1>0, <1>1, <1>2, <1>4, <2>1 DEF TxInv, TxTypes
  <2>3. OnlyHanded'
    <3>1. \A d \in Chars : d[1] \in Tasks
      BY CharFacts
    <3> QED
      BY <1>0, <1>1, <1>4, <2>1, <3>1 DEF TxInv, OnlyHanded, Handed
  <2>4. OnePlace'
    BY <1>0, <1>4, <2>1 DEF TxInv, OnePlace, SentOnce
  <2>5. Accounted'
    <3>1. \A u \in Tasks : Handed(u)' = Handed(u)
      BY <1>0, <1>1 DEF Handed
    <3> QED
      BY <1>0, <1>4, <2>1, <3>1 DEF TxInv, Accounted
  <2>6. FewerThanTasks'
    BY <1>1, <1>4 DEF TxInv, FewerThanTasks
  <2> QED
    BY <2>2, <2>3, <2>4, <2>5, <2>6 DEF TxInv
<1>5. CASE Content # <<>> /\ Content' = Tail(Content) /\ popped' = Head(Content)
  <2>1. /\ 1 \in DOMAIN Content /\ popped' = Content[1] /\ popped' \in Chars
        /\ Content' \in Seq(Chars) /\ Len(Content') \in Nat /\ Len(Content') = Len(Content) - 1
        /\ \A i \in DOMAIN Content' :
             i + 1 \in DOMAIN Content /\ i + 1 # 1 /\ i \in Nat /\ Content'[i] = Content[i + 1]
        /\ \A i \in DOMAIN Content : i = 1 \/ (i - 1 \in DOMAIN Content' /\ Content'[i - 1] = Content[i])
    <3>1. Content \in Seq(Chars)
      BY <1>0
    <3> QED
      BY <1>5, <3>1
  <2>2. popped' # NUL /\ \A d \in Chars : d[1] \in Tasks
    BY <2>1, CharFacts
  <2>3. TxTypes'
    BY <1>0, <1>1, <1>2, <2>1 DEF TxInv, TxTypes
  <2>4. OnlyHanded'
    <3>1. \A i \in DOMAIN Content' :
            Content'[i] \in Chars /\ Content'[i][2] <= Handed(Content'[i][1])
      BY <2>1 DEF TxInv, OnlyHanded
    <3>2. \A u \in Tasks : held'[u] # NUL =>
            held'[u] \in Chars /\ held'[u][2] <= Handed(held'[u][1])
      BY <1>0, <2>1 DEF TxInv, OnlyHanded
    <3>3. \A d \in Chars : wire[d] > 0 => d[2] <= Handed(d[1])
      BY DEF TxInv, OnlyHanded
    <3> QED
      BY <1>0, <1>1, <2>2, <3>1, <3>2, <3>3 DEF OnlyHanded, Handed
  <2>5. OnePlace'
    <3>1. \A i, j \in DOMAIN Content' : Content'[i] = Content'[j] => i = j
      BY <2>1 DEF TxInv, OnePlace
    <3>2. \A u, v \in Tasks : held'[u] = held'[v] /\ held'[u] # NUL => u = v
      BY <1>0, <2>1 DEF TxInv, OnePlace
    <3>3. \A i \in DOMAIN Content' : wire[Content'[i]] = 0
      BY <2>1 DEF TxInv, OnePlace
    <3>4. \A i \in DOMAIN Content', u \in Tasks : Content'[i] # held'[u]
      BY <1>0, <2>1 DEF TxInv, OnePlace
    <3>5. \A u \in Tasks : held'[u] # NUL => wire[held'[u]] = 0
      BY <1>0, <2>1 DEF TxInv, OnePlace
    <3> QED
      BY <1>0, <3>1, <3>2, <3>3, <3>4, <3>5 DEF TxInv, OnePlace, SentOnce
  <2>6. Accounted'
    <3>1. \A d \in Chars : (\E i \in DOMAIN Content : Content[i] = d) =>
            (\E i \in DOMAIN Content' : Content'[i] = d) \/ (\E u \in Tasks : held'[u] = d)
      BY <1>0, <2>1
    <3>2. \A d \in Chars, u \in Tasks : held[u] = d => held'[u] = d
      BY <1>0, CharFacts
    <3>3. \A u \in Tasks : Handed(u) \in Int /\ Handed(u) <= MaxPuts
      BY TxAssumption DEF Handed, TxInv, TxTypes
    <3>4. \A u \in Tasks : \A n \in 1 .. Handed(u) : <<u, n>> \in Chars
      BY <3>3, TxAssumption DEF Chars
    <3>5. \A u \in Tasks : Handed(u)' = Handed(u)
      BY <1>0, <1>1 DEF Handed
    <3> SUFFICES ASSUME NEW u \in Tasks, NEW n \in 1 .. Handed(u)
                 PROVE  \/ <<u, n>> \in dropped'
                        \/ \E i \in DOMAIN Content' : Content'[i] = <<u, n>>
                        \/ wire'[<<u, n>>] > 0
                        \/ \E v \in Tasks : held'[v] = <<u, n>>
      BY <3>5 DEF Accounted
    <3>6. \/ <<u, n>> \in dropped
          \/ \E i \in DOMAIN Content : Content[i] = <<u, n>>
          \/ wire[<<u, n>>] > 0
          \/ \E v \in Tasks : held[v] = <<u, n>>
      BY DEF TxInv, Accounted
    <3> QED
      BY <1>0, <3>1, <3>2, <3>4, <3>6
  <2>7. FewerThanTasks'
    <3>1. Cardinality(Draining) \in Nat
      BY TaskSets DEF Draining
    <3> QED
      BY <1>0, <1>1, <2>1, <3>1 DEF TxInv, FewerThanTasks
  <2> QED
    BY <2>3, <2>4, <2>5, <2>6, <2>7 DEF TxInv
<1> QED
  BY <1>3, <1>4, <1>5

\* The write to the UART: the character leaves the hands of the task.
LEMMA DrainSendInv ==
  ASSUME TxInv, NEW t \in Tasks, DrainSend(t)
  PROVE  TxInv'
<1> DEFINE l == IF tpc[t] = "send1" THEN "drain1" ELSE "drain2"
<1>0. /\ TxTypes /\ puts' = puts /\ dropped' = dropped /\ UNCHANGED fifoVars
      /\ tpc' = [tpc EXCEPT ![t] = l]
      /\ held' = [held EXCEPT ![t] = NUL]
      /\ wire' = [wire EXCEPT ![held[t]] = @ + 1]
      /\ tpc[t] \in {"send1", "send2"}
      /\ Content \in Seq(Chars) /\ wire \in [Chars \cup {NUL} -> Nat]
      /\ held \in [Tasks -> Chars \cup {NUL}]
  BY DEF DrainSend, Goto, TxInv, TxTypes
<1>1. /\ Draining' = Draining
      /\ tpc' \in [Tasks -> {"idle"} \cup BeforePush \cup AfterPush]
      /\ \A u \in Tasks : tpc'[u] \in BeforePush <=> tpc[u] \in BeforePush
      /\ \A u \in Tasks \ {t} : tpc'[u] = tpc[u]
  <2>1. /\ l \in BeforePush \cup AfterPush
        /\ tpc[t] # "idle" /\ (tpc[t] \in AfterPush <=> l \in AfterPush)
    BY <1>0 DEF BeforePush, AfterPush
  <2> HIDE DEF l
  <2> QED
    BY <1>0, <2>1, LoopKeepsTasks DEF TxTypes
<1> HIDE DEF l
<1>2. Content' = Content /\ PointersInside'
  BY <1>0 DEF fifoVars, Content, Used, At, TxTypes, PointersInside
<1>3. /\ wire' \in [Chars \cup {NUL} -> Nat] /\ held[t] \in Chars \cup {NUL}
      /\ wire'[held[t]] = wire[held[t]] + 1
      /\ \A d \in Chars \cup {NUL} : wire[d] \in Nat /\ (d # held[t] => wire'[d] = wire[d])
  BY <1>0
<1>4. \A d \in Chars : d[1] \in Tasks /\ d # NUL
  BY CharFacts
<1>5. TxTypes'
  BY <1>0, <1>1, <1>2, <1>3 DEF TxInv, TxTypes
<1>6. OnlyHanded'
  <2>1. \A u \in Tasks : Handed(u)' = Handed(u)
    BY <1>0, <1>1 DEF Handed
  <2>2. \A d \in Chars : wire'[d] > 0 => d[2] <= Handed(d[1])
    BY <1>0, <1>3, <1>4 DEF TxInv, OnlyHanded
  <2>3. \A u \in Tasks : held'[u] # NUL =>
          held'[u] \in Chars /\ held'[u][2] <= Handed(held'[u][1])
    BY <1>0 DEF TxInv, OnlyHanded
  <2> QED
    BY <1>0, <1>1, <1>2, <1>4, <2>2, <2>3 DEF TxInv, OnlyHanded, Handed
<1>7. OnePlace'
  <2>1. SentOnce'
    BY <1>0, <1>3, <1>4 DEF TxInv, OnePlace, SentOnce
  <2>2. \A u, v \in Tasks : held'[u] = held'[v] /\ held'[u] # NUL => u = v
    BY <1>0 DEF TxInv, OnePlace
  <2>3. \A i \in DOMAIN Content : wire'[Content[i]] = 0
    BY <1>0, <1>3 DEF TxInv, OnePlace
  <2>4. \A i \in DOMAIN Content, u \in Tasks : Content[i] # held'[u]
    BY <1>0, <1>4 DEF TxInv, OnePlace
  <2>5. \A u \in Tasks : held'[u] # NUL => wire'[held'[u]] = 0
    BY <1>0, <1>3 DEF TxInv, OnePlace
  <2> QED
    BY <1>2, <2>1, <2>2, <2>3, <2>4, <2>5 DEF TxInv, OnePlace
<1>8. Accounted'
  <2>1. \A u \in Tasks : Handed(u)' = Handed(u)
    BY <1>0, <1>1 DEF Handed
  <2>2. \A u \in Tasks : \A d \in Chars : held[u] = d => wire'[d] > 0 \/ held'[u] = d
    BY <1>0, <1>3
  <2>3. \A u \in Tasks : \A n \in 1 .. Handed(u) : <<u, n>> \in Chars
    <3>1. \A u \in Tasks : Handed(u) \in Int /\ Handed(u) <= MaxPuts
      BY TxAssumption DEF Handed, TxInv, TxTypes
    <3> QED
      BY <3>1, TxAssumption DEF Chars
  <2> SUFFICES ASSUME NEW u \in Tasks, NEW n \in 1 .. Handed(u)
               PROVE  \/ <<u, n>> \in dropped'
                      \/ \E i \in DOMAIN Content' : Content'[i] = <<u, n>>
                      \/ wire'[<<u, n>>] > 0
                      \/ \E v \in Tasks : held'[v] = <<u, n>>
    BY <2>1 DEF Accounted
  <2>4. \/ <<u, n>> \in dropped
        \/ \E i \in DOMAIN Content : Content[i] = <<u, n>>
        \/ wire[<<u, n>>] > 0
        \/ \E v \in Tasks : held[v] = <<u, n>>
    BY DEF TxInv, Accounted
  <2> QED
    BY <1>0, <1>2, <1>3, <2>2, <2>3, <2>4
<1>9. FewerThanTasks'
  BY <1>1, <1>2 DEF TxInv, FewerThanTasks
<1> QED
  BY <1>5, <1>6, <1>7, <1>8, <1>9 DEF TxInv

\* Nothing has been put at the start.
LEMMA TxInitInv == TxInit => TxInv
<1> SUFFICES ASSUME TxInit PROVE TxInv
  OBVIOUS
<1>1. PointersInside /\ Used = 0
  BY PointersInductive, FifoAssumption DEF TxInit, Init, Used, begin
<1>2. Content = <<>>
  BY <1>1, ContentFacts
<1>3. TxTypes
  BY <1>1, <1>2, TxAssumption DEF TxInit, TxTypes, BeforePush
<1>4. OnlyHanded /\ OnePlace
  BY <1>2 DEF TxInit, OnlyHanded, OnePlace, SentOnce
<1>5. Accounted
  BY DEF TxInit, Accounted, Handed, BeforePush
<1>6. FewerThanTasks
  <2>1. Cardinality(Draining) \in Nat
    BY TaskSets DEF Draining
  <2> QED
    BY <1>2, <2>1 DEF FewerThanTasks
<1> QED
  BY <1>3, <1>4, <1>5, <1>6 DEF TxInv

\* Every step keeps the invariant of the port.
LEMMA TxNextInv == TxInv /\ [TxNext]_txVars => TxInv'
<1> SUFFICES ASSUME TxInv, [TxNext]_txVars PROVE TxInv'
  OBVIOUS
<1>1. CASE UNCHANGED txVars
  <2>1. Content' = Content /\ PointersInside'
    BY <1>1 DEF txVars, fifoVars, Content, Used, At, TxInv, TxTypes, PointersInside
  <2>2. UNCHANGED <<tpc, held, puts, wire, dropped>>
    BY <1>1 DEF txVars
  <2> QED
    BY <2>1, <2>2 DEF TxInv, TxTypes, OnlyHanded, OnePlace, SentOnce, Accounted, Handed,
       FewerThanTasks, Draining
<1> QED
  BY <1>1, TestInv, PutPushInv, DrainPopInv, DrainSendInv DEF TxNext

\* The tasks keep the invariant of the port.
LEMMA TxInvariant == TxSpec => []TxInv
  BY TxInitInv, TxNextInv, PTL DEF TxSpec

\* However the tasks interleave, their pushes and pops are those of a bounded
\* queue.
THEOREM TxIsByteQueue == TxSpec => IsByteQueue
<1>1. TxInit => Init
  BY DEF TxInit
<1>2. TxInv /\ [TxNext]_txVars => [Next]_fifoVars
  BY TxIsFifo DEF TxInv
<1> QED
  BY <1>1, <1>2, TxInvariant, FifoIsByteQueue, PTL DEF TxSpec, Spec

\* No character is sent twice, for every number of tasks and every ring.
THEOREM TxSentOnce == TxSpec => []SentOnce
  BY TxInvariant, PTL DEF TxInv, OnePlace

\* Nothing is left in the ring or in the hands of a task when no task is in
\* serial_putchar: every character has been sent or was dropped.
THEOREM TxDrainedWhenIdle == TxSpec => []DrainedWhenIdle
<1>1. TxInv => DrainedWhenIdle
  <2> SUFFICES ASSUME TxInv, Busy = {}
               PROVE  /\ IsEmpty
                      /\ \A t \in Tasks : \A n \in 1 .. puts[t] :
                           wire[<<t, n>>] = 1 \/ <<t, n>> \in dropped
    BY DEF DrainedWhenIdle
  <2>1. \A t \in Tasks : tpc[t] = "idle"
    BY DEF Busy
  <2>2. Content = <<>>
    <3>1. Draining = {}
      BY <2>1 DEF Draining, AfterPush
    <3>2. Len(Content) <= 0 /\ Content \in Seq(Chars)
      BY <3>1, FS_EmptySet DEF TxInv, TxTypes, FewerThanTasks
    <3> QED
      BY <3>2
  <2>3. IsEmpty
    BY <2>2, FullAndEmpty DEF TxInv, TxTypes
  <2>4. \A t \in Tasks : held[t] = NUL /\ Handed(t) = puts[t]
    BY <2>1 DEF TxInv, TxTypes, Handed, BeforePush
  <2>5. ASSUME NEW t \in Tasks, NEW n \in 1 .. puts[t]
        PROVE  wire[<<t, n>>] = 1 \/ <<t, n>> \in dropped
    <3>1. \/ <<t, n>> \in dropped
          \/ \E i \in DOMAIN Content : Content[i] = <<t, n>>
          \/ wire[<<t, n>>] > 0
          \/ \E u \in Tasks : held[u] = <<t, n>>
      BY <2>4 DEF TxInv, Accounted
    <3>2. <<t, n>> \in Chars
      BY <2>5, TxAssumption DEF TxInv, TxTypes, Chars
    <3>3. <<t, n>> # NUL
      BY <3>2, CharFacts
    <3>4. wire[<<t, n>>] \in Nat /\ wire[<<t, n>>] <= 1
      BY <3>2 DEF TxInv, TxTypes, OnePlace, SentOnce
    <3> QED
      BY <2>2, <2>4, <3>1, <3>3, <3>4
  <2> QED
    BY <2>3, <2>5
<1> QED
  BY <1>1, TxInvariant, PTL

\* A character is dropped only when more tasks are in serial_putchar than the
\* ring has places.
THEOREM TxDropsOnlyWhenCrowded == TxSpec => DropsOnlyWhenCrowded
<1>1. ASSUME TxInv, NEW t \in Tasks, PutPush(t), dropped' # dropped
      PROVE  Cardinality(Busy) > Size - 1
  <2>1. Len(Content) = Size - 1
    BY <1>1, FullAndEmpty DEF PutPush, Pushed, TxInv, TxTypes
  <2>2. /\ Draining \in SUBSET Tasks /\ t \notin Draining
        /\ Draining \cup {t} \subseteq Busy /\ Busy \in SUBSET Tasks
    BY <1>1 DEF PutPush, Draining, Busy, AfterPush
  <2>3. /\ IsFiniteSet(Draining) /\ IsFiniteSet(Busy)
        /\ Cardinality(Draining) \in Nat /\ Cardinality(Busy) \in Nat
    BY <2>2, TaskSets
  <2>4. Cardinality(Draining \cup {t}) = Cardinality(Draining) + 1
    BY <2>2, <2>3, FS_AddElement
  <2>5. Cardinality(Draining \cup {t}) <= Cardinality(Busy)
    BY <2>2, <2>3, FS_Subset
  <2> QED
    BY <1>1, <2>1, <2>3, <2>4, <2>5, FifoAssumption DEF TxInv, FewerThanTasks
<1>2. TxInv /\ [TxNext]_txVars =>
        [dropped' # dropped => Cardinality(Busy) > Size - 1]_txVars
  BY <1>1 DEF TxNext, PutChar, TestFull, DrainTest, DrainPop, DrainSend
<1> QED
  BY <1>2, TxInvariant, PTL DEF TxSpec, DropsOnlyWhenCrowded

=============================================================================
