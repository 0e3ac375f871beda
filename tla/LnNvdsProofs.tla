---------------------------- MODULE LnNvdsProofs ----------------------------
(* Proofs about LnNvds, for any number of fields and any set of values. *)
EXTENDS LnNvds, TLAPS

\* The store starts in a state of the invariant: nothing can be read.
LEMMA NvInit == Init => NvInv
  BY NvAssumption
     DEF Init, NvInv, TypeOK, NeverGarbage, Memory, Readable, ValidSect, Writing,
         Filled, NoJob, Blank, Sects, Fields, Content, Pcs

\* Every step of the code, and a power loss at any point, keeps the invariant.
LEMMA NvStep == NvInv /\ [Next]_vars => NvInv'
<1> SUFFICES ASSUME NvInv, [Next]_vars PROVE NvInv'
  OBVIOUS
<1> USE NvAssumption
    DEF NvInv, TypeOK, NeverGarbage, Memory, Readable, ValidSect, Writing, Filled,
        Sects, Pcs
<1>0. ASSUME pc \in {"erase", "mark", "fill", "flag"}
      PROVE  /\ job \in [field : Fields, val : Values, tgt : Sects, at : 1 .. NField + 1]
             /\ job.tgt \in {1, 2} /\ Source \in {1, 2} /\ Source # job.tgt
  BY <1>0 DEF Source
<1>1. CASE InitReadable
  BY <1>1 DEF InitReadable, NewContent, Source
<1>2. CASE InitWipe
  BY <1>2 DEF InitWipe, NewContent, Source, Blank, Content
<1>3. CASE InitFormat
  BY <1>3 DEF InitFormat, NewContent, Source, Fields, NoJob
<1>4. ASSUME NEW f \in Fields, NEW v \in Values, Set(f, v)
      PROVE  NvInv'
  BY <1>4 DEF Set, StartWrite, NewContent, Source, Fields, NoJob
<1>5. CASE EraseTarget
  <2>1. /\ Memory' = Memory /\ Readable' = Readable
        /\ data' \in [Sects -> [Fields -> Content]]
    BY <1>0, <1>5 DEF EraseTarget, Blank, Content
  <2>2. data'[2] = data[2] \/ data'[2] = Blank
    BY <1>0, <1>5 DEF EraseTarget
  <2> QED
    BY <1>0, <1>5, <2>1, <2>2 DEF EraseTarget, NoJob
<1>6. CASE MarkTarget
  <2>1. Memory' = Memory /\ Readable' = Readable
    BY <1>0, <1>6 DEF MarkTarget
  <2>2. job'.at = 1 /\ \A f \in Fields : ~(f < 1)
    BY <1>6 DEF MarkTarget, Fields
  <2>3. TypeOK' /\ job' = job /\ job.tgt \in magic'
    BY <1>0, <1>6 DEF MarkTarget
  <2> QED
    BY <1>0, <1>6, <2>1, <2>2, <2>3 DEF MarkTarget, NoJob
<1>7. CASE Fill
  <2>1. Memory' = Memory /\ Readable' = Readable
    BY <1>0, <1>7 DEF Fill
  <2>2. NewContent(job.at) \in Content
    BY <1>0, <1>7 DEF Fill, NewContent, Content
  <2>3. /\ data' \in [Sects -> [Fields -> Content]]
        /\ data'[Source] = data[Source]
        /\ \A f \in Fields : data'[job.tgt][f] =
              IF f = job.at THEN NewContent(f) ELSE data[job.tgt][f]
    BY <1>0, <1>7, <2>2 DEF Fill
  <2>4. job' \in [field : Fields, val : Values, tgt : Sects, at : 1 .. NField + 1]
    <3>1. job.at + 1 \in 1 .. NField + 1
      BY <1>7 DEF Fill, Fields
    <3> QED
      BY <1>0, <1>7, <3>1 DEF Fill
  <2>5. \A f \in Fields : f < job'.at => data'[job'.tgt][f] = NewContent(f)'
    BY <1>0, <1>7, <2>3 DEF Fill, NewContent, Source, Fields
  <2>6. Readable \/ data'[2] = Blank
    BY <1>0, <1>7, <2>3 DEF Fill, Source
  <2> QED
    BY <1>0, <1>7, <2>1, <2>3, <2>4, <2>5, <2>6 DEF Fill, NoJob
<1>8. CASE EraseFlag
  <2>1. \A f \in Fields : data[job.tgt][f] = NewContent(f)
    BY <1>0, <1>8 DEF EraseFlag, Fields
  <2>2. \A f \in Fields : NewContent(f) # Garbage
    BY <1>0, <1>8 DEF EraseFlag, NewContent, Source, Blank
  <2>3. Readable' \/ data[2] = Blank
    BY <1>0, <1>8 DEF EraseFlag
  <2>4. NeverGarbage'
    BY <1>0, <1>8, <2>1, <2>2 DEF EraseFlag, Blank
  <2> QED
    BY <1>0, <1>8, <2>1, <2>3, <2>4 DEF EraseFlag, NewContent, Source, NoJob
<1>9. CASE SetFlag
  BY <1>9 DEF SetFlag, NewContent, Source, NoJob, Blank
<1>10. CASE PowerLoss
  BY <1>10 DEF PowerLoss, NewContent, Source, NoJob, Blank, Content
<1>11. CASE UNCHANGED vars
  BY <1>11 DEF vars, NewContent, Source
<1> QED
  BY <1>1, <1>2, <1>3, <1>4, <1>5, <1>6, <1>7, <1>8, <1>9, <1>10, <1>11 DEF Next

\* The inductive invariant holds in every reachable state.
THEOREM NvInvariant == Spec => []NvInv
  BY NvInit, NvStep, PTL DEF Spec

\* ln_nvds_read never returns a torn field, in the middle of a write or of a
\* recovery included.
THEOREM NvNeverGarbage == Spec => []NeverGarbage
<1>1. NvInv => NeverGarbage
  BY DEF NvInv
<1> QED
  BY <1>1, NvInvariant, PTL

----------------------------------------------------------------------------
(* The steps of the code as steps of NvStore *)

\* The content changes only where a write commits: the erase of the flag makes
\* sector 2 valid, the programming of the flag makes sector 1 valid.
LEMMA ContentStep ==
  ASSUME NvInv, Next
  PROVE  \/ Memory' = Memory /\ Readable' = Readable
         \/ /\ EraseFlag \/ SetFlag
            /\ Readable'
            /\ Memory' = [Memory EXCEPT ![job.field] = job.val]
<1> USE NvAssumption
    DEF NvInv, TypeOK, Memory, Readable, ValidSect, Writing, Filled, Sects, Pcs
<1>0. ASSUME pc \in {"erase", "mark", "fill", "flag"}
      PROVE  /\ job \in [field : Fields, val : Values, tgt : Sects, at : 1 .. NField + 1]
             /\ job.tgt \in {1, 2} /\ Source \in {1, 2} /\ Source # job.tgt
  BY <1>0 DEF Source
<1>1. ASSUME NEW c \in [Fields -> Content], NEW d \in [Fields -> Content],
             NEW g \in Fields, NEW w,
             \A f \in Fields : d[f] = IF f = g THEN w ELSE c[f]
      PROVE  d = [c EXCEPT ![g] = w]
  BY <1>1
<1>2. Blank \in [Fields -> Content]
  BY DEF Blank, Content
<1>3. CASE EraseFlag
  <2>1. \A f \in Fields : data[job.tgt][f] = NewContent(f)
    BY <1>0, <1>3 DEF EraseFlag, Fields
  <2>2. CASE job.tgt = 2
    <3>1. Memory = data[1] /\ Memory' = data[2] /\ Readable'
      BY <1>0, <1>3, <2>2 DEF EraseFlag
    <3>2. \A f \in Fields : data[2][f] = IF f = job.field THEN job.val ELSE data[1][f]
      BY <2>1, <2>2 DEF NewContent, Source
    <3>3. data[2] = [data[1] EXCEPT ![job.field] = job.val]
      BY <1>0, <1>1, <1>3, <3>2 DEF EraseFlag
    <3> QED
      BY <1>3, <3>1, <3>3
  <2>3. CASE job.tgt = 1
    BY <1>0, <1>3, <2>3 DEF EraseFlag
  <2> QED
    BY <1>0, <1>3, <2>2, <2>3 DEF EraseFlag
<1>4. CASE SetFlag
  <2>1. CASE job.tgt = 1
    <3>1. Memory = data[2] /\ Memory' = data[1] /\ Readable'
      BY <1>0, <1>4, <2>1 DEF SetFlag
    <3>2. \A f \in Fields : data[1][f] = IF f = job.field THEN job.val ELSE data[2][f]
      BY <1>4, <2>1 DEF SetFlag, NewContent, Source
    <3>3. data[1] = [data[2] EXCEPT ![job.field] = job.val]
      BY <1>0, <1>1, <1>4, <3>2 DEF SetFlag
    <3> QED
      BY <1>4, <3>1, <3>3
  <2>2. CASE job.tgt = 2
    BY <1>0, <1>4, <2>2 DEF SetFlag
  <2> QED
    BY <1>0, <1>4, <2>1, <2>2 DEF SetFlag
<1>5. CASE InitReadable \/ InitWipe \/ InitFormat
  BY <1>5 DEF InitReadable, InitWipe, InitFormat
<1>6. CASE \E f \in Fields, v \in Values : Set(f, v)
  BY <1>6 DEF Set
<1>7. CASE EraseTarget
  BY <1>0, <1>7 DEF EraseTarget
<1>8. CASE MarkTarget
  BY <1>0, <1>8 DEF MarkTarget
<1>9. CASE Fill
  BY <1>0, <1>9 DEF Fill
<1>10. CASE PowerLoss
  BY <1>0, <1>10 DEF PowerLoss
<1> QED
  BY <1>3, <1>4, <1>5, <1>6, <1>7, <1>8, <1>9, <1>10 DEF Next

\* Once ln_nvds_read succeeds it succeeds for ever: no power loss makes
\* ln_nvds_init wipe the store.
THEOREM NvStaysReadable == Spec => StaysReadable
<1>1. NvInv /\ [Next]_vars => [Readable => Readable']_vars
  BY ContentStep DEF vars
<1> QED
  BY <1>1, NvInvariant, PTL DEF Spec, StaysReadable

\* A write of the store is atomic: the code implements NvStore.
THEOREM NvAtomicWrites == Spec => AtomicWrites
<1> USE NvAssumption DEF NoJob
<1>1. Init => abstract!Init
  BY DEF Init, abstract!Init, abstract!NoWrite, Memory, Readable, ValidSect, Up,
         Blank, Sects
<1>2. NvInv /\ [Next]_vars => [abstract!Next]_(abstract!nvVars)
  <2> SUFFICES ASSUME NvInv, Next
               PROVE  abstract!Next \/ UNCHANGED abstract!nvVars
    BY DEF vars, abstract!nvVars, Memory, Readable, ValidSect, Up, Blank
  <2> USE DEF abstract!nvVars
  <2>1. job \in [field : Fields, val : Values, tgt : Sects, at : 1 .. NField + 1]
          <=> pc \in {"erase", "mark", "fill", "flag"}
    BY DEF NvInv, TypeOK, Pcs
  <2>2. job = NoJob <=> pc \in {"down", "wipe", "wipeFlag", "idle"}
    BY DEF NvInv
  <2>3. (Memory' = Memory /\ Readable' = Readable) \/ EraseFlag \/ SetFlag
    BY ContentStep
  <2>4. CASE InitReadable
    <3>1. abstract!Boot
      BY <2>2, <2>3, <2>4 DEF InitReadable, abstract!Boot, abstract!NoWrite, Up,
                              EraseFlag, SetFlag
    <3> QED
      BY <3>1 DEF abstract!Next
  <2>5. CASE InitWipe
    BY <2>2, <2>3, <2>5 DEF InitWipe, Up, EraseFlag, SetFlag
  <2>6. CASE InitFormat
    <3>1. abstract!Begin([field |-> 1, val |-> Version])
      BY <2>2, <2>3, <2>6 DEF InitFormat, abstract!Begin, abstract!NoWrite, Up,
                              EraseFlag, SetFlag, NvInv
    <3>2. [field |-> 1, val |-> Version] \in abstract!Writes
      BY DEF abstract!Writes, Fields
    <3> QED
      BY <3>1, <3>2 DEF abstract!Next
  <2>7. ASSUME NEW f \in Fields, NEW v \in Values, Set(f, v)
        PROVE  abstract!Next
    <3>1. abstract!Begin([field |-> f, val |-> v])
      BY <2>2, <2>3, <2>7 DEF Set, StartWrite, abstract!Begin, abstract!NoWrite, Up,
                              EraseFlag, SetFlag, NvInv
    <3>2. [field |-> f, val |-> v] \in abstract!Writes
      BY DEF abstract!Writes
    <3> QED
      BY <3>1, <3>2 DEF abstract!Next
  <2>8. CASE EraseTarget \/ MarkTarget \/ Fill
    BY <2>1, <2>3, <2>8 DEF EraseTarget, MarkTarget, Fill, Up, EraseFlag, SetFlag
  <2>9. CASE EraseFlag
    <3>1. [field |-> job.field, val |-> job.val] # abstract!NoWrite
      BY <2>1, <2>9 DEF EraseFlag, abstract!NoWrite
    <3>2. ASSUME Readable', Memory' = [Memory EXCEPT ![job.field] = job.val]
          PROVE  abstract!Commit
      BY <2>9, <3>1, <3>2 DEF EraseFlag, abstract!Commit, Up
    <3>3. ASSUME Memory' = Memory, Readable' = Readable
          PROVE  UNCHANGED abstract!nvVars
      BY <2>9, <3>3 DEF EraseFlag, Up
    <3> QED
      BY <3>2, <3>3, ContentStep DEF abstract!Next
  <2>11. CASE SetFlag
    <3>1. [field |-> job.field, val |-> job.val] # abstract!NoWrite
      BY <2>1, <2>11 DEF SetFlag, abstract!NoWrite
    <3>2. ASSUME Readable', Memory' = [Memory EXCEPT ![job.field] = job.val]
          PROVE  abstract!Commit
      BY <2>11, <3>1, <3>2 DEF SetFlag, abstract!Commit, abstract!NoWrite, Up
    <3>3. ASSUME Memory' = Memory
          PROVE  abstract!End
      <4>1. Memory'[job.field] = job.val
        BY <2>1, <2>11 DEF SetFlag, Memory, Readable, ValidSect, NvInv, TypeOK, Filled,
                           NewContent, Sects
      <4> QED
        BY <2>11, <3>1, <3>3, <4>1 DEF SetFlag, abstract!End, abstract!NoWrite, Up
    <3> QED
      BY <3>2, <3>3, ContentStep DEF abstract!Next
  <2>10. CASE PowerLoss
    <3>1. abstract!PowerLoss
      BY <2>3, <2>10 DEF PowerLoss, abstract!PowerLoss, abstract!NoWrite, Up,
                         EraseFlag, SetFlag
    <3> QED
      BY <3>1 DEF abstract!Next
  <2> QED
    BY <2>4, <2>5, <2>6, <2>7, <2>8, <2>9, <2>10, <2>11 DEF Next
<1> QED
  BY <1>1, <1>2, NvInvariant, PTL DEF Spec, AtomicWrites, abstract!Spec

=============================================================================
