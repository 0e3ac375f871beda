----------------------------- MODULE LnKvProofs -----------------------------
(***************************************************************************)
(* Proofs about LnKv, for any number of blocks, any block size, any keys   *)
(* and values that fit a block (ItemsFit), and a power loss at any point;  *)
(* the theorems about copies except the two places of GcInDoubt.           *)
(***************************************************************************)
EXTENDS LnKv, FiniteSetTheorems, TLAPS

----------------------------------------------------------------------------
(* Logs *)

\* The offset behind a log is zero for the empty log only.
LEMMA LogEndFacts ==
  ASSUME NEW log \in Seq(Entry)
  PROVE  /\ EndOf(log) \in Nat
         /\ EndOf(log) = 0 <=> log = <<>>
<1>1. CASE log = <<>>
  BY <1>1 DEF EndOf
<1>2. CASE log # <<>>
  <2>1. Len(log) \in DOMAIN log /\ log[Len(log)] \in Entry
    BY <1>2
  <2>2. log[Len(log)].off \in Nat /\ log[Len(log)].size \in Nat \ {0}
    BY <2>1, SizeAssumption DEF Entry
  <2> QED
    BY <1>2, <2>2 DEF EndOf
<1> QED
  BY <1>1, <1>2

\* kv_item_write behind the last item extends a good log to a good log.
LEMMA AppendLog ==
  ASSUME NEW log \in Seq(Entry), GoodLog(log),
         NEW e \in Entry, e.off = EndOf(log), EndOf(log) + e.size <= Cap
  PROVE  /\ Append(log, e) \in Seq(Entry)
         /\ GoodLog(Append(log, e))
         /\ EndOf(Append(log, e)) = EndOf(log) + e.size
<1> DEFINE new == Append(log, e)
<1>1. /\ new \in Seq(Entry) /\ new # <<>>
      /\ Len(new) = Len(log) + 1
      /\ new[Len(log) + 1] = e
      /\ \A i \in 1 .. Len(log) : new[i] = log[i]
  OBVIOUS
<1>2. EndOf(new) = EndOf(log) + e.size
  BY <1>1 DEF EndOf
<1>3. ASSUME NEW i \in DOMAIN new
      PROVE  new[i].off = IF i = 1 THEN 0 ELSE new[i - 1].off + new[i - 1].size
  <2>1. CASE i \in 1 .. Len(log)
    <3>1. i \in DOMAIN log /\ (i # 1 => i - 1 \in 1 .. Len(log))
      BY <2>1
    <3> QED
      BY <1>1, <2>1, <3>1 DEF GoodLog
  <2>2. CASE i = Len(log) + 1
    <3>1. CASE log = <<>>
      BY <1>1, <2>2, <3>1 DEF EndOf
    <3>2. CASE log # <<>>
      <4>1. Len(log) \in 1 .. Len(log) /\ i # 1 /\ i - 1 = Len(log)
        BY <2>2, <3>2
      <4> QED
        BY <1>1, <2>2, <3>2, <4>1 DEF EndOf
    <3> QED
      BY <3>1, <3>2
  <2> QED
    BY <1>1, <2>1, <2>2
<1> QED
  BY <1>1, <1>2, <1>3 DEF GoodLog

\* A discarded or torn entry is an entry.
LEMMA DeadItemType ==
  ASSUME NEW off \in 0 .. Cap, NEW size \in Hdr .. Cap
  PROVE  DeadItem(off, size) \in Entry
  BY DEF DeadItem, Entry, Positions, NoPos

\* kv_item_do_delete changes neither the layout nor the length of a log.
LEMMA DiscardLog ==
  ASSUME NEW log \in Seq(Entry), GoodLog(log), NEW off
  PROVE  LET new == DiscardAt(log, off) IN
         /\ new \in Seq(Entry)
         /\ GoodLog(new)
         /\ EndOf(new) = EndOf(log)
         /\ new = <<>> <=> log = <<>>
         /\ Len(new) = Len(log)
         /\ \A i \in DOMAIN log : new[i].off = log[i].off
<1> DEFINE new == DiscardAt(log, off)
<1>1. DOMAIN log = 1 .. Len(log) /\ Len(log) \in Nat
  OBVIOUS
<1>2. ASSUME NEW i \in DOMAIN log
      PROVE  new[i] \in Entry /\ new[i].off = log[i].off /\ new[i].size = log[i].size
  <2>0. log[i] \in Entry
    OBVIOUS
  <2>1. log[i].off \in 0 .. Cap /\ log[i].size \in Hdr .. Cap
    BY <2>0 DEF Entry
  <2>2. new[i] = IF log[i].off = off THEN DeadItem(off, log[i].size) ELSE log[i]
    BY DEF DiscardAt
  <2> QED
    BY <2>0, <2>1, <2>2, DeadItemType DEF DeadItem
<1>3. new \in [1 .. Len(log) -> Entry]
  BY <1>1, <1>2 DEF DiscardAt
<1>4. new \in Seq(Entry) /\ Len(new) = Len(log)
  BY <1>1, <1>3
<1>5. EndOf(new) = EndOf(log)
  BY <1>1, <1>2, <1>4 DEF EndOf
<1>6. ASSUME NEW i \in DOMAIN new
      PROVE  new[i].off = IF i = 1 THEN 0 ELSE new[i - 1].off + new[i - 1].size
  <2>1. i \in DOMAIN log /\ (i # 1 => i - 1 \in DOMAIN log)
    BY <1>1, <1>4
  <2>2. log[i].off = IF i = 1 THEN 0 ELSE log[i - 1].off + log[i - 1].size
    BY <2>1 DEF GoodLog
  <2> QED
    BY <1>2, <2>1, <2>2
<1>7. EndOf(new) <= Cap
  BY <1>5 DEF GoodLog
<1>8. new = <<>> <=> log = <<>>
  BY <1>4
<1> HIDE DEF new
<1> QED
  BY <1>2, <1>4, <1>5, <1>6, <1>7, <1>8 DEF GoodLog, new

----------------------------------------------------------------------------
(* The index *)

\* The flags exclude each other and the counters cover them.
GoodIndex(ix) ==
  /\ ix \in Index
  /\ ix.fresh \cap (ix.inuse \cup ix.dirty) = {}
  /\ ix.numFresh = Cardinality(ix.fresh)
  /\ ix.numInuse >= Cardinality(ix.inuse)

\* The free sizes agree with the logs; a block other than x that is neither
\* fresh nor in use has no room for an item.
FreeFits(ix, logs, x) ==
  /\ \A c \in ix.fresh \cup ix.inuse : ix.free[c] = Cap - EndOf(logs[c])
  /\ \A c \in Blk \ (ix.fresh \cup ix.inuse) : ix.free[c] <= Hdr \/ c = x

\* A set of blocks is finite; adding or removing one changes its size by one.
LEMMA BlkSets ==
  ASSUME NEW S \in SUBSET Blk, NEW b
  PROVE  /\ IsFiniteSet(S) /\ Cardinality(S) \in Nat
         /\ Cardinality(S \cup {b}) = IF b \in S THEN Cardinality(S) ELSE Cardinality(S) + 1
         /\ Cardinality(S \ {b}) = IF b \in S THEN Cardinality(S) - 1 ELSE Cardinality(S)
         /\ b \in S => Cardinality(S) > 0
<1>1. IsFiniteSet(Blk)
  BY FS_Interval, SizeAssumption DEF Blk
<1>2. IsFiniteSet(S)
  BY <1>1, FS_Subset
<1>3. Cardinality(S) \in Nat
  BY <1>2, FS_CardinalityType
<1>4. Cardinality(S \cup {b}) = IF b \in S THEN Cardinality(S) ELSE Cardinality(S) + 1
  BY <1>2, FS_AddElement
<1>5. Cardinality(S \ {b}) = IF b \in S THEN Cardinality(S) - 1 ELSE Cardinality(S)
  BY <1>2, FS_RemoveElement
<1>6. b \in S => Cardinality(S) # 0
  BY <1>2, FS_EmptySet
<1> QED
  BY <1>2, <1>3, <1>4, <1>5, <1>6

\* The memset of ln_kv_init.
LEMMA ZeroIndexGood ==
  /\ GoodIndex(ZeroIndex)
  /\ \A logs : FreeFits(ZeroIndex, logs, 0)
  BY FS_EmptySet, SizeAssumption DEF ZeroIndex, GoodIndex, FreeFits, Index

\* kv_blk_set_dirty keeps a good index, on any block that is not fresh.
LEMMA SetDirtyGood ==
  ASSUME NEW ix, GoodIndex(ix), NEW b \in Blk, b \notin ix.fresh
  PROVE  /\ GoodIndex(SetDirty(ix, b))
         /\ SetDirty(ix, b).fresh = ix.fresh
         /\ SetDirty(ix, b).inuse = ix.inuse
         /\ SetDirty(ix, b).free = ix.free
  BY DEF GoodIndex, SetDirty, Index

\* kv_blk_freesz_set keeps a good index.
LEMMA SetFreeGood ==
  ASSUME NEW ix, GoodIndex(ix), NEW b \in Blk, NEW n \in 0 .. Cap
  PROVE  /\ GoodIndex(SetFree(ix, b, n))
         /\ SetFree(ix, b, n).fresh = ix.fresh
         /\ SetFree(ix, b, n).inuse = ix.inuse
         /\ SetFree(ix, b, n).free = [ix.free EXCEPT ![b] = n]
  BY DEF GoodIndex, SetFree, Index

\* kv_blk_freesz_reduce keeps a good index as long as the item fits.
LEMMA ReduceFreeGood ==
  ASSUME NEW ix, GoodIndex(ix), NEW b \in Blk, NEW n \in Nat, n <= ix.free[b]
  PROVE  /\ GoodIndex(ReduceFree(ix, b, n))
         /\ ReduceFree(ix, b, n).fresh = ix.fresh
         /\ ReduceFree(ix, b, n).inuse = ix.inuse
         /\ ReduceFree(ix, b, n).free = [ix.free EXCEPT ![b] = ix.free[b] - n]
<1>1. ix.free[b] - n \in 0 .. Cap
  BY SizeAssumption DEF GoodIndex, Index
<1> QED
  BY <1>1 DEF GoodIndex, ReduceFree, Index

\* kv_blk_set_fresh keeps a good index; it may leave num_inuse too high.
LEMMA SetFreshGood ==
  ASSUME NEW ix, GoodIndex(ix), NEW b \in Blk
  PROVE  /\ GoodIndex(SetFresh(ix, b))
         /\ SetFresh(ix, b).fresh = ix.fresh \cup {b}
         /\ SetFresh(ix, b).inuse = ix.inuse \ {b}
         /\ SetFresh(ix, b).free = [ix.free EXCEPT ![b] = Cap]
<1>1. Cap \in 0 .. Cap
  BY SizeAssumption
<1>2. ix.fresh \in SUBSET Blk /\ ix.inuse \in SUBSET Blk
  BY DEF GoodIndex, Index
<1>3. SetFresh(ix, b) \in Index
  BY <1>1 DEF GoodIndex, SetFresh, Index
<1>4. SetFresh(ix, b).numFresh = Cardinality(ix.fresh \cup {b})
  <2>1. Cardinality(ix.fresh \cup {b})
          = IF b \in ix.fresh THEN Cardinality(ix.fresh) ELSE Cardinality(ix.fresh) + 1
    BY <1>2, BlkSets
  <2> QED
    BY <2>1 DEF GoodIndex, SetFresh
<1>5. ix.numInuse >= Cardinality(ix.inuse \ {b})
  <2>1. /\ Cardinality(ix.inuse) \in Nat
        /\ Cardinality(ix.inuse \ {b})
             = IF b \in ix.inuse THEN Cardinality(ix.inuse) - 1 ELSE Cardinality(ix.inuse)
    BY <1>2, BlkSets
  <2>2. ix.numInuse \in Nat /\ ix.numInuse >= Cardinality(ix.inuse)
    BY DEF GoodIndex, Index
  <2> QED
    BY <2>1, <2>2
<1> QED
  BY <1>3, <1>4, <1>5 DEF GoodIndex, SetFresh

\* kv_blk_set_inuse keeps a good index, on any block that is not fresh.
LEMMA SetInuseGood ==
  ASSUME NEW ix, GoodIndex(ix), NEW b \in Blk, b \notin ix.fresh
  PROVE  /\ GoodIndex(SetInuse(ix, b))
         /\ SetInuse(ix, b).fresh = ix.fresh
         /\ SetInuse(ix, b).inuse = ix.inuse \cup {b}
         /\ SetInuse(ix, b).free = ix.free
<1>1. ix.inuse \in SUBSET Blk /\ ix.numInuse \in Nat
  BY DEF GoodIndex, Index
<1> DEFINE n == IF b \in ix.inuse THEN ix.numInuse ELSE ix.numInuse + 1
<1>2. n \in Nat /\ n >= Cardinality(ix.inuse \cup {b})
  <2>1. /\ Cardinality(ix.inuse) \in Nat
        /\ Cardinality(ix.inuse \cup {b})
             = IF b \in ix.inuse THEN Cardinality(ix.inuse) ELSE Cardinality(ix.inuse) + 1
    BY <1>1, BlkSets
  <2>2. ix.numInuse >= Cardinality(ix.inuse)
    BY DEF GoodIndex
  <2> QED
    BY <1>1, <2>1, <2>2
<1> QED
  BY <1>1, <1>2 DEF GoodIndex, SetInuse, Index

\* kv_blk_reset_inuse keeps a good index.
LEMMA ResetInuseGood ==
  ASSUME NEW ix, GoodIndex(ix), NEW b \in Blk
  PROVE  /\ GoodIndex(ResetInuse(ix, b))
         /\ ResetInuse(ix, b).fresh = ix.fresh
         /\ ResetInuse(ix, b).inuse = ix.inuse \ {b}
         /\ ResetInuse(ix, b).free = ix.free
<1>1. ix.inuse \in SUBSET Blk /\ ix.numInuse \in Nat
  BY DEF GoodIndex, Index
<1> DEFINE n == IF b \in ix.inuse THEN ix.numInuse - 1 ELSE ix.numInuse
<1>2. n \in Nat /\ n >= Cardinality(ix.inuse \ {b})
  <2>1. /\ Cardinality(ix.inuse) \in Nat
        /\ b \in ix.inuse => Cardinality(ix.inuse) > 0
        /\ Cardinality(ix.inuse \ {b})
             = IF b \in ix.inuse THEN Cardinality(ix.inuse) - 1 ELSE Cardinality(ix.inuse)
    BY <1>1, BlkSets
  <2>2. ix.numInuse >= Cardinality(ix.inuse)
    BY DEF GoodIndex
  <2> QED
    BY <1>1, <2>1, <2>2
<1> QED
  BY <1>1, <1>2 DEF GoodIndex, ResetInuse, Index

\* kv_blk_reset_fresh keeps a good index.
LEMMA ResetFreshGood ==
  ASSUME NEW ix, GoodIndex(ix), NEW b \in Blk
  PROVE  /\ GoodIndex(ResetFresh(ix, b))
         /\ ResetFresh(ix, b).fresh = ix.fresh \ {b}
         /\ ResetFresh(ix, b).inuse = ix.inuse
         /\ ResetFresh(ix, b).free = ix.free
<1>1. ix.fresh \in SUBSET Blk
  BY DEF GoodIndex, Index
<1> DEFINE n == IF b \in ix.fresh THEN ix.numFresh - 1 ELSE ix.numFresh
<1>2. n = Cardinality(ix.fresh \ {b}) /\ n \in Nat
  <2>1. /\ Cardinality(ix.fresh) \in Nat
        /\ b \in ix.fresh => Cardinality(ix.fresh) > 0
        /\ Cardinality(ix.fresh \ {b})
             = IF b \in ix.fresh THEN Cardinality(ix.fresh) - 1 ELSE Cardinality(ix.fresh)
    BY <1>1, BlkSets
  <2>2. ix.numFresh = Cardinality(ix.fresh)
    BY DEF GoodIndex
  <2> QED
    BY <2>1, <2>2
<1> QED
  BY <1>1, <1>2 DEF GoodIndex, ResetFresh, Index

\* The end of kv_do_gc and of a save to a fresh block.
LEMMA LeaveFreshGood ==
  ASSUME NEW ix, GoodIndex(ix), NEW b \in ix.fresh, NEW logs, NEW x,
         FreeFits(ix, logs, x)
  PROVE  /\ GoodIndex(LeaveFresh(ix, b))
         /\ LeaveFresh(ix, b).fresh = ix.fresh \ {b}
         /\ FreeFits(LeaveFresh(ix, b), logs, x)
<1>1. b \in Blk
  BY DEF GoodIndex, Index
<1> DEFINE r == ResetFresh(ix, b)
<1>2. GoodIndex(r) /\ r.fresh = ix.fresh \ {b} /\ r.inuse = ix.inuse /\ r.free = ix.free
  BY <1>1, ResetFreshGood
<1>3. CASE IsFull(ix, b)
  BY <1>1, <1>2, <1>3 DEF LeaveFresh, FreeFits, IsFull
<1>4. CASE ~IsFull(ix, b)
  <2> DEFINE s == SetInuse(r, b)
  <2>1. GoodIndex(s) /\ s.fresh = r.fresh /\ s.inuse = r.inuse \cup {b} /\ s.free = r.free
    BY <1>1, <1>2, SetInuseGood
  <2>2. LeaveFresh(ix, b) = s
    BY <1>4 DEF LeaveFresh
  <2> HIDE DEF s, r
  <2> QED
    BY <1>1, <1>2, <2>1, <2>2 DEF FreeFits
<1> QED
  BY <1>3, <1>4

\* What kv_item_walkthru leaves in the index after a whole block.
LEMMA WalkEndGood ==
  ASSUME NEW ix, GoodIndex(ix), items \in [Blk -> Seq(Entry)], NEW x,
         FreeFits(ix, items, x),
         NEW b \in Blk, GoodLog(items[b]), b \in ix.fresh => items[b] = <<>>
  PROVE  LET new == WalkEnd(ix, b, EndOf(items[b])) IN
         /\ GoodIndex(new)
         /\ FreeFits(new, items, x)
         /\ new.fresh = IF items[b] = <<>> THEN ix.fresh \cup {b} ELSE ix.fresh
         /\ new.inuse \subseteq ix.inuse \cup {b}
         /\ \A c \in Blk \ {b} : c \in ix.inuse => c \in new.inuse /\ new.free[c] = ix.free[c]
         /\ b \in new.inuse \/ b \in new.fresh \/ Cap - EndOf(items[b]) <= Hdr
<1> DEFINE end == EndOf(items[b])
           new == WalkEnd(ix, b, end)
<1>1. end \in Nat /\ end <= Cap /\ (end = 0 <=> items[b] = <<>>)
  BY LogEndFacts DEF GoodLog
<1>3. ix.free \in [Blk -> 0 .. Cap] /\ ix.fresh \subseteq Blk /\ ix.inuse \subseteq Blk
  BY DEF GoodIndex, Index
<1> HIDE DEF end, new
<1>4. CASE end = 0
  <2>1. new = SetFresh(ix, b)
    BY <1>4 DEF WalkEnd, new
  <2>2. /\ GoodIndex(new)
        /\ new.fresh = ix.fresh \cup {b} /\ new.inuse = ix.inuse \ {b}
        /\ new.free = [ix.free EXCEPT ![b] = Cap]
    <3>1. /\ GoodIndex(SetFresh(ix, b))
          /\ SetFresh(ix, b).fresh = ix.fresh \cup {b}
          /\ SetFresh(ix, b).inuse = ix.inuse \ {b}
          /\ SetFresh(ix, b).free = [ix.free EXCEPT ![b] = Cap]
      BY SetFreshGood
    <3> QED
      BY <2>1, <3>1
  <2>3. EndOf(items[b]) = 0
    BY <1>4 DEF end, new
  <2>4. FreeFits(new, items, x)
    BY <1>3, <2>2, <2>3, SizeAssumption DEF FreeFits
  <2> QED
    BY <1>1, <1>3, <1>4, <2>2, <2>4 DEF end, new
<1>5. CASE end # 0 /\ end + Hdr < Cap
  <2>1. new = SetInuse(SetFree(ix, b, Cap - end), b)
    BY <1>5 DEF WalkEnd, new
  <2>2. Cap - end \in 0 .. Cap /\ b \notin ix.fresh
    BY <1>1, <1>5, SizeAssumption
  <2> DEFINE f == SetFree(ix, b, Cap - end)
  <2>3. /\ GoodIndex(f) /\ f.fresh = ix.fresh /\ f.inuse = ix.inuse
        /\ f.free = [ix.free EXCEPT ![b] = Cap - end]
    BY <2>2, SetFreeGood
  <2> HIDE DEF f
  <2>4. /\ GoodIndex(new)
        /\ new.fresh = ix.fresh /\ new.inuse = ix.inuse \cup {b}
        /\ new.free = [ix.free EXCEPT ![b] = Cap - end]
    BY <2>1, <2>2, <2>3, SetInuseGood DEF f
  <2>5. FreeFits(new, items, x)
    BY <1>3, <2>4 DEF FreeFits, end
  <2> QED
    BY <1>1, <1>3, <1>5, <2>4, <2>5 DEF end, new
<1>6. CASE end # 0 /\ ~(end + Hdr < Cap)
  <2>1. new = ResetInuse(SetFree(ix, b, 0), b)
    BY <1>6 DEF WalkEnd, new
  <2>2. 0 \in 0 .. Cap /\ b \notin ix.fresh /\ 0 <= Hdr /\ Cap - end <= Hdr
    BY <1>1, <1>6, SizeAssumption
  <2> DEFINE f == SetFree(ix, b, 0)
  <2>3. /\ GoodIndex(f) /\ f.fresh = ix.fresh /\ f.inuse = ix.inuse
        /\ f.free = [ix.free EXCEPT ![b] = 0]
    BY <2>2, SetFreeGood
  <2> HIDE DEF f
  <2>4. /\ GoodIndex(new)
        /\ new.fresh = ix.fresh /\ new.inuse = ix.inuse \ {b}
        /\ new.free = [ix.free EXCEPT ![b] = 0]
    BY <2>1, <2>3, ResetInuseGood DEF f
  <2>5. FreeFits(new, items, x)
    BY <1>3, <2>2, <2>4 DEF FreeFits, end
  <2> QED
    BY <1>1, <1>3, <1>6, <2>2, <2>4, <2>5 DEF end, new
<1> QED
  BY <1>4, <1>5, <1>6 DEF new, end

----------------------------------------------------------------------------
(* The invariant, in the form in which the lemmas above apply *)

GcJob == [src : Blk, dst : Blk, i : Nat \ {0}, ret : {"search", "locate", "relocate"}]

Typed ==
  /\ magic \subseteq Blk
  /\ gcSrc \subseteq Blk /\ gcDst \subseteq Blk /\ gcDone \subseteq Blk
  /\ items \in [Blk -> Seq(Entry)]
  /\ ws \in Blk \cup {0, KV_BLK_INVALID}
  /\ pc \in Pcs
  /\ req \in Requests \cup {NoRequest}
  /\ at \in [blk : 1 .. NBlk + 1, i : Nat \ {0}]
  /\ cur \in [blk : Blk, ent : Entry] \cup {NoItem}
  /\ gc \in GcJob \cup {NoGc}

\* The block whose free size is stale for a moment.
Stale == IF pc = "gcMagic" THEN gc.src ELSE 0

IndexPart ==
  /\ GoodIndex(idx)
  /\ FreeFits(idx, items, Stale)
  /\ \A b \in idx.fresh : items[b] # <<>> => gc.dst = b

KvInv ==
  /\ Typed /\ LogsContiguous /\ IndexPart
  /\ Formatted /\ BootState /\ GcState /\ CallState

\* The two forms of the invariant are the same.
LEMMA InvForms == KvInv <=> IndexInv
<1>1. 0 \notin Blk
  BY DEF Blk
<1> QED
  BY <1>1 DEF KvInv, IndexInv, Typed, TypeOK, GcJob, IndexPart, GoodIndex, FreeFits, Stale,
              IndexAgrees, CountersSound, Exhausted, LogEnd

\* The invariant holds on virgin flash before the first ln_kv_init.
LEMMA KvInit == Init => KvInv
<1> SUFFICES ASSUME Init PROVE KvInv
  OBVIOUS
<1>1. GoodIndex(idx) /\ FreeFits(idx, items, Stale)
  BY ZeroIndexGood DEF Init, Stale
<1>2. LogsContiguous
  BY SizeAssumption DEF Init, LogsContiguous, GoodLog, EndOf
<1>3. Typed
  BY SizeAssumption DEF Init, Typed, Start, Pcs
<1> QED
  BY <1>1, <1>2, <1>3 DEF Init, KvInv, IndexPart, Formatted, BootState, GcState, CallState,
     GcPcs, RedoPcs, ZeroIndex

----------------------------------------------------------------------------
(* Steps that write nothing *)

CalmPcs == OpPcs \cup {"incomplete", "locate", "relocate"}

\* A step that leaves the flash, the index and gc alone has only to establish
\* what the next line of the call relies on.
LEMMA CalmStep ==
  ASSUME KvInv, UNCHANGED <<flashVars, idx, gc>>,
         pc \in CalmPcs, pc' \in CalmPcs \ {"incomplete"}, Typed', CallState'
  PROVE  KvInv'
<1> USE DEF CalmPcs, OpPcs, GcPcs, RedoPcs, flashVars, KvInv
<1>1. LogsContiguous' /\ IndexPart'
  BY DEF LogsContiguous, IndexPart, Stale
<1>2. Formatted'
  BY DEF Formatted
<1>3. BootState' /\ GcState'
  BY DEF BootState, GcState
<1> QED
  BY <1>1, <1>2, <1>3

\* The sizes of items.
LEMMA ItemSizes ==
  ASSUME ItemsFit, NEW v \in Values
  PROVE  ItemSize(v) \in Nat /\ Hdr < ItemSize(v) /\ ItemSize(v) <= Cap
  BY SizeAssumption, ItemAssumption DEF ItemSize, ItemsFit

\* A pending set has a size.
LEMMA SizeFacts ==
  ASSUME ItemsFit, KvInv, req.type = "set"
  PROVE  req.val \in Values /\ Size \in Nat /\ Hdr < Size /\ Size <= Cap
<1>1. req.val \in Values
  BY DEF KvInv, Typed, Requests, NoRequest
<1> QED
  BY <1>1, ItemSizes DEF Size

\* A fresh block is blank unless gc is filling it.
LEMMA FreshRoom ==
  ASSUME KvInv, gc = NoGc, NEW b \in idx.fresh
  PROVE  b \in Blk /\ items[b] = <<>> /\ idx.free[b] = Cap
<1>1. b \in Blk /\ b # 0
  BY DEF KvInv, IndexPart, GoodIndex, Index, Blk
<1>2. items[b] = <<>>
  BY <1>1 DEF KvInv, IndexPart, NoGc
<1>3. idx.free[b] = Cap - 0
  BY <1>2 DEF KvInv, IndexPart, FreeFits, EndOf
<1> QED
  BY <1>1, <1>2, <1>3, SizeAssumption

\* kv_blk_search_suitable has found a block: it is writeable and has room, and
\* the item to be replaced is where cur says unless kv_item_fix has to run.
LEMMA ChosenCall ==
  ASSUME KvInv, pc = "search", Chosen, UNCHANGED <<items, idx, gc>>,
         ws' \in idx.fresh \cup idx.inuse, idx.free[ws'] >= Size
  PROVE  CallState'
<1>1. req.type = "set" /\ gc = NoGc
  BY DEF KvInv, CallState, GcState, GcPcs, RedoPcs
<1>2. /\ UNCHANGED <<req, cur>>
      /\ pc' = IF cur # NoItem /\ cur.ent \notin ItemsAt(CurPos) THEN "fix" ELSE "save"
  BY DEF Chosen, CurMoved, Goto, callVars
<1>3. Size' = Size
  BY <1>2 DEF Size, ItemSize
<1>4. ItemsAt(CurPos)' = ItemsAt(CurPos)
  BY <1>2 DEF ItemsAt, CurPos
<1> QED
  BY <1>1, <1>2, <1>3, <1>4 DEF CallState, GcPcs

\* The steps of ln_kv_init and of the calls that only choose where to go on,
\* kv_blk_search_suitable among them, preserve the invariant.
LEMMA ServeStep ==
  ASSUME ItemsFit, KvInv,
         \/ StatusError \/ NothingToRedo \/ Locate
         \/ FindSkip \/ FixSkip \/ WalkNone
         \/ Enter \/ EnterRefused \/ SearchWorkspace \/ SearchInuse \/ SearchFull
         \/ SearchFresh
         \/ \E r \in Requests : Call(r)
  PROVE  KvInv'
<1> USE DEF Goto, Return, Refused, flashVars, ramVars, callVars, Start
<1>0. Typed /\ CallState /\ GcState
  BY DEF KvInv
<1>1. UNCHANGED <<flashVars, idx, gc>> /\ pc \in CalmPcs /\ pc' \in CalmPcs \ {"incomplete"}
  BY DEF StatusError, NothingToRedo, Locate, FindSkip, FixSkip, WalkNone, Enter, EnterRefused,
         SearchWorkspace, SearchInuse, SearchFull, SearchFresh, Call, WalkSkip, NoRoom, CalmPcs,
         OpPcs, GcPcs, BootPcs, Chosen
<1>2. gc = NoGc /\ pc' \in Pcs /\ pc' \notin GcPcs
  BY <1>0, <1>1 DEF GcState, CalmPcs, OpPcs, GcPcs, RedoPcs, Pcs, BootPcs
<1>3. idx \in Index /\ idx.fresh \subseteq Blk /\ idx.inuse \subseteq Blk
  BY DEF KvInv, IndexPart, GoodIndex, Index
<1>4. [blk |-> 1, i |-> 1] \in [blk : 1 .. NBlk + 1, i : Nat \ {0}]
  BY SizeAssumption
<1>5. CASE StatusError
  <2>1. Typed'
    BY <1>0, <1>1, <1>2, <1>5 DEF StatusError, Typed
  <2>2. CallState'
    BY <1>2, <1>5 DEF StatusError, CallState
  <2> QED
    BY <1>1, <2>1, <2>2, CalmStep
<1>6. CASE NothingToRedo
  <2>1. Typed'
    BY <1>0, <1>1, <1>2, <1>6 DEF NothingToRedo, Typed
  <2>2. CallState'
    BY <1>2, <1>6 DEF NothingToRedo, CallState
  <2> QED
    BY <1>1, <2>1, <2>2, CalmStep
<1>7. CASE Locate
  <2>1. Typed'
    BY <1>0, <1>1, <1>2, <1>3, <1>7 DEF Locate, Typed, Firsts
  <2>2. CallState'
    BY <1>2, <1>7 DEF Locate, CallState
  <2> QED
    BY <1>1, <2>1, <2>2, CalmStep
<1>8. CASE FindSkip \/ FixSkip
  <2>0. /\ at.blk \in idx.fresh /\ at' = [blk |-> at.blk + 1, i |-> 1]
        /\ UNCHANGED <<pc, req, cur, ws>>
    BY <1>8 DEF FindSkip, FixSkip, WalkSkip, NextBlk
  <2>1. Typed'
    <3>1. at' \in [blk : 1 .. NBlk + 1, i : Nat \ {0}]
      BY <1>3, <2>0, SizeAssumption DEF Blk
    <3> QED
      BY <1>0, <1>1, <2>0, <3>1 DEF Typed
  <2>2. CallState'
    <3>1. Size' = Size /\ ItemsAt(CurPos)' = ItemsAt(CurPos)
      BY <1>1, <2>0 DEF Size, ItemSize, ItemsAt, CurPos
    <3> QED
      BY <1>0, <1>1, <2>0, <3>1 DEF CallState
  <2> QED
    BY <1>1, <2>1, <2>2, CalmStep
<1>9. CASE WalkNone
  <2>1. Typed'
    BY <1>0, <1>1, <1>2, <1>4, <1>9 DEF WalkNone, Typed
  <2>2. CallState'
    BY <1>2, <1>9 DEF WalkNone, CallState
  <2> QED
    BY <1>1, <2>1, <2>2, CalmStep
<1>10. CASE Enter
  <2>1. Typed'
    BY <1>0, <1>1, <1>2, <1>10 DEF Enter, Typed
  <2>2. CallState'
    BY <1>0, <1>2, <1>10 DEF Enter, CallState
  <2> QED
    BY <1>1, <2>1, <2>2, CalmStep
<1>11. CASE EnterRefused
  <2>1. Typed'
    BY <1>0, <1>1, <1>2, <1>4, <1>11 DEF EnterRefused, Typed
  <2>2. CallState'
    BY <1>2, <1>11 DEF EnterRefused, CallState
  <2> QED
    BY <1>1, <2>1, <2>2, CalmStep
<1>12. CASE SearchWorkspace
  <2>1. Typed'
    BY <1>0, <1>1, <1>2, <1>12 DEF SearchWorkspace, Typed, Chosen
  <2>2. ws \in idx.fresh \cup idx.inuse
    <3>1. Hdr < Size /\ Size \in Nat /\ ws # 0 /\ pc = "search"
      BY <1>0, <1>12, SizeFacts DEF SearchWorkspace, CallState, Blk
    <3>2. idx.free[ws] \in Nat /\ idx.free[ws] >= Size /\ ws \in Blk
      BY <1>3, <1>12 DEF SearchWorkspace, Index
    <3> QED
      BY <3>1, <3>2, SizeAssumption DEF KvInv, IndexPart, FreeFits, Stale
  <2>3. CallState'
    BY <1>1, <1>12, <2>2, ChosenCall DEF SearchWorkspace
  <2> QED
    BY <1>1, <2>1, <2>3, CalmStep
<1>13. CASE SearchInuse
  <2>1. ws' \in idx.inuse /\ idx.free[ws'] >= Size
    BY <1>13 DEF SearchInuse, NextOnRing, Roomy
  <2>2. Typed'
    BY <1>0, <1>1, <1>2, <1>3, <1>13, <2>1 DEF SearchInuse, Typed, Chosen
  <2>3. CallState'
    BY <1>1, <1>13, <2>1, ChosenCall DEF SearchInuse
  <2> QED
    BY <1>1, <2>2, <2>3, CalmStep
<1>14. CASE SearchFull
  <2>1. Typed'
    BY <1>0, <1>1, <1>2, <1>4, <1>14 DEF SearchFull, Typed
  <2>2. CallState'
    BY <1>2, <1>14 DEF SearchFull, CallState
  <2> QED
    BY <1>1, <2>1, <2>2, CalmStep
<1>15. CASE SearchFresh
  <2>1. CASE NextFresh = {}
    <3>1. Typed'
      BY <1>0, <1>1, <1>2, <1>4, <1>15, <2>1 DEF SearchFresh, Typed
    <3>2. CallState'
      BY <1>2, <1>15, <2>1 DEF SearchFresh, CallState
    <3> QED
      BY <1>1, <3>1, <3>2, CalmStep
  <2>2. CASE NextFresh # {}
    <3>1. ws' \in idx.fresh /\ Chosen /\ pc = "search"
      BY <1>15, <2>2 DEF SearchFresh, NextFresh, NextOnRing, NoRoom
    <3>2. idx.free[ws'] = Cap
      BY <1>2, <3>1, FreshRoom
    <3>3. Size \in Nat /\ Size <= Cap
      BY <1>0, <3>1, SizeFacts DEF CallState
    <3>4. Typed'
      BY <1>0, <1>1, <1>2, <1>3, <3>1 DEF Typed, Chosen
    <3>5. CallState'
      BY <1>1, <3>1, <3>2, <3>3, SizeAssumption, ChosenCall
    <3> QED
      BY <1>1, <3>4, <3>5, CalmStep
  <2> QED
    BY <2>1, <2>2
<1>16. ASSUME NEW r \in Requests, Call(r)
       PROVE  KvInv'
  <2>1. Typed'
    BY <1>0, <1>1, <1>2, <1>16 DEF Call, Typed
  <2>2. CallState'
    BY <1>2, <1>16 DEF Call, CallState
  <2> QED
    BY <1>1, <2>1, <2>2, CalmStep
<1> QED
  BY <1>5, <1>6, <1>7, <1>8, <1>9, <1>10, <1>11, <1>12, <1>13, <1>14, <1>15, <1>16

----------------------------------------------------------------------------
(* The start of a gc *)

\* kv_do_gc may start if its source is not fresh and its destination is fresh
\* or about to be formatted.
LEMMA GcStart ==
  ASSUME KvInv, pc \in CalmPcs,
         NEW src \in Blk \ idx.fresh, NEW dst \in Blk \ {src}, NEW first,
         NEW ret \in {"search", "locate", "relocate"},
         CallGc(src, dst, first, ret), UNCHANGED <<flashVars, ramVars, callVars, at>>,
         \/ first \in {"gcSrc", "gcDst"} /\ dst \in idx.fresh
         \/ first = "dstErase" /\ dst \notin idx.fresh \cup idx.inuse /\ ret = "locate",
         ret = "search" => req.type = "set"
  PROVE  KvInv'
<1> USE DEF CallGc, Goto, flashVars, ramVars, callVars
<1>1. gc = NoGc /\ pc \notin {"down", "scan", "gcMagic", "dstMagic"}
  BY DEF KvInv, GcState, CalmPcs, OpPcs, GcPcs, RedoPcs
<1>2. gc' = [src |-> src, dst |-> dst, i |-> 1, ret |-> ret] /\ gc' \in GcJob /\ gc' # NoGc
  <2>1. src # 0
    BY DEF Blk
  <2> QED
    BY <2>1 DEF GcJob, NoGc
<1>3. pc' = first /\ pc' \in {"gcSrc", "gcDst", "dstErase"}
  OBVIOUS
<1>4. Typed'
  BY <1>2, <1>3 DEF KvInv, Typed, Pcs, GcPcs, BootPcs
<1>5. LogsContiguous'
  BY DEF KvInv, LogsContiguous
<1>6. IndexPart'
  <2>1. \A b \in idx.fresh : items[b] = <<>>
    BY <1>1, FreshRoom
  <2>2. Stale = 0 /\ Stale' = 0
    BY <1>1, <1>3 DEF Stale
  <2> QED
    BY <2>1, <2>2 DEF KvInv, IndexPart
<1>7. Formatted'
  BY <1>1, <1>3 DEF KvInv, Formatted
<1>8. BootState'
  BY <1>3 DEF BootState
<1>9. GcState'
  <2>1. dst \in idx.fresh => items[dst] = <<>>
    BY <1>1, FreshRoom
  <2> QED
    BY <1>2, <1>3, <2>1 DEF GcState, GcPcs, RedoPcs
<1>10. CallState'
  BY <1>2, <1>3 DEF CallState
<1> QED
  BY <1>4, <1>5, <1>6, <1>7, <1>8, <1>9, <1>10 DEF KvInv

\* Every caller of kv_do_gc meets its preconditions.
LEMMA StartStep ==
  ASSUME ItemsFit, KvInv, RedoOnFresh \/ RedoOnDst \/ LocateGc \/ SearchGc
  PROVE  KvInv'
<1>1. /\ idx.fresh \subseteq Blk /\ idx.dirty \subseteq Blk
      /\ idx.fresh \cap idx.dirty = {}
  BY DEF KvInv, IndexPart, GoodIndex, Index
<1>2. gcSrc \subseteq Blk /\ gcDst \subseteq Blk
  BY DEF KvInv, Typed
<1>3. CASE RedoOnFresh
  <2>1. PICK src \in PendingSrc, dst \in Lasts(idx.fresh) : CallGc(src, dst, "gcDst", "locate")
    BY <1>3 DEF RedoOnFresh
  <2>2. pc = "incomplete" /\ UNCHANGED <<flashVars, ramVars, callVars, at>>
    BY <1>3 DEF RedoOnFresh
  <2>3. src \in Blk \ idx.fresh /\ dst \in idx.fresh
    BY <1>2, <2>1, <2>2 DEF PendingSrc, Lasts, KvInv, BootState
  <2> QED
    BY <1>1, <2>1, <2>2, <2>3, GcStart DEF CalmPcs
<1>4. CASE RedoOnDst
  <2>1. PICK src \in PendingSrc, dst \in PendingDst : CallGc(src, dst, "dstErase", "locate")
    BY <1>4 DEF RedoOnDst
  <2>2. pc = "incomplete" /\ UNCHANGED <<flashVars, ramVars, callVars, at>>
    BY <1>4 DEF RedoOnDst
  <2>3. /\ src \in Blk \ idx.fresh /\ dst \in Blk \ {src}
        /\ dst \notin idx.fresh \cup idx.inuse
    BY <1>2, <2>1, <2>2 DEF PendingSrc, PendingDst, DstNotDone, KvInv, BootState
  <2> QED
    BY <2>1, <2>2, <2>3, GcStart DEF CalmPcs
<1>5. CASE LocateGc
  <2>1. PICK src \in Firsts(idx.dirty), dst \in Firsts(idx.fresh) :
               CallGc(src, dst, "gcSrc", "relocate")
    BY <1>5 DEF LocateGc
  <2>2. pc = "locate" /\ UNCHANGED <<flashVars, ramVars, callVars, at>>
    BY <1>5 DEF LocateGc
  <2>3. src \in Blk \ idx.fresh /\ dst \in idx.fresh
    BY <1>1, <2>1 DEF Firsts
  <2> QED
    BY <1>1, <2>1, <2>2, <2>3, GcStart DEF CalmPcs
<1>6. CASE SearchGc
  <2>1. PICK src \in Firsts(idx.dirty), dst \in NextFresh : CallGc(src, dst, "gcSrc", "search")
    BY <1>6 DEF SearchGc
  <2>2. pc = "search" /\ UNCHANGED <<flashVars, ramVars, callVars, at>>
    BY <1>6 DEF SearchGc, NoRoom
  <2>3. src \in Blk \ idx.fresh /\ dst \in idx.fresh
    BY <1>1, <2>1 DEF Firsts, NextFresh, NextOnRing
  <2>4. req.type = "set"
    BY <2>2 DEF KvInv, CallState
  <2> QED
    BY <1>1, <2>1, <2>2, <2>3, <2>4, GcStart DEF CalmPcs, OpPcs
<1> QED
  BY <1>3, <1>4, <1>5, <1>6

----------------------------------------------------------------------------
(* Walks, save and discard *)

\* A step of a call outside gc: the tags stay, so only the logs, the index and
\* what the call relies on are at stake.
LEMMA OpStep ==
  ASSUME KvInv, UNCHANGED <<tagVars, gc>>, pc \in OpPcs, pc' \in OpPcs,
         Typed', LogsContiguous', IndexPart', CallState'
  PROVE  KvInv'
<1> USE DEF OpPcs, GcPcs, RedoPcs, tagVars, KvInv
<1>1. Formatted'
  BY DEF Formatted
<1>2. BootState' /\ GcState'
  BY DEF BootState, GcState
<1> QED
  BY <1>1, <1>2

\* The same for a walk that also sets the dirty flag.
LEMMA WalkedGood ==
  ASSUME GoodIndex(idx), items \in [Blk -> Seq(Entry)], NEW x,
         FreeFits(idx, items, x), NEW b \in Blk \ idx.fresh, GoodLog(items[b])
  PROVE  /\ GoodIndex(Walked(idx, b))
         /\ FreeFits(Walked(idx, b), items, x)
         /\ Walked(idx, b).fresh = IF items[b] = <<>> THEN idx.fresh \cup {b} ELSE idx.fresh
         /\ \A c \in Blk \ {b} : c \in idx.inuse =>
              c \in Walked(idx, b).inuse /\ Walked(idx, b).free[c] = idx.free[c]
         /\ \/ b \in Walked(idx, b).inuse \/ b \in Walked(idx, b).fresh
            \/ Cap - EndOf(items[b]) <= Hdr
<1> DEFINE seen == Passed(idx, b, Len(items[b]))
           new == WalkEnd(seen, b, EndOf(items[b]))
<1>1. GoodIndex(seen) /\ seen.fresh = idx.fresh /\ seen.inuse = idx.inuse /\ seen.free = idx.free
  BY SetDirtyGood DEF Passed
<1>2. new = Walked(idx, b)
  BY DEF Walked, LogEnd
<1> HIDE DEF seen
<1>3. FreeFits(seen, items, x)
  BY <1>1 DEF FreeFits
<1>4. /\ GoodIndex(new) /\ FreeFits(new, items, x)
      /\ new.fresh = IF items[b] = <<>> THEN seen.fresh \cup {b} ELSE seen.fresh
      /\ \A c \in Blk \ {b} : c \in seen.inuse => c \in new.inuse /\ new.free[c] = seen.free[c]
      /\ b \in new.inuse \/ b \in new.fresh \/ Cap - EndOf(items[b]) <= Hdr
  <2>1. b \in Blk /\ (b \in seen.fresh => items[b] = <<>>)
    BY <1>1
  <2>2. GoodIndex(seen)
    BY <1>1
  <2> QED
    BY <1>3, <2>1, <2>2, WalkEndGood
<1> HIDE DEF new
<1> QED
  BY <1>1, <1>2, <1>4

\* A walk of kv_item_find or kv_item_find_new_copy that ends without a match
\* re-derives the index entry of the block from its log, and a workspace that
\* had room keeps it.
LEMMA MissStep ==
  ASSUME ItemsFit, KvInv, FindMiss \/ FixMiss
  PROVE  KvInv'
<1> DEFINE b == at.blk
<1>1. /\ pc \in {"find", "fix"} /\ b \in Blk \ idx.fresh
      /\ idx' = Walked(idx, b)
      /\ at' = [blk |-> at.blk + 1, i |-> 1]
      /\ UNCHANGED <<magic, gcSrc, gcDst, gcDone, items, ws, pc, req, res, cur, gc>>
  BY DEF FindMiss, FixMiss, WalkMiss, NextBlk, flashVars, callVars
<1>2. gc = NoGc /\ Stale = 0 /\ Stale' = 0 /\ items \in [Blk -> Seq(Entry)]
  BY <1>1 DEF KvInv, Typed, GcState, GcPcs, RedoPcs, Stale
<1>3. GoodIndex(idx) /\ FreeFits(idx, items, 0) /\ GoodLog(items[b])
  BY <1>1, <1>2 DEF KvInv, IndexPart, LogsContiguous
<1> HIDE DEF b
<1>5. /\ GoodIndex(idx') /\ FreeFits(idx', items, 0)
      /\ idx'.fresh = IF items[b] = <<>> THEN idx.fresh \cup {b} ELSE idx.fresh
      /\ \A c \in Blk \ {b} : c \in idx.inuse => c \in idx'.inuse /\ idx'.free[c] = idx.free[c]
      /\ b \in idx'.inuse \/ b \in idx'.fresh \/ Cap - EndOf(items[b]) <= Hdr
  <2> DEFINE new == Walked(idx, b)
  <2>1. /\ GoodIndex(new) /\ FreeFits(new, items, 0)
        /\ new.fresh = IF items[b] = <<>> THEN idx.fresh \cup {b} ELSE idx.fresh
        /\ \A c \in Blk \ {b} : c \in idx.inuse => c \in new.inuse /\ new.free[c] = idx.free[c]
        /\ b \in new.inuse \/ b \in new.fresh \/ Cap - EndOf(items[b]) <= Hdr
    BY <1>1, <1>2, <1>3, WalkedGood
  <2> HIDE DEF new
  <2>2. idx' = new
    BY <1>1 DEF new
  <2> QED
    BY <2>1, <2>2
<1>6. IndexPart'
  BY <1>1, <1>2, <1>5 DEF KvInv, IndexPart
<1>7. Typed'
  <2>1. at' \in [blk : 1 .. NBlk + 1, i : Nat \ {0}]
    BY <1>1, SizeAssumption DEF Blk, b
  <2> QED
    BY <1>1, <2>1 DEF KvInv, Typed
<1>8. LogsContiguous'
  BY <1>1 DEF KvInv, LogsContiguous
<1>9. CallState'
  <2>1. Size' = Size /\ ItemsAt(CurPos)' = ItemsAt(CurPos)
    BY <1>1 DEF Size, ItemSize, ItemsAt, CurPos
  <2>2. ASSUME pc = "fix"
        PROVE  ws \in idx'.fresh \cup idx'.inuse /\ idx'.free[ws] >= Size
    <3>1. /\ ws \in idx.fresh \cup idx.inuse /\ idx.free[ws] >= Size
          /\ req.type = "set"
      BY <2>2 DEF KvInv, CallState
    <3>2. Size \in Nat /\ Hdr < Size
      BY <3>1, SizeFacts
    <3>3. /\ ws \in Blk /\ idx.free[ws] \in Nat /\ idx'.free[ws] \in Nat
          /\ idx.free[ws] = Cap - EndOf(items[ws])
      BY <1>3, <1>5, <3>1 DEF GoodIndex, Index, FreeFits
    <3>4. ws \in idx'.fresh \cup idx'.inuse
      BY <1>1, <1>5, <3>1, <3>2, <3>3, SizeAssumption
    <3>5. idx'.free[ws] = Cap - EndOf(items[ws])
      BY <1>5, <3>4 DEF FreeFits
    <3> QED
      BY <3>1, <3>3, <3>4, <3>5
  <2> QED
    BY <1>1, <2>1, <2>2 DEF KvInv, CallState, GcPcs
<1> QED
  BY <1>1, <1>6, <1>7, <1>8, <1>9, OpStep DEF OpPcs, tagVars

\* A walk that stops at a match has at most set the dirty flag.
LEMMA HitStep ==
  ASSUME KvInv, FindHit \/ FixHit
  PROVE  KvInv'
<1>1. /\ pc \in {"find", "fix"} /\ at.blk \in Blk \ idx.fresh
      /\ UNCHANGED <<magic, gcSrc, gcDst, gcDone, items, ws, gc>>
  BY DEF FindHit, FixHit, WalkHit, flashVars
<1>2. gc = NoGc /\ Stale = 0 /\ GoodIndex(idx) /\ items \in [Blk -> Seq(Entry)]
  BY <1>1 DEF KvInv, IndexPart, Typed, GcState, GcPcs, RedoPcs, Stale
<1>3. GoodIndex(idx') /\ idx'.fresh = idx.fresh /\ idx'.inuse = idx.inuse /\ idx'.free = idx.free
  <2>1. idx' \in {idx, SetDirty(idx, at.blk)}
    BY DEF FindHit, FixHit, WalkHit, Passed
  <2> QED
    BY <1>1, <1>2, <2>1, SetDirtyGood
<1>4. pc' \in OpPcs /\ pc' \in {"idle", "enter", "discard", "save"}
  BY DEF FindHit, FixHit, Return, Goto, OpPcs
<1>5. IndexPart'
  <2>1. Stale' = 0
    BY <1>4 DEF Stale
  <2> QED
    BY <1>1, <1>2, <1>3, <2>1 DEF KvInv, IndexPart, FreeFits
<1>6. LogsContiguous'
  BY <1>1 DEF KvInv, LogsContiguous
<1>7. Typed' /\ CallState'
  <2>0. Start \in [blk : 1 .. NBlk + 1, i : Nat \ {0}] /\ 0 \notin Blk
    BY SizeAssumption DEF Start, Blk
  <2>1. CASE FindHit
    <3>1. PICK i \in Matches(at.blk, HasKey) :
             LET e == items[at.blk][i] IN
               \/ /\ req.type = "get"
                  /\ Return("ok", e.val)
               \/ /\ req.type = "set" /\ e.val = req.val
                  /\ Return("ok", Absent)
               \/ /\ \/ req.type = "set" /\ e.val # req.val
                     \/ req.type = "del"
                  /\ cur' = [blk |-> at.blk, ent |-> e]
                  /\ at' = Start
                  /\ Goto(IF req.type = "set" THEN "enter" ELSE "discard")
                  /\ UNCHANGED <<req, res>>
      BY <2>1 DEF FindHit
    <3> DEFINE e == items[at.blk][i]
    <3>2. i \in DOMAIN items[at.blk] /\ e \in Entry
      <4>1. i \in DOMAIN items[at.blk]
        BY <3>1 DEF Matches
      <4>2. items[at.blk] \in Seq(Entry)
        BY <1>1, <1>2
      <4> QED
        BY <4>1, <4>2
    <3>3. CASE Return("ok", e.val) \/ Return("ok", Absent)
      <4>1. Typed'
        BY <1>1, <1>4, <2>0, <3>3 DEF KvInv, Typed, Return, Goto, OpPcs, Pcs
      <4>2. CallState'
        BY <3>3 DEF Return, Goto, CallState, GcPcs
      <4> QED
        BY <4>1, <4>2
    <3>4. CASE /\ req.type \in {"set", "del"}
               /\ cur' = [blk |-> at.blk, ent |-> e]
               /\ at' = Start
               /\ pc' = IF req.type = "set" THEN "enter" ELSE "discard"
               /\ UNCHANGED <<req, res>>
      <4>1. cur' \in [blk : Blk, ent : Entry] /\ cur' # NoItem
        BY <1>1, <2>0, <3>2, <3>4 DEF NoItem
      <4>2. Typed'
        BY <1>1, <1>4, <2>0, <3>4, <4>1 DEF KvInv, Typed, OpPcs, Pcs
      <4>3. ItemsAt(CurPos)' # {}
        <5>1. CurPos' = <<at.blk, e.off>>
          BY <3>4, <4>1 DEF CurPos
        <5> QED
          BY <1>1, <3>2, <5>1 DEF ItemsAt
      <4>4. CallState'
        BY <3>4, <4>1, <4>3 DEF CallState, GcPcs
      <4> QED
        BY <4>2, <4>4
    <3> QED
      BY <3>1, <3>3, <3>4 DEF Goto
  <2>2. CASE FixHit
    <3>1. PICK i \in Matches(at.blk, SameItem) :
             cur' = [blk |-> at.blk, ent |-> [cur.ent EXCEPT !.off = items[at.blk][i].off]]
      BY <2>2 DEF FixHit
    <3>2. at' = Start /\ pc' = "save" /\ pc = "fix" /\ UNCHANGED <<req, res>>
      BY <2>2 DEF FixHit, Goto
    <3>3. i \in DOMAIN items[at.blk] /\ items[at.blk][i] \in Entry
      <4>1. i \in DOMAIN items[at.blk]
        BY <3>1 DEF Matches
      <4>2. items[at.blk] \in Seq(Entry)
        BY <1>1, <1>2
      <4> QED
        BY <4>1, <4>2
    <3>4. cur.ent \in Entry /\ req.type = "set"
          /\ ws \in idx.fresh \cup idx.inuse /\ idx.free[ws] >= Size
      BY <3>2 DEF KvInv, Typed, CallState
    <3>5. /\ cur' \in [blk : Blk, ent : Entry] /\ cur' # NoItem
          /\ cur'.ent.off = items[at.blk][i].off
      <4>1. items[at.blk][i].off \in 0 .. Cap
        BY <3>3 DEF Entry
      <4>2. [cur.ent EXCEPT !.off = items[at.blk][i].off] \in Entry
        BY <3>4, <4>1 DEF Entry
      <4>3. [cur.ent EXCEPT !.off = items[at.blk][i].off].off = items[at.blk][i].off
        BY <3>4 DEF Entry
      <4> QED
        BY <1>1, <2>0, <3>1, <4>2, <4>3 DEF NoItem
    <3>6. Typed'
      BY <1>1, <1>4, <2>0, <3>2, <3>5 DEF KvInv, Typed, OpPcs, Pcs
    <3>7. ItemsAt(CurPos)' # {}
      <4>1. CurPos' = <<at.blk, items[at.blk][i].off>>
        BY <3>1, <3>5 DEF CurPos
      <4> QED
        BY <1>1, <3>3, <4>1 DEF ItemsAt
    <3>8. Size' = Size
      BY <3>2 DEF Size, ItemSize
    <3>9. CallState'
      BY <1>1, <1>3, <3>2, <3>4, <3>5, <3>7, <3>8 DEF CallState, GcPcs
    <3> QED
      BY <3>6, <3>9
  <2> QED
    BY <2>1, <2>2
<1> QED
  BY <1>1, <1>4, <1>5, <1>6, <1>7, OpStep DEF OpPcs, tagVars

\* The item ln_kv_set writes is an entry that starts where the log ends and
\* fits into the block.
LEMMA SavedItemFits ==
  ASSUME ItemsFit, KvInv, pc = "save"
  PROVE  /\ ws \in Blk /\ SavedItem \in Entry
         /\ SavedItem.off = EndOf(items[ws]) /\ SavedItem.size = Size
         /\ EndOf(items[ws]) + Size <= Cap
         /\ idx.free[ws] = Cap - EndOf(items[ws])
<1>1. /\ req.type = "set" /\ ws \in idx.fresh \cup idx.inuse /\ idx.free[ws] >= Size
  BY DEF KvInv, CallState
<1>2. /\ req.val \in Values /\ Size \in Nat /\ Hdr < Size /\ Size <= Cap
  BY <1>1, SizeFacts
<1>3. ws \in Blk /\ idx.free[ws] \in 0 .. Cap /\ idx.free[ws] = Cap - EndOf(items[ws])
  BY <1>1 DEF KvInv, IndexPart, GoodIndex, Index, FreeFits
<1>4. items[ws] \in Seq(Entry)
  BY <1>3 DEF KvInv, Typed
<1>5. EndOf(items[ws]) \in Nat
  BY <1>4, LogEndFacts
<1>6. Cap - idx.free[ws] = EndOf(items[ws])
  BY <1>3, <1>5, SizeAssumption
<1>7. req.key \in Keys
  BY <1>1 DEF KvInv, Typed, Requests, NoRequest
<1>8. CurPos \in Positions
  <2>1. CASE cur = NoItem
    BY <2>1 DEF CurPos, Positions
  <2>2. CASE cur # NoItem
    <3>1. cur.blk \in Blk /\ cur.ent.off \in 0 .. Cap
      BY <2>2 DEF KvInv, Typed, Entry
    <3> QED
      BY <2>2, <3>1 DEF CurPos, Positions
  <2> QED
    BY <2>1, <2>2
<1>9. EndOf(items[ws]) \in 0 .. Cap /\ Size \in Hdr .. Cap
  BY <1>2, <1>3, <1>5, SizeAssumption
<1>10. SavedItem \in Entry
  BY <1>2, <1>6, <1>7, <1>8, <1>9 DEF SavedItem, NewItem, Entry, Size
<1>11. SavedItem.off = EndOf(items[ws]) /\ SavedItem.size = Size
  BY <1>6 DEF SavedItem, NewItem, Size
<1> QED
  BY <1>1, <1>2, <1>3, <1>5, <1>10, <1>11, SizeAssumption

\* kv_item_do_save appends the item and takes its size off the free size.
LEMMA SaveStep ==
  ASSUME ItemsFit, KvInv, Save
  PROVE  KvInv'
<1>1. /\ pc = "save" /\ items' = Append1(ws, SavedItem)
      /\ idx' = Saved(ReduceFree(idx, ws, Size))
      /\ UNCHANGED <<magic, gcSrc, gcDst, gcDone, ws, gc>>
  BY DEF Save, tagVars
<1>2. /\ ws \in Blk /\ SavedItem \in Entry
      /\ SavedItem.off = EndOf(items[ws]) /\ SavedItem.size = Size
      /\ EndOf(items[ws]) + Size <= Cap
      /\ idx.free[ws] = Cap - EndOf(items[ws])
  BY <1>1, SavedItemFits
<1>3. /\ gc = NoGc /\ items \in [Blk -> Seq(Entry)] /\ req.type = "set"
      /\ ws \in idx.fresh \cup idx.inuse /\ idx.free[ws] >= Size
      /\ cur # NoItem => ItemsAt(CurPos) # {}
  BY <1>1 DEF KvInv, Typed, CallState, GcState, GcPcs, RedoPcs
<1>4. Size \in Nat
  BY <1>3, SizeFacts
<1>5. items[ws] \in Seq(Entry) /\ GoodLog(items[ws]) /\ EndOf(items[ws]) \in Nat
  BY <1>2, <1>3, LogEndFacts DEF KvInv, LogsContiguous
<1>6. /\ items' = [items EXCEPT ![ws] = Append(items[ws], SavedItem)]
      /\ Append(items[ws], SavedItem) \in Seq(Entry)
      /\ GoodLog(Append(items[ws], SavedItem))
      /\ EndOf(Append(items[ws], SavedItem)) = EndOf(items[ws]) + Size
  BY <1>1, <1>2, <1>5, AppendLog DEF Append1
<1>7. /\ items' \in [Blk -> Seq(Entry)]
      /\ items'[ws] = Append(items[ws], SavedItem)
      /\ \A c \in Blk \ {ws} : items'[c] = items[c]
  BY <1>2, <1>3, <1>6
<1>8. LogsContiguous'
  BY <1>6, <1>7 DEF KvInv, LogsContiguous
<1>9. \A c \in idx.fresh : c \in Blk /\ items[c] = <<>>
  BY <1>3, FreshRoom
<1>10. IndexPart'
  <2> DEFINE r == ReduceFree(idx, ws, Size)
  <2>0. GoodIndex(idx) /\ FreeFits(idx, items, 0)
    BY <1>1 DEF KvInv, IndexPart, Stale
  <2>1. /\ GoodIndex(r) /\ r.fresh = idx.fresh /\ r.inuse = idx.inuse
        /\ r.free = [idx.free EXCEPT ![ws] = idx.free[ws] - Size]
    BY <1>2, <1>3, <1>4, <2>0, ReduceFreeGood
  <2> HIDE DEF r
  <2>2. /\ idx.free \in [Blk -> 0 .. Cap] /\ idx.fresh \subseteq Blk /\ idx.inuse \subseteq Blk
        /\ idx.fresh \cap idx.inuse = {}
    BY <2>0 DEF GoodIndex, Index
  <2>3. FreeFits(r, items', 0)
    <3>1. r.free[ws] = Cap - EndOf(items'[ws])
      BY <1>2, <1>4, <1>5, <1>6, <1>7, <2>1, <2>2, SizeAssumption
    <3>2. \A c \in Blk \ {ws} : r.free[c] = idx.free[c]
      BY <2>1, <2>2
    <3> QED
      BY <1>2, <1>3, <1>7, <2>0, <2>1, <2>2, <3>1, <3>2 DEF FreeFits
  <2>4. GoodIndex(idx') /\ FreeFits(idx', items', 0) /\ idx'.fresh = idx.fresh \ {ws}
    <3>1. CASE ws \in r.fresh
      <4>1. idx' = LeaveFresh(r, ws)
        BY <1>1, <3>1 DEF Saved, r
      <4> QED
        BY <2>1, <2>3, <3>1, <4>1, LeaveFreshGood
    <3>2. CASE ws \notin r.fresh /\ IsFull(r, ws)
      <4>1. idx' = ResetInuse(r, ws)
        BY <1>1, <3>2 DEF Saved, r
      <4>2. /\ GoodIndex(idx') /\ idx'.fresh = r.fresh /\ idx'.inuse = r.inuse \ {ws}
            /\ idx'.free = r.free
        BY <1>2, <2>1, <4>1, ResetInuseGood
      <4> QED
        BY <2>1, <2>3, <3>2, <4>2 DEF FreeFits, IsFull
    <3>3. CASE ws \notin r.fresh /\ ~IsFull(r, ws)
      <4>1. idx' = r
        BY <1>1, <3>3 DEF Saved, r
      <4> QED
        BY <2>1, <2>3, <3>3, <4>1
    <3> QED
      BY <3>1, <3>2, <3>3
  <2>5. Stale' = 0
    BY DEF Save, Return, Goto, Stale
  <2> QED
    BY <1>7, <1>9, <2>4, <2>5 DEF IndexPart
<1>11. pc' \in {"idle", "discard"}
  BY DEF Save, Return, Goto
<1>12. Typed'
  <2>1. Start \in [blk : 1 .. NBlk + 1, i : Nat \ {0}]
    BY SizeAssumption DEF Start
  <2>2. /\ req' \in {req, NoRequest} /\ at' \in {at, Start} /\ cur' \in {cur, NoItem}
    BY DEF Save, Return, Goto, callVars
  <2> QED
    BY <1>1, <1>7, <1>11, <2>1, <2>2 DEF KvInv, Typed, Pcs, OpPcs
<1>13. CallState'
  <2>1. CASE pc' = "idle"
    BY <2>1 DEF CallState, GcPcs
  <2>2. CASE pc' = "discard"
    <3>1. cur # NoItem /\ cur' = cur
      BY <2>2 DEF Save, Return, Goto, callVars
    <3>2. CurPos' = CurPos
      BY <3>1 DEF CurPos
    <3>3. PICK i \in DOMAIN items[CurPos[1]] : items[CurPos[1]][i].off = CurPos[2]
      BY <1>3, <3>1 DEF ItemsAt
    <3>4. CurPos[1] \in Blk
      BY <1>3, <3>1 DEF ItemsAt
    <3>5. i \in DOMAIN items'[CurPos[1]] /\ items'[CurPos[1]][i] = items[CurPos[1]][i]
      <4>1. CASE CurPos[1] = ws
        <5>1. i \in 1 .. Len(items[ws])
          BY <1>5, <3>3, <4>1
        <5>2. /\ i \in DOMAIN Append(items[ws], SavedItem)
              /\ Append(items[ws], SavedItem)[i] = items[ws][i]
          BY <1>2, <1>5, <5>1
        <5> QED
          BY <1>7, <4>1, <5>2
      <4>2. CASE CurPos[1] # ws
        BY <1>7, <3>3, <3>4, <4>2
      <4> QED
        BY <4>1, <4>2
    <3>6. ItemsAt(CurPos)' # {}
      BY <3>2, <3>3, <3>4, <3>5 DEF ItemsAt
    <3> QED
      BY <2>2, <3>1, <3>6 DEF CallState, GcPcs
  <2> QED
    BY <1>11, <2>1, <2>2
<1> QED
  BY <1>1, <1>8, <1>10, <1>11, <1>12, <1>13, OpStep DEF OpPcs, tagVars

\* kv_item_do_delete programs one flag and marks the block dirty: the layout
\* of the logs and the room in the blocks stay.
LEMMA DiscardFlash ==
  ASSUME KvInv, gc = NoGc, NEW p, p[1] \in Blk, items[p[1]] # <<>>,
         items' = Discarded(p), idx' = SetDirty(idx, p[1])
  PROVE  /\ items' \in [Blk -> Seq(Entry)] /\ LogsContiguous'
         /\ GoodIndex(idx') /\ FreeFits(idx', items', 0)
         /\ idx'.fresh = idx.fresh /\ idx'.inuse = idx.inuse
         /\ \A c \in idx'.fresh : items'[c] = <<>>
<1> DEFINE b == p[1]
           new == DiscardAt(items[b], p[2])
<1>1. items \in [Blk -> Seq(Entry)] /\ GoodLog(items[b])
  BY DEF KvInv, Typed, LogsContiguous
<1>2. new \in Seq(Entry) /\ GoodLog(new) /\ EndOf(new) = EndOf(items[b])
  BY <1>1, DiscardLog
<1>3. items' = [items EXCEPT ![b] = new]
  BY DEF Discarded
<1> HIDE DEF new
<1>4. /\ items' \in [Blk -> Seq(Entry)] /\ items'[b] = new
      /\ \A c \in Blk \ {b} : items'[c] = items[c]
  BY <1>1, <1>2, <1>3
<1>5. \A c \in idx.fresh : c \in Blk /\ items[c] = <<>>
  BY FreshRoom
<1>6. LogsContiguous'
  BY <1>2, <1>4 DEF KvInv, LogsContiguous
<1>7. GoodIndex(idx) /\ FreeFits(idx, items, 0) /\ b \notin idx.fresh
  <2>1. Stale = 0
    BY DEF KvInv, GcState, GcPcs, Stale
  <2> QED
    BY <1>5, <2>1 DEF KvInv, IndexPart
<1>8. /\ GoodIndex(idx') /\ idx'.fresh = idx.fresh /\ idx'.inuse = idx.inuse
      /\ idx'.free = idx.free
  BY <1>7, SetDirtyGood
<1>9. idx.inuse \subseteq Blk
  BY <1>7 DEF GoodIndex, Index
<1>10. FreeFits(idx', items', 0)
  BY <1>2, <1>4, <1>5, <1>7, <1>8, <1>9 DEF FreeFits
<1> QED
  BY <1>4, <1>5, <1>6, <1>7, <1>8, <1>10

\* The last step of ln_kv_del and of an update.
LEMMA DiscardStep ==
  ASSUME KvInv, Discard
  PROVE  KvInv'
<1>1. /\ pc = "discard" /\ pc' = "idle" /\ items' = Discarded(CurPos)
      /\ idx' = SetDirty(idx, cur.blk)
      /\ req' = NoRequest /\ cur' = NoItem /\ at' = Start
      /\ UNCHANGED <<magic, gcSrc, gcDst, gcDone, ws, gc>>
  BY DEF Discard, Return, Goto, tagVars
<1>2. gc = NoGc /\ cur # NoItem /\ ItemsAt(CurPos) # {} /\ cur.blk \in Blk
  BY <1>1 DEF KvInv, Typed, CallState, GcState, GcPcs, RedoPcs
<1>3. CurPos[1] = cur.blk /\ items[CurPos[1]] # <<>>
  BY <1>2 DEF CurPos, ItemsAt
<1>4. /\ items' \in [Blk -> Seq(Entry)] /\ LogsContiguous'
      /\ GoodIndex(idx') /\ FreeFits(idx', items', 0)
      /\ \A c \in idx'.fresh : items'[c] = <<>>
  BY <1>1, <1>2, <1>3, DiscardFlash
<1>5. IndexPart'
  BY <1>1, <1>4 DEF IndexPart, Stale
<1>6. Typed'
  <2>1. Start \in [blk : 1 .. NBlk + 1, i : Nat \ {0}]
    BY SizeAssumption DEF Start
  <2> QED
    BY <1>1, <1>4, <2>1 DEF KvInv, Typed, Pcs, OpPcs
<1>7. CallState'
  BY <1>1 DEF CallState, GcPcs
<1> QED
  BY <1>1, <1>4, <1>5, <1>6, <1>7, OpStep DEF OpPcs, tagVars

----------------------------------------------------------------------------
(* ln_kv_init: the scan of the blocks *)

\* The memset of ln_kv_init starts the scan with an empty index.
LEMMA PowerUpStep ==
  ASSUME KvInv, PowerUp
  PROVE  KvInv'
<1>1. /\ pc = "down" /\ pc' = "scan" /\ idx' = ZeroIndex /\ ws' = 0 /\ at' = Start
      /\ UNCHANGED <<magic, gcSrc, gcDst, gcDone, items, req, res, cur, gc>>
  BY DEF PowerUp, Goto, flashVars, callVars
<1>2. gc = NoGc
  BY <1>1 DEF KvInv, GcState, GcPcs, RedoPcs
<1>3. Typed'
  BY <1>1, SizeAssumption DEF KvInv, Typed, Pcs, BootPcs, Start
<1>4. LogsContiguous'
  BY <1>1 DEF KvInv, LogsContiguous
<1>5. IndexPart'
  <2>1. GoodIndex(idx') /\ FreeFits(idx', items', 0) /\ Stale' = 0
    BY <1>1, ZeroIndexGood DEF Stale
  <2>2. idx'.fresh = {}
    BY <1>1 DEF ZeroIndex
  <2> QED
    BY <2>1, <2>2 DEF IndexPart
<1>6. Formatted'
  BY <1>1, SizeAssumption DEF KvInv, Formatted, Start, Blk
<1>7. BootState'
  BY <1>1 DEF BootState, ZeroIndex
<1>8. GcState'
  BY <1>1, <1>2 DEF GcState, GcPcs, RedoPcs
<1>9. CallState'
  BY <1>1 DEF CallState, GcPcs
<1> QED
  BY <1>3, <1>4, <1>5, <1>6, <1>7, <1>8, <1>9 DEF KvInv

\* What a step of kv_mgr_ctl_build must guarantee: it indexes no block of an
\* unfinished gc, and the block it is at has its magic when it goes on.
LEMMA ScanStep ==
  ASSUME KvInv, pc = "scan",
         \/ NextScan
         \/ at' = [at EXCEPT !.i = @ + 1] /\ UNCHANGED pc,
         magic' = magic \cup {at.blk},
         UNCHANGED <<gcSrc, gcDst, gcDone, ws, req, res, cur, gc>>,
         items' \in [Blk -> Seq(Entry)], LogsContiguous',
         GoodIndex(idx'), FreeFits(idx', items', 0),
         \A c \in idx'.fresh : items'[c] = <<>>,
         idx'.fresh \cup idx'.inuse
           \subseteq idx.fresh \cup idx.inuse \cup ({at.blk} \ (gcSrc \cup DstNotDone))
  PROVE  KvInv'
<1>1. /\ gc = NoGc /\ at.blk \in Blk /\ at.i \in Nat \ {0}
      /\ at \in [blk : 1 .. NBlk + 1, i : Nat \ {0}]
      /\ gcSrc \cup gcDst \cup gcDone \subseteq magic
      /\ \A b \in Blk : b < at.blk => b \in magic
  BY DEF KvInv, Typed, GcState, GcPcs, RedoPcs, Formatted
<1>2. /\ pc' \in {"scan", "incomplete"}
      /\ at' \in [blk : 1 .. NBlk + 1, i : Nat \ {0}]
      /\ pc' = "scan" => at'.blk \in Blk /\ \A b \in Blk : b < at'.blk => b <= at.blk
      /\ pc' = "incomplete" => \A b \in Blk : b <= at.blk
  <2>1. CASE NextScan /\ at.blk = NBlk
    BY <1>1, <2>1, SizeAssumption DEF NextScan, Goto, Start, Blk
  <2>2. CASE NextScan /\ at.blk # NBlk
    BY <1>1, <2>2, SizeAssumption DEF NextScan, Goto, Blk
  <2>3. CASE at' = [at EXCEPT !.i = @ + 1] /\ UNCHANGED pc
    <3>1. at' = [blk |-> at.blk, i |-> at.i + 1]
      BY <1>1, <2>3
    <3> QED
      BY <1>1, <2>3, <3>1, SizeAssumption DEF Blk
  <2> QED
    BY <2>1, <2>2, <2>3
<1>3. Typed'
  BY <1>1, <1>2 DEF KvInv, Typed, Pcs, BootPcs
<1>4. IndexPart'
  BY <1>2 DEF IndexPart, Stale
<1>5. Formatted'
  <2>1. \A b \in Blk : b <= at.blk => b \in magic'
    BY <1>1 DEF Blk
  <2> QED
    BY <1>1, <1>2, <2>1 DEF Formatted
<1>6. BootState'
  BY DEF KvInv, BootState, DstNotDone
<1>7. GcState'
  BY <1>1, <1>2 DEF GcState, GcPcs, RedoPcs
<1>8. CallState'
  BY <1>2 DEF CallState, GcPcs
<1> QED
  BY <1>3, <1>4, <1>5, <1>6, <1>7, <1>8 DEF KvInv

\* Every branch of kv_mgr_ctl_build: format, skip, recover an item, end.
LEMMA BuildStep ==
  ASSUME KvInv, ScanFormat \/ ScanSkip \/ ScanItem \/ ScanEnd
  PROVE  KvInv'
<1> USE DEF flashVars, ramVars, callVars, tagVars
<1>0. pc = "scan"
  BY DEF ScanFormat, ScanSkip, ScanItem, ScanEnd, Indexing
<1>1. /\ gc = NoGc /\ at.blk \in Blk /\ items \in [Blk -> Seq(Entry)]
      /\ GoodIndex(idx) /\ FreeFits(idx, items, 0)
      /\ gcSrc \cup gcDst \cup gcDone \subseteq magic
  BY <1>0 DEF KvInv, Typed, IndexPart, Stale, GcState, GcPcs, RedoPcs, Formatted
<1>2. \A c \in idx.fresh : c \in Blk /\ items[c] = <<>>
  BY <1>1, FreshRoom
<1>3. idx.fresh \subseteq Blk /\ idx.inuse \subseteq Blk /\ idx.free \in [Blk -> 0 .. Cap]
  BY <1>1 DEF GoodIndex, Index
<1>4. CASE ScanFormat
  <2>1. /\ magic' = magic \cup {at.blk} /\ items' = [items EXCEPT ![at.blk] = <<>>]
        /\ idx' = SetFresh(idx, at.blk) /\ NextScan /\ at.blk \notin magic
        /\ UNCHANGED <<gcSrc, gcDst, gcDone, ws, req, res, cur, gc>>
    BY <1>4 DEF ScanFormat
  <2>2. /\ items' \in [Blk -> Seq(Entry)] /\ items'[at.blk] = <<>>
        /\ \A c \in Blk \ {at.blk} : items'[c] = items[c]
    BY <1>1, <2>1
  <2>3. EndOf(<<>>) = 0 /\ GoodLog(<<>>)
    BY SizeAssumption DEF EndOf, GoodLog
  <2>4. LogsContiguous'
    BY <2>2, <2>3 DEF KvInv, LogsContiguous
  <2>5. /\ GoodIndex(idx') /\ idx'.fresh = idx.fresh \cup {at.blk}
        /\ idx'.inuse = idx.inuse \ {at.blk} /\ idx'.free = [idx.free EXCEPT ![at.blk] = Cap]
    BY <1>1, <2>1, SetFreshGood
  <2>6. FreeFits(idx', items', 0)
    BY <1>1, <1>3, <2>2, <2>3, <2>5, SizeAssumption DEF FreeFits
  <2>7. at.blk \notin gcSrc \cup DstNotDone
    BY <1>1, <2>1 DEF DstNotDone
  <2> QED
    BY <1>0, <1>2, <2>1, <2>2, <2>4, <2>5, <2>6, <2>7, ScanStep
<1>5. CASE ScanSkip
  <2>1. /\ NextScan /\ at.blk \in magic
        /\ UNCHANGED <<magic, items, idx, gcSrc, gcDst, gcDone, ws, req, res, cur, gc>>
    BY <1>5 DEF ScanSkip
  <2>2. LogsContiguous'
    BY <2>1 DEF KvInv, LogsContiguous
  <2> QED
    BY <1>0, <1>1, <1>2, <2>1, <2>2, ScanStep
<1>6. CASE ScanItem
  <2> DEFINE b == at.blk
             e == items[b][at.i]
  <2>1. /\ b \in magic /\ at' = [at EXCEPT !.i = @ + 1]
        /\ at.i <= Len(items[b])
        /\ UNCHANGED <<magic, gcSrc, gcDst, gcDone, ws, pc, req, res, cur, gc>>
    BY <1>6 DEF ScanItem, Indexing
  <2>2. items[b] # <<>> /\ b \notin idx.fresh
    <3>1. at.i \in Nat \ {0}
      BY DEF KvInv, Typed
    <3> QED
      BY <1>2, <2>1, <3>1
  <2>3. \/ idx' = SetDirty(idx, b) /\ UNCHANGED items
        \/ items' = Discarded(<<b, e.off>>) /\ idx' = SetDirty(idx, b)
        \/ /\ ItemsAt(e.prev) # {}
           /\ items' = Discarded(e.prev) /\ idx' = SetDirty(idx, e.prev[1])
        \/ UNCHANGED <<items, idx>>
    BY <1>6 DEF ScanItem, Supersedes
  <2> HIDE DEF e
  <2>4. CASE idx' \in {idx, SetDirty(idx, b)} /\ UNCHANGED items
    <3>1. /\ GoodIndex(idx') /\ idx'.fresh = idx.fresh /\ idx'.inuse = idx.inuse
          /\ idx'.free = idx.free
      BY <1>1, <2>2, <2>4, SetDirtyGood
    <3>2. LogsContiguous' /\ FreeFits(idx', items', 0)
      BY <1>1, <2>4, <3>1 DEF KvInv, LogsContiguous, FreeFits
    <3> QED
      BY <1>0, <1>1, <1>2, <2>1, <2>4, <3>1, <3>2, ScanStep
  <2>5. ASSUME NEW p, p[1] \in Blk, items[p[1]] # <<>>,
               items' = Discarded(p), idx' = SetDirty(idx, p[1])
        PROVE  KvInv'
    <3>1. /\ items' \in [Blk -> Seq(Entry)] /\ LogsContiguous'
          /\ GoodIndex(idx') /\ FreeFits(idx', items', 0)
          /\ idx'.fresh = idx.fresh /\ idx'.inuse = idx.inuse
          /\ \A c \in idx'.fresh : items'[c] = <<>>
      BY <1>1, <2>5, DiscardFlash
    <3> QED
      BY <1>0, <2>1, <3>1, ScanStep
  <2>6. ASSUME ItemsAt(e.prev) # {} PROVE e.prev[1] \in Blk /\ items[e.prev[1]] # <<>>
    BY <2>6 DEF ItemsAt
  <2>7. <<b, e.off>>[1] = b
    OBVIOUS
  <2> QED
    BY <1>1, <2>2, <2>3, <2>4, <2>5, <2>6, <2>7
<1>7. CASE ScanEnd
  <2>1. /\ NextScan /\ at.blk \in magic \ (gcSrc \cup DstNotDone)
        /\ idx' = WalkEnd(idx, at.blk, EndOf(items[at.blk]))
        /\ UNCHANGED <<magic, items, gcSrc, gcDst, gcDone, ws, req, res, cur, gc>>
    BY <1>7 DEF ScanEnd, Indexing, LogEnd
  <2>2. LogsContiguous' /\ GoodLog(items[at.blk])
    BY <1>1, <2>1 DEF KvInv, LogsContiguous
  <2> DEFINE new == WalkEnd(idx, at.blk, EndOf(items[at.blk]))
  <2>3. /\ GoodIndex(new) /\ FreeFits(new, items, 0)
        /\ new.fresh = IF items[at.blk] = <<>> THEN idx.fresh \cup {at.blk} ELSE idx.fresh
        /\ new.inuse \subseteq idx.inuse \cup {at.blk}
    BY <1>1, <1>2, <2>2, WalkEndGood
  <2> HIDE DEF new
  <2>4. idx' = new
    BY <2>1 DEF new
  <2> QED
    BY <1>0, <1>1, <1>2, <2>1, <2>2, <2>3, <2>4, ScanStep
<1> QED
  BY <1>4, <1>5, <1>6, <1>7

----------------------------------------------------------------------------
(* kv_do_gc *)

\* What the invariant says of a running gc.
LEMMA GcFacts ==
  ASSUME KvInv, pc \in GcPcs \cup RedoPcs
  PROVE  /\ gc \in GcJob /\ gc.src \in Blk /\ gc.dst \in Blk /\ gc.src # gc.dst
         /\ items \in [Blk -> Seq(Entry)] /\ GoodIndex(idx)
         /\ idx.fresh \subseteq Blk /\ idx.inuse \subseteq Blk /\ idx.free \in [Blk -> 0 .. Cap]
         /\ \A c \in idx.fresh \ {gc.dst} : c \in Blk /\ items[c] = <<>>
         /\ \A b \in Blk : GoodLog(items[b])
<1>1. gc # NoGc
  BY DEF KvInv, GcState
<1>2. gc \in GcJob /\ gc.src # gc.dst
  BY <1>1 DEF KvInv, Typed, GcState
<1>3. gc.src \in Blk /\ gc.dst \in Blk
  BY <1>2 DEF GcJob
<1>4. /\ items \in [Blk -> Seq(Entry)] /\ GoodIndex(idx)
      /\ \A b \in Blk : GoodLog(items[b])
  BY DEF KvInv, Typed, IndexPart, LogsContiguous
<1>5. idx.fresh \subseteq Blk /\ idx.inuse \subseteq Blk /\ idx.free \in [Blk -> 0 .. Cap]
  BY <1>4 DEF GoodIndex, Index
<1>6. \A c \in idx.fresh \ {gc.dst} : c \in Blk /\ items[c] = <<>>
  BY <1>5 DEF KvInv, IndexPart
<1> QED
  BY <1>2, <1>3, <1>4, <1>5, <1>6

\* A step inside kv_do_gc has to keep the flash, the index and the gc state.
LEMMA GcStep ==
  ASSUME KvInv, pc \in GcPcs \cup RedoPcs, pc' \in GcPcs \cup RedoPcs,
         UNCHANGED <<ws, req, res, cur, at>>,
         gc' \in GcJob, gc'.ret = gc.ret,
         magic' \subseteq Blk, gcSrc' \subseteq Blk, gcDst' \subseteq Blk, gcDone' \subseteq Blk,
         items' \in [Blk -> Seq(Entry)],
         LogsContiguous', IndexPart', Formatted', GcState'
  PROVE  KvInv'
<1>1. Typed'
  BY DEF KvInv, Typed, Pcs, GcPcs, RedoPcs, BootPcs
<1>2. BootState'
  BY DEF BootState, GcPcs, RedoPcs
<1>3. CallState'
  BY DEF KvInv, GcState, CallState, GcPcs, RedoPcs
<1> QED
  BY <1>1, <1>2, <1>3 DEF KvInv

\* kv_blk_format erases a block: its log is empty and every other log stays.
LEMMA EraseFlash ==
  ASSUME KvInv, NEW b \in Blk, Erase(b)
  PROVE  /\ magic' \subseteq Blk /\ gcSrc' \subseteq Blk /\ gcDst' \subseteq Blk
         /\ gcDone' \subseteq Blk /\ gcSrc' \cup gcDst' \cup gcDone' \subseteq magic'
         /\ magic' = magic \ {b}
         /\ items' \in [Blk -> Seq(Entry)] /\ LogsContiguous'
         /\ items'[b] = <<>> /\ EndOf(items'[b]) = 0
         /\ \A c \in Blk \ {b} : items'[c] = items[c]
<1>1. /\ magic' = magic \ {b} /\ gcSrc' = gcSrc \ {b} /\ gcDst' = gcDst \ {b}
      /\ gcDone' = gcDone \ {b} /\ items' = [items EXCEPT ![b] = <<>>]
  BY DEF Erase
<1>2. items \in [Blk -> Seq(Entry)] /\ gcSrc \cup gcDst \cup gcDone \subseteq magic
      /\ magic \subseteq Blk /\ gcSrc \subseteq Blk /\ gcDst \subseteq Blk /\ gcDone \subseteq Blk
  BY DEF KvInv, Typed, Formatted
<1>3. /\ items' \in [Blk -> Seq(Entry)] /\ items'[b] = <<>>
      /\ \A c \in Blk \ {b} : items'[c] = items[c]
  BY <1>1, <1>2
<1>4. EndOf(<<>>) = 0 /\ GoodLog(<<>>)
  BY SizeAssumption DEF EndOf, GoodLog
<1>5. LogsContiguous'
  BY <1>3, <1>4 DEF KvInv, LogsContiguous
<1> QED
  BY <1>1, <1>2, <1>3, <1>4, <1>5

\* The steps that format the destination of an unfinished gc, and the tags.
LEMMA TagStep ==
  ASSUME KvInv, DstErase \/ DstMagic \/ GcMarkSrc \/ GcMarkDst \/ GcMagic
  PROVE  KvInv'
<1> USE DEF Goto, flashVars, tagVars, ramVars, callVars, GcPcs, RedoPcs
<1>0. pc \in GcPcs \cup RedoPcs
  BY DEF DstErase, DstMagic, GcMarkSrc, GcMarkDst, GcMagic
<1>1. /\ gc \in GcJob /\ gc.src \in Blk /\ gc.dst \in Blk /\ gc.src # gc.dst
      /\ items \in [Blk -> Seq(Entry)] /\ GoodIndex(idx)
      /\ idx.fresh \subseteq Blk /\ idx.inuse \subseteq Blk /\ idx.free \in [Blk -> 0 .. Cap]
      /\ \A c \in idx.fresh \ {gc.dst} : c \in Blk /\ items[c] = <<>>
      /\ \A b \in Blk : GoodLog(items[b])
  BY <1>0, GcFacts
<1>2. /\ gcSrc \cup gcDst \cup gcDone \subseteq magic
      /\ magic \subseteq Blk /\ gcSrc \subseteq Blk /\ gcDst \subseteq Blk /\ gcDone \subseteq Blk
  BY DEF KvInv, Typed, Formatted
<1>3. EndOf(<<>>) = 0
  BY DEF EndOf
<1>4. CASE DstErase
  <2>1. /\ pc = "dstErase" /\ pc' = "dstMagic" /\ Erase(gc.dst)
        /\ UNCHANGED <<idx, ws, req, res, cur, at, gc>>
    BY <1>4 DEF DstErase
  <2>2. /\ magic' \subseteq Blk /\ gcSrc' \subseteq Blk /\ gcDst' \subseteq Blk
        /\ gcDone' \subseteq Blk /\ gcSrc' \cup gcDst' \cup gcDone' \subseteq magic'
        /\ magic' = magic \ {gc.dst}
        /\ items' \in [Blk -> Seq(Entry)] /\ LogsContiguous'
        /\ items'[gc.dst] = <<>>
        /\ \A c \in Blk \ {gc.dst} : items'[c] = items[c]
    BY <1>1, <2>1, EraseFlash
  <2>3. gc.dst \notin idx.fresh \cup idx.inuse /\ gc.src \notin idx.fresh /\ gc.i = 1
        /\ gc.ret = "locate" /\ gc # NoGc
    BY <2>1 DEF KvInv, GcState
  <2>4. IndexPart'
    <3>1. FreeFits(idx, items, 0) /\ Stale' = 0
      BY <2>1 DEF KvInv, IndexPart, Stale
    <3> QED
      BY <1>1, <2>1, <2>2, <2>3, <3>1 DEF IndexPart, FreeFits
  <2>5. Formatted'
    BY <2>1, <2>2 DEF KvInv, Formatted
  <2>6. GcState'
    BY <1>1, <2>1, <2>2, <2>3 DEF GcState
  <2> QED
    BY <1>0, <1>1, <2>1, <2>2, <2>4, <2>5, <2>6, GcStep
<1>5. CASE DstMagic
  <2>1. /\ pc = "dstMagic" /\ pc' = "gcDst" /\ magic' = magic \cup {gc.dst}
        /\ idx' = SetFresh(idx, gc.dst)
        /\ UNCHANGED <<gcSrc, gcDst, gcDone, items, ws, req, res, cur, at, gc>>
    BY <1>5 DEF DstMagic
  <2>2. gc.src \notin idx.fresh /\ gc.i = 1 /\ items[gc.dst] = <<>> /\ gc # NoGc
    BY <2>1 DEF KvInv, GcState
  <2>3. /\ GoodIndex(idx') /\ idx'.fresh = idx.fresh \cup {gc.dst}
        /\ idx'.inuse = idx.inuse \ {gc.dst} /\ idx'.free = [idx.free EXCEPT ![gc.dst] = Cap]
    BY <1>1, <2>1, SetFreshGood
  <2>4. IndexPart'
    <3>1. FreeFits(idx, items, 0) /\ Stale' = 0
      BY <2>1 DEF KvInv, IndexPart, Stale
    <3>2. FreeFits(idx', items, 0)
      BY <1>1, <1>3, <2>2, <2>3, <3>1, SizeAssumption DEF FreeFits
    <3> QED
      BY <1>1, <2>1, <2>3, <3>1, <3>2 DEF IndexPart
  <2>5. LogsContiguous'
    BY <2>1 DEF KvInv, LogsContiguous
  <2>6. Formatted'
    BY <1>2, <2>1 DEF KvInv, Formatted
  <2>7. GcState'
    BY <1>1, <2>1, <2>2, <2>3 DEF GcState
  <2> QED
    BY <1>0, <1>1, <1>2, <2>1, <2>4, <2>5, <2>6, <2>7, GcStep
<1>6. CASE GcMarkSrc
  <2>1. /\ pc = "gcSrc" /\ pc' = "gcDst" /\ gcSrc' = gcSrc \cup {gc.src}
        /\ UNCHANGED <<magic, gcDst, gcDone, items, idx, ws, req, res, cur, at, gc>>
    BY <1>6 DEF GcMarkSrc
  <2>2. \A b \in Blk : b \in magic
    BY <2>1 DEF KvInv, Formatted
  <2>3. IndexPart' /\ LogsContiguous'
    BY <2>1 DEF KvInv, IndexPart, Stale, LogsContiguous
  <2>4. Formatted'
    BY <1>1, <1>2, <2>1, <2>2 DEF Formatted
  <2>5. GcState'
    BY <2>1 DEF KvInv, GcState
  <2> QED
    BY <1>0, <1>1, <1>2, <2>1, <2>3, <2>4, <2>5, GcStep
<1>7. CASE GcMarkDst
  <2>1. /\ pc = "gcDst" /\ pc' = "gcCopy" /\ gcDst' = gcDst \cup {gc.dst}
        /\ UNCHANGED <<magic, gcSrc, gcDone, items, idx, ws, req, res, cur, at, gc>>
    BY <1>7 DEF GcMarkDst
  <2>2. \A b \in Blk : b \in magic
    BY <2>1 DEF KvInv, Formatted
  <2>3. IndexPart' /\ LogsContiguous'
    BY <2>1 DEF KvInv, IndexPart, Stale, LogsContiguous
  <2>4. Formatted'
    BY <1>1, <1>2, <2>1, <2>2 DEF Formatted
  <2>5. GcState'
    <3>1. gc.i = 1 /\ EndOf(items[gc.dst]) = 0
      BY <1>3, <2>1 DEF KvInv, GcState
    <3>2. \/ 1 <= Len(items[gc.src]) /\ items[gc.src][1].off = 0
          \/ 1 = Len(items[gc.src]) + 1 /\ EndOf(items[gc.src]) \in Nat
      <4>1. items[gc.src] \in Seq(Entry) /\ GoodLog(items[gc.src])
        BY <1>1
      <4>2. EndOf(items[gc.src]) \in Nat
        BY <4>1, LogEndFacts
      <4> QED
        BY <4>1, <4>2 DEF GoodLog
    <3> QED
      BY <1>1, <2>1, <3>1, <3>2 DEF KvInv, GcState, LogEnd
  <2> QED
    BY <1>0, <1>1, <1>2, <2>1, <2>3, <2>4, <2>5, GcStep
<1>8. CASE GcMagic
  <2>1. /\ pc = "gcMagic" /\ pc' = "gcDone" /\ magic' = magic \cup {gc.src}
        /\ idx' = SetFresh(idx, gc.src)
        /\ UNCHANGED <<gcSrc, gcDst, gcDone, items, ws, req, res, cur, at, gc>>
    BY <1>8 DEF GcMagic
  <2>2. items[gc.src] = <<>> /\ gc.dst \in idx.fresh /\ gc # NoGc
    BY <2>1 DEF KvInv, GcState
  <2>3. /\ GoodIndex(idx') /\ idx'.fresh = idx.fresh \cup {gc.src}
        /\ idx'.inuse = idx.inuse \ {gc.src} /\ idx'.free = [idx.free EXCEPT ![gc.src] = Cap]
    BY <1>1, <2>1, SetFreshGood
  <2>4. IndexPart'
    <3>1. FreeFits(idx, items, gc.src) /\ Stale' = 0
      BY <2>1 DEF KvInv, IndexPart, Stale
    <3>2. FreeFits(idx', items, 0)
      BY <1>1, <1>3, <2>2, <2>3, <3>1, SizeAssumption DEF FreeFits
    <3> QED
      BY <1>1, <2>1, <2>2, <2>3, <3>1, <3>2 DEF IndexPart
  <2>5. LogsContiguous'
    BY <2>1 DEF KvInv, LogsContiguous
  <2>6. Formatted'
    BY <1>2, <2>1 DEF KvInv, Formatted
  <2>7. GcState'
    BY <1>1, <2>1, <2>2, <2>3 DEF GcState
  <2> QED
    BY <1>0, <1>1, <1>2, <2>1, <2>4, <2>5, <2>6, <2>7, GcStep
<1> QED
  BY <1>4, <1>5, <1>6, <1>7, <1>8

\* What remains of an interrupted write is an entry that is no longer than
\* the item.
LEMMA TornItem ==
  ASSUME NEW e \in Entry, NEW t \in Torn(e)
  PROVE  t \in Entry /\ t.off = e.off /\ t.size \in Nat /\ t.size <= e.size
<1>1. e.off \in 0 .. Cap /\ e.size \in Hdr .. Cap /\ e.key \in Keys \cup {Absent}
  BY DEF Entry
<1>2. CASE t = DeadItem(e.off, Hdr)
  <2>1. Hdr \in Hdr .. Cap
    BY SizeAssumption
  <2> QED
    BY <1>1, <1>2, <2>1, DeadItemType, SizeAssumption DEF DeadItem
<1>3. ASSUME NEW k \in {e.key, Absent}, t = [e EXCEPT !.ok = FALSE, !.key = k, !.val = Garbage]
      PROVE  t \in Entry /\ t.off = e.off /\ t.size \in Nat /\ t.size <= e.size
  <2>1. t \in Entry /\ t.off = e.off /\ t.size = e.size
    BY <1>1, <1>3 DEF Entry
  <2> QED
    BY <1>1, <2>1, SizeAssumption
<1> QED
  BY <1>2, <1>3 DEF Torn

\* The item kv_item_do_gc copies: it starts where the destination ends and
\* fits, because the copies are never ahead of the reads.
LEMMA CopyFits ==
  ASSUME KvInv, pc = "gcCopy", gc.i <= Len(items[gc.src])
  PROVE  LET e == items[gc.src][gc.i] IN
         /\ e \in Entry /\ GcCopyOf(e) \in Entry
         /\ GcCopyOf(e).off = EndOf(items[gc.dst]) /\ GcCopyOf(e).size = e.size
         /\ EndOf(items[gc.dst]) \in Nat /\ e.size \in Nat
         /\ EndOf(items[gc.dst]) + e.size <= Cap
         /\ idx.free[gc.dst] = Cap - EndOf(items[gc.dst])
         /\ \/ /\ gc.i + 1 <= Len(items[gc.src])
               /\ EndOf(items[gc.dst]) + e.size <= items[gc.src][gc.i + 1].off
            \/ /\ gc.i = Len(items[gc.src])
               /\ EndOf(items[gc.dst]) + e.size <= EndOf(items[gc.src])
<1> DEFINE log == items[gc.src]
           e == log[gc.i]
           end == EndOf(items[gc.dst])
<1>1. /\ gc \in GcJob /\ gc.src \in Blk /\ gc.dst \in Blk
      /\ items \in [Blk -> Seq(Entry)] /\ idx.free \in [Blk -> 0 .. Cap]
      /\ \A b \in Blk : GoodLog(items[b])
  BY GcFacts DEF GcPcs
<1>2. gc.i \in Nat \ {0} /\ log \in Seq(Entry) /\ GoodLog(log)
  BY <1>1 DEF GcJob
<1>3. gc.i \in DOMAIN log /\ e \in Entry
  BY <1>2
<1>4. e.off \in 0 .. Cap /\ e.size \in Hdr .. Cap
  BY <1>3 DEF Entry
<1>5. end \in Nat /\ end <= e.off
  <2>1. end \in Nat
    BY <1>1, LogEndFacts
  <2>2. end <= e.off
    BY <1>2 DEF KvInv, GcState, LogEnd
  <2> QED
    BY <2>1, <2>2
<1>6. idx.free[gc.dst] = Cap - end
  BY DEF KvInv, IndexPart, FreeFits, GcState, GcPcs
<1> HIDE DEF end
<1>7. Cap - idx.free[gc.dst] = end /\ end \in 0 .. Cap
  BY <1>1, <1>4, <1>5, <1>6, SizeAssumption
<1>8. GcCopyOf(e) \in Entry /\ GcCopyOf(e).off = end /\ GcCopyOf(e).size = e.size
  BY <1>3, <1>7 DEF GcCopyOf, Entry
<1>9. CASE gc.i + 1 <= Len(log)
  <2>1. gc.i + 1 \in DOMAIN log /\ gc.i + 1 # 1 /\ (gc.i + 1) - 1 = gc.i
    BY <1>2, <1>9
  <2>2. log[gc.i + 1].off = e.off + e.size
    BY <1>2, <2>1 DEF GoodLog
  <2>3. log[gc.i + 1] \in Entry
    BY <1>2, <2>1
  <2>4. log[gc.i + 1].off \in 0 .. Cap
    BY <2>3 DEF Entry
  <2>5. end + e.size <= log[gc.i + 1].off /\ end + e.size <= Cap
    <3> HIDE DEF e, log
    <3> QED
      BY <1>4, <1>5, <2>2, <2>4, SizeAssumption
  <2> QED
    BY <1>3, <1>4, <1>5, <1>6, <1>8, <1>9, <2>5, SizeAssumption DEF end
<1>10. CASE gc.i = Len(log)
  <2>1. EndOf(log) = e.off + e.size /\ EndOf(log) <= Cap
    BY <1>2, <1>10 DEF EndOf, GoodLog
  <2>2. end + e.size <= EndOf(log) /\ end + e.size <= Cap
    <3> HIDE DEF e, log
    <3> QED
      BY <1>4, <1>5, <2>1, SizeAssumption
  <2>3. e.size \in Nat
    BY <1>4, SizeAssumption
  <2> QED
    BY <1>3, <1>5, <1>6, <1>8, <1>10, <2>2, <2>3 DEF end
<1> QED
  BY <1>2, <1>9, <1>10

\* One turn of the copy loop of kv_do_gc.
LEMMA CopyStep ==
  ASSUME KvInv, GcCopy
  PROVE  KvInv'
<1> DEFINE e == items[gc.src][gc.i]
           end == EndOf(items[gc.dst])
<1>1. /\ pc = "gcCopy" /\ gc.i <= Len(items[gc.src]) /\ gc' = [gc EXCEPT !.i = @ + 1]
      /\ UNCHANGED <<magic, gcSrc, gcDst, gcDone, ws, pc, req, res, cur, at>>
  BY DEF GcCopy, tagVars, callVars
<1>2. /\ gc \in GcJob /\ gc.src \in Blk /\ gc.dst \in Blk /\ gc.src # gc.dst
      /\ items \in [Blk -> Seq(Entry)] /\ GoodIndex(idx)
      /\ idx.fresh \subseteq Blk /\ idx.inuse \subseteq Blk /\ idx.free \in [Blk -> 0 .. Cap]
      /\ \A c \in idx.fresh \ {gc.dst} : c \in Blk /\ items[c] = <<>>
      /\ \A b \in Blk : GoodLog(items[b])
  BY <1>1, GcFacts DEF GcPcs
<1>3. /\ e \in Entry /\ GcCopyOf(e) \in Entry
      /\ GcCopyOf(e).off = end /\ GcCopyOf(e).size = e.size
      /\ end \in Nat /\ e.size \in Nat
      /\ end + e.size <= Cap
      /\ idx.free[gc.dst] = Cap - end
      /\ \/ /\ gc.i + 1 <= Len(items[gc.src])
            /\ end + e.size <= items[gc.src][gc.i + 1].off
         \/ /\ gc.i = Len(items[gc.src])
            /\ end + e.size <= EndOf(items[gc.src])
  BY <1>1, CopyFits
<1>4. /\ gc.dst \in idx.fresh /\ gc.src \notin idx.fresh
      /\ FreeFits(idx, items, 0) /\ Stale' = 0
  BY <1>1 DEF KvInv, GcState, GcPcs, IndexPart, Stale
<1>5. /\ gc' \in GcJob /\ gc'.src = gc.src /\ gc'.dst = gc.dst /\ gc'.ret = gc.ret
      /\ gc'.i = gc.i + 1 /\ gc' # NoGc
  <2>1. gc.src # 0 /\ gc.i \in Nat \ {0}
    BY <1>2 DEF Blk, GcJob
  <2> QED
    BY <1>1, <1>2, <2>1 DEF GcJob, NoGc
<1> HIDE DEF e, end
<1>6. \/ /\ items' = [items EXCEPT ![gc.dst] = Append(items[gc.dst], GcCopyOf(e))]
         /\ idx' = ReduceFree(idx, gc.dst, e.size)
      \/ idx' = SetDirty(idx, gc.src) /\ UNCHANGED items
  BY DEF GcCopy, Append1, e
<1>7. /\ items' \in [Blk -> Seq(Entry)] /\ LogsContiguous'
      /\ GoodIndex(idx') /\ FreeFits(idx', items', 0)
      /\ idx'.fresh = idx.fresh /\ idx'.inuse = idx.inuse
      /\ \A c \in Blk \ {gc.dst} : items'[c] = items[c]
      /\ EndOf(items'[gc.dst]) \in {end, end + e.size}
  <2>1. CASE /\ items' = [items EXCEPT ![gc.dst] = Append(items[gc.dst], GcCopyOf(e))]
             /\ idx' = ReduceFree(idx, gc.dst, e.size)
    <3> DEFINE new == Append(items[gc.dst], GcCopyOf(e))
    <3>1. items[gc.dst] \in Seq(Entry) /\ GoodLog(items[gc.dst])
      BY <1>2
    <3>2. new \in Seq(Entry) /\ GoodLog(new) /\ EndOf(new) = end + e.size
      BY <1>3, <3>1, AppendLog DEF end
    <3> HIDE DEF new
    <3>3. /\ items' \in [Blk -> Seq(Entry)] /\ items'[gc.dst] = new
          /\ \A c \in Blk \ {gc.dst} : items'[c] = items[c]
      BY <1>2, <2>1, <3>2 DEF new
    <3>4. e.size <= idx.free[gc.dst]
      BY <1>3, SizeAssumption
    <3>5. /\ GoodIndex(idx') /\ idx'.fresh = idx.fresh /\ idx'.inuse = idx.inuse
          /\ idx'.free = [idx.free EXCEPT ![gc.dst] = idx.free[gc.dst] - e.size]
      BY <1>2, <1>3, <2>1, <3>4, ReduceFreeGood
    <3>6. /\ idx'.free[gc.dst] = Cap - EndOf(items'[gc.dst])
          /\ \A c \in Blk \ {gc.dst} : idx'.free[c] = idx.free[c]
      BY <1>2, <1>3, <3>2, <3>3, <3>5, SizeAssumption
    <3>7. FreeFits(idx', items', 0)
      BY <1>2, <1>4, <3>3, <3>5, <3>6 DEF FreeFits
    <3>8. LogsContiguous'
      BY <1>2, <3>2, <3>3 DEF LogsContiguous
    <3> QED
      BY <3>2, <3>3, <3>5, <3>7, <3>8
  <2>2. CASE idx' = SetDirty(idx, gc.src) /\ UNCHANGED items
    <3>1. /\ GoodIndex(idx') /\ idx'.fresh = idx.fresh /\ idx'.inuse = idx.inuse
          /\ idx'.free = idx.free
      BY <1>2, <1>4, <2>2, SetDirtyGood
    <3>2. FreeFits(idx', items', 0) /\ LogsContiguous'
      BY <1>2, <1>4, <2>2, <3>1 DEF FreeFits, LogsContiguous
    <3> QED
      BY <1>2, <2>2, <3>1, <3>2 DEF end
  <2> QED
    BY <1>6, <2>1, <2>2
<1>8. IndexPart'
  BY <1>2, <1>4, <1>5, <1>7 DEF IndexPart
<1>9. Formatted'
  BY <1>1 DEF KvInv, Formatted
<1>10. GcState'
  <2>1. \/ gc'.i <= Len(items'[gc.src]) /\ EndOf(items'[gc.dst]) <= items'[gc.src][gc'.i].off
        \/ gc'.i = Len(items'[gc.src]) + 1 /\ EndOf(items'[gc.dst]) <= EndOf(items'[gc.src])
    <3>1. items'[gc.src] = items[gc.src]
      BY <1>2, <1>7
    <3>2. CASE /\ gc.i + 1 <= Len(items[gc.src])
               /\ end + e.size <= items[gc.src][gc.i + 1].off
      <4>1. items[gc.src][gc.i + 1].off \in Nat
        <5>1. gc.i + 1 \in DOMAIN items[gc.src] /\ items[gc.src] \in Seq(Entry)
          BY <1>2, <3>2 DEF GcJob
        <5>2. items[gc.src][gc.i + 1] \in Entry
          BY <5>1
        <5> QED
          BY <5>2, SizeAssumption DEF Entry
      <4>2. EndOf(items'[gc.dst]) <= items[gc.src][gc.i + 1].off
        BY <1>3, <1>7, <3>2, <4>1
      <4> QED
        BY <1>5, <3>1, <3>2, <4>2
    <3>3. CASE /\ gc.i = Len(items[gc.src])
               /\ end + e.size <= EndOf(items[gc.src])
      <4>1. EndOf(items[gc.src]) \in Nat
        BY <1>2, LogEndFacts
      <4>2. EndOf(items'[gc.dst]) <= EndOf(items[gc.src])
        BY <1>3, <1>7, <3>3, <4>1
      <4> QED
        BY <1>5, <3>1, <3>3, <4>2
    <3> QED
      BY <1>3, <3>2, <3>3
  <2> QED
    BY <1>1, <1>2, <1>4, <1>5, <1>7, <2>1 DEF GcState, GcPcs, RedoPcs, LogEnd
<1> QED
  BY <1>1, <1>5, <1>7, <1>8, <1>9, <1>10, GcStep DEF GcPcs, KvInv, Typed

\* The end of the copy loop and the erase of the source.
LEMMA EraseStep ==
  ASSUME KvInv, GcErase
  PROVE  KvInv'
<1> DEFINE b == gc.src
           w == Walked(idx, b)
<1>1. /\ pc = "gcCopy" /\ pc' = "gcMagic" /\ Erase(b)
      /\ idx' = ResetInuse(w, b)
      /\ UNCHANGED <<ws, req, res, cur, at, gc>>
  BY DEF GcErase, callVars, Goto
<1>2. /\ gc \in GcJob /\ b \in Blk /\ gc.dst \in Blk /\ b # gc.dst
      /\ items \in [Blk -> Seq(Entry)] /\ GoodIndex(idx)
      /\ \A c \in idx.fresh \ {gc.dst} : c \in Blk /\ items[c] = <<>>
      /\ \A c \in Blk : GoodLog(items[c])
  BY <1>1, GcFacts DEF GcPcs
<1>3. /\ gc.dst \in idx.fresh /\ b \notin idx.fresh /\ gc # NoGc
      /\ FreeFits(idx, items, 0) /\ Stale' = b
  BY <1>1 DEF KvInv, GcState, GcPcs, IndexPart, Stale
<1>4. /\ magic' \subseteq Blk /\ gcSrc' \subseteq Blk /\ gcDst' \subseteq Blk
      /\ gcDone' \subseteq Blk /\ gcSrc' \cup gcDst' \cup gcDone' \subseteq magic'
      /\ magic' = magic \ {b}
      /\ items' \in [Blk -> Seq(Entry)] /\ LogsContiguous'
      /\ items'[b] = <<>> /\ EndOf(items'[b]) = 0
      /\ \A c \in Blk \ {b} : items'[c] = items[c]
  BY <1>1, <1>2, EraseFlash
<1>5. /\ GoodIndex(w) /\ FreeFits(w, items, 0)
      /\ w.fresh = IF items[b] = <<>> THEN idx.fresh \cup {b} ELSE idx.fresh
  BY <1>2, <1>3, WalkedGood
<1> HIDE DEF w
<1>6. /\ GoodIndex(idx') /\ idx'.fresh = w.fresh /\ idx'.inuse = w.inuse \ {b}
      /\ idx'.free = w.free
  BY <1>1, <1>2, <1>5, ResetInuseGood
<1>7. w.fresh \subseteq Blk /\ w.inuse \subseteq Blk
  BY <1>5 DEF GoodIndex, Index
<1>8. FreeFits(idx', items', b)
  <2>1. \A c \in idx'.fresh \cup idx'.inuse : EndOf(items'[c]) = EndOf(items[c])
    BY <1>3, <1>4, <1>5, <1>6, <1>7
  <2>2. 0 \notin Blk
    BY DEF Blk
  <2> QED
    BY <1>5, <1>6, <1>7, <2>1, <2>2 DEF FreeFits
<1>9. IndexPart'
  BY <1>1, <1>2, <1>3, <1>4, <1>5, <1>6, <1>8 DEF IndexPart
<1>10. Formatted'
  BY <1>1, <1>4 DEF KvInv, Formatted
<1>11. GcState'
  BY <1>1, <1>2, <1>3, <1>4, <1>5, <1>6 DEF GcState, GcPcs, RedoPcs
<1> QED
  BY <1>1, <1>2, <1>4, <1>9, <1>10, <1>11, GcStep DEF GcPcs

\* The last tag of kv_do_gc turns the destination into a block in use.
LEMMA DoneStep ==
  ASSUME KvInv, GcMarkDone
  PROVE  KvInv'
<1>1. /\ pc = "gcDone" /\ pc' = gc.ret /\ gc' = NoGc
      /\ gcDone' = gcDone \cup {gc.dst}
      /\ idx' = LeaveFresh(idx, gc.dst)
      /\ ws' \in {ws, gc.dst}
      /\ UNCHANGED <<magic, gcSrc, gcDst, items, req, res, cur, at>>
  BY DEF GcMarkDone, callVars, Goto
<1>2. /\ gc \in GcJob /\ gc.dst \in Blk
      /\ items \in [Blk -> Seq(Entry)] /\ GoodIndex(idx)
      /\ \A c \in idx.fresh \ {gc.dst} : c \in Blk /\ items[c] = <<>>
  BY <1>1, GcFacts DEF GcPcs
<1>3. pc' \in {"search", "locate", "relocate"}
  BY <1>1, <1>2 DEF GcJob
<1>4. gc.dst \in idx.fresh /\ FreeFits(idx, items, 0)
  BY <1>1 DEF KvInv, GcState, GcPcs, IndexPart, Stale
<1>5. Typed'
  BY <1>1, <1>2, <1>3 DEF KvInv, Typed, Pcs, OpPcs, BootPcs
<1>6. LogsContiguous'
  BY <1>1 DEF KvInv, LogsContiguous
<1>7. IndexPart'
  <2>1. /\ GoodIndex(idx') /\ idx'.fresh = idx.fresh \ {gc.dst}
        /\ FreeFits(idx', items, 0)
    BY <1>1, <1>2, <1>4, LeaveFreshGood
  <2>2. Stale' = 0
    BY <1>3 DEF Stale
  <2> QED
    BY <1>1, <1>2, <2>1, <2>2 DEF IndexPart
<1>8. Formatted'
  BY <1>1, <1>2, <1>3 DEF KvInv, Formatted
<1>9. BootState'
  BY <1>3 DEF BootState
<1>10. GcState'
  BY <1>1, <1>3 DEF GcState, GcPcs, RedoPcs
<1>11. CallState'
  BY <1>1, <1>3 DEF KvInv, CallState, GcPcs
<1> QED
  BY <1>5, <1>6, <1>7, <1>8, <1>9, <1>10, <1>11 DEF KvInv

----------------------------------------------------------------------------
(* Power loss *)

\* Nothing in RAM survives, so only the logs matter.
LEMMA HaltStep ==
  ASSUME KvInv, Halt, UNCHANGED tagVars, items' \in [Blk -> Seq(Entry)], LogsContiguous'
  PROVE  KvInv'
<1>1. /\ idx' = ZeroIndex /\ ws' = 0 /\ req' = NoRequest /\ at' = Start
      /\ cur' = NoItem /\ gc' = NoGc /\ pc' = "down"
  BY DEF Halt, Goto
<1>2. Typed'
  BY <1>1, SizeAssumption DEF KvInv, Typed, tagVars, Pcs, Start
<1>3. IndexPart'
  <2>1. GoodIndex(idx') /\ FreeFits(idx', items', 0) /\ Stale' = 0
    BY <1>1, ZeroIndexGood DEF Stale
  <2>2. idx'.fresh = {}
    BY <1>1 DEF ZeroIndex
  <2> QED
    BY <2>1, <2>2 DEF IndexPart
<1>4. Formatted' /\ BootState'
  BY <1>1 DEF KvInv, Formatted, BootState, tagVars
<1>5. GcState' /\ CallState'
  BY <1>1 DEF GcState, CallState, GcPcs, RedoPcs
<1> QED
  BY <1>2, <1>3, <1>4, <1>5 DEF KvInv

\* A torn write behind the last item leaves a good log.
LEMMA TornAppend ==
  ASSUME KvInv, NEW b \in Blk, NEW e \in Entry, e.off = EndOf(items[b]),
         EndOf(items[b]) + e.size <= Cap, NEW t \in Torn(e), items' = Append1(b, t)
  PROVE  items' \in [Blk -> Seq(Entry)] /\ LogsContiguous'
<1>1. items \in [Blk -> Seq(Entry)] /\ GoodLog(items[b])
  BY DEF KvInv, Typed, LogsContiguous
<1>2. t \in Entry /\ t.off = e.off /\ t.size \in Nat /\ t.size <= e.size
  BY TornItem
<1>3. EndOf(items[b]) \in Nat /\ e.size \in Nat
  BY <1>1, LogEndFacts, SizeAssumption DEF Entry
<1>4. EndOf(items[b]) + t.size <= Cap
  BY <1>2, <1>3, SizeAssumption
<1> DEFINE new == Append(items[b], t)
<1>5. new \in Seq(Entry) /\ GoodLog(new)
  BY <1>1, <1>2, <1>4, AppendLog
<1>6. items' = [items EXCEPT ![b] = new]
  BY DEF Append1
<1> HIDE DEF new
<1>7. /\ items' \in [Blk -> Seq(Entry)] /\ items'[b] = new
      /\ \A c \in Blk \ {b} : items'[c] = items[c]
  BY <1>1, <1>5, <1>6
<1> QED
  BY <1>5, <1>7 DEF KvInv, LogsContiguous

\* The power may fail at any point, in the middle of a write too.
LEMMA LossStep ==
  ASSUME ItemsFit, KvInv, PowerLoss \/ Deinit
  PROVE  KvInv'
<1>1. Halt /\ UNCHANGED tagVars /\ (items' = items \/ items' \in TornLogs)
  BY DEF PowerLoss, Deinit, flashVars, tagVars
<1>2. items' \in [Blk -> Seq(Entry)] /\ LogsContiguous'
  <2>1. CASE items' = items
    BY <2>1 DEF KvInv, Typed, LogsContiguous
  <2>2. ASSUME pc = "save", NEW t \in Torn(SavedItem), items' = Append1(ws, t)
        PROVE  items' \in [Blk -> Seq(Entry)] /\ LogsContiguous'
    <3>1. /\ ws \in Blk /\ SavedItem \in Entry
          /\ SavedItem.off = EndOf(items[ws]) /\ EndOf(items[ws]) + SavedItem.size <= Cap
      BY <2>2, SavedItemFits
    <3> QED
      BY <2>2, <3>1, TornAppend
  <2>3. ASSUME pc = "gcCopy", gc.i \in DOMAIN items[gc.src],
               NEW t \in Torn(GcCopyOf(items[gc.src][gc.i])), items' = Append1(gc.dst, t)
        PROVE  items' \in [Blk -> Seq(Entry)] /\ LogsContiguous'
    <3> DEFINE e == GcCopyOf(items[gc.src][gc.i])
    <3>1. gc.dst \in Blk /\ gc.i <= Len(items[gc.src])
      <4>1. items[gc.src] \in Seq(Entry) /\ gc.dst \in Blk
        BY <2>3, GcFacts DEF GcPcs
      <4> QED
        BY <2>3, <4>1
    <3>2. e \in Entry /\ e.off = EndOf(items[gc.dst]) /\ EndOf(items[gc.dst]) + e.size <= Cap
      BY <2>3, <3>1, CopyFits
    <3> HIDE DEF e
    <3>3. t \in Torn(e)
      BY <2>3 DEF e
    <3> QED
      BY <2>3, <3>1, <3>2, <3>3, TornAppend
  <2> QED
    BY <1>1, <2>1, <2>2, <2>3 DEF TornLogs
<1> QED
  BY <1>1, <1>2, HaltStep

----------------------------------------------------------------------------
(* The theorems *)

\* Every step of the store preserves the invariant.
LEMMA KvStep ==
  ASSUME ItemsFit, KvInv, [Next]_vars
  PROVE  KvInv'
<1>1. CASE Boot
  BY <1>1, PowerUpStep, BuildStep, ServeStep, StartStep, TagStep DEF Boot
<1>2. CASE Gc
  BY <1>2, TagStep, CopyStep, EraseStep, DoneStep DEF Gc
<1>3. CASE Serve
  BY <1>3, ServeStep, StartStep, MissStep, HitStep, SaveStep, DiscardStep DEF Serve
<1>4. CASE \E r \in Requests : Call(r)
  BY <1>4, ServeStep
<1>5. CASE PowerLoss \/ Deinit
  BY <1>5, LossStep
<1>6. CASE UNCHANGED vars
  <2> USE <1>6 DEF vars
  <2>1. (Typed /\ Formatted)' <=> (Typed /\ Formatted)
    BY DEF Typed, Formatted
  <2>2. (LogsContiguous /\ BootState)' <=> (LogsContiguous /\ BootState)
    BY DEF LogsContiguous, BootState, DstNotDone
  <2>3. IndexPart' <=> IndexPart
    BY DEF IndexPart, Stale
  <2>4. GcState' <=> GcState
    BY DEF GcState, LogEnd
  <2>5. CallState' <=> CallState
    <3>1. Size' = Size /\ ItemsAt(CurPos)' = ItemsAt(CurPos)
      BY DEF Size, ItemSize, ItemsAt, CurPos
    <3> QED
      BY <3>1 DEF CallState
  <2> QED
    BY <2>1, <2>2, <2>3, <2>4, <2>5 DEF KvInv
<1> QED
  BY <1>1, <1>2, <1>3, <1>4, <1>5, <1>6 DEF Next

\* With items that fit a block, the index invariant holds in every state of
\* ln_kv.c, whatever the number and the size of the blocks and wherever the
\* power fails.
THEOREM KvInvariant == ItemsFit => (Spec => []IndexInv)
<1> SUFFICES ASSUME ItemsFit PROVE Spec => []IndexInv
  OBVIOUS
<1>1. Init => KvInv
  BY KvInit
<1>2. KvInv /\ [Next]_vars => KvInv'
  BY KvStep
<1>3. KvInv => IndexInv
  BY InvForms
<1> QED
  BY <1>1, <1>2, <1>3, PTL DEF Spec

\* The variables of ln_kv.c keep their types.
THEOREM KvTypeOK == ItemsFit => (Spec => []TypeOK)
<1>1. IndexInv => TypeOK
  BY DEF IndexInv
<1> QED
  BY <1>1, KvInvariant, PTL

\* The free sizes in RAM agree with the logs in flash, so an item is never
\* written over another one, and a fresh block is blank.
THEOREM KvIndexAgrees == ItemsFit => (Spec => []IndexAgrees)
<1>1. IndexInv => IndexAgrees
  BY DEF IndexInv
<1> QED
  BY <1>1, KvInvariant, PTL

\* The logs are gapless and stay inside their blocks, torn writes included.
THEOREM KvLogsContiguous == ItemsFit => (Spec => []LogsContiguous)
<1>1. IndexInv => LogsContiguous
  BY DEF IndexInv
<1> QED
  BY <1>1, KvInvariant, PTL

\* num_fresh is the number of fresh blocks and num_inuse is not below the
\* number of blocks in use.
THEOREM KvCountersSound == ItemsFit => (Spec => []CountersSound)
<1>1. IndexInv => CountersSound
  BY DEF IndexInv
<1> QED
  BY <1>1, KvInvariant, PTL

----------------------------------------------------------------------------
(* The copies of a key.  From here on the power does not fail at the two    *)
(* places of GcInDoubt (AnyLoss = FALSE), where copies can be lost.  Logs   *)
(* are a parameter of these definitions, to be taken before and after a     *)
(* step.                                                                    *)

\* Offsets grow along a log, so a position names one item.
Increasing(log) ==
  \A i, j \in DOMAIN log : i < j => log[i].off < log[j].off

\* A block without its magic is blank, so that its format in the scan loses
\* nothing.
FlashShape ==
  /\ \A b \in Blk : Increasing(items[b])
  /\ \A b \in Blk \ magic : items[b] = <<>>

\* In the blocks of S every live item is intact.
Intact(logs, S) ==
  \A b \in S : \A i \in DOMAIN logs[b] : logs[b][i].live => logs[b][i].ok

\* Two live items with the same key.
Rivals(logs, b, i, c, j) ==
  /\ logs[b][i].live /\ logs[c][j].live
  /\ logs[b][i].key = logs[c][j].key
  /\ <<b, i>> # <<c, j>>

\* In the blocks of S no key has two live items.
Unique(logs, S) ==
  \A b, c \in S : \A i \in DOMAIN logs[b], j \in DOMAIN logs[c] : ~Rivals(logs, b, i, c, j)

Sound(logs, S) == Intact(logs, S) /\ Unique(logs, S)

\* e and f are live, intact items with the same content.
Twins(e, f) ==
  e.live /\ f.live /\ e.ok /\ f.ok /\ e.key = f.key /\ e.val = f.val

\* Every intact item of d has a twin in s, so d can be formatted.
Mirrored(logs, d, s) ==
  \A j \in DOMAIN logs[d] : (logs[d][j].live /\ logs[d][j].ok) =>
    \E i \in DOMAIN logs[s] : Twins(logs[s][i], logs[d][j])

\* Item i of block b is the update of item j of block c.
Updates(logs, b, i, c, j) == logs[b][i].prev = <<c, logs[c][j].off>>

\* The scan stands at item y of block x: has it passed item i of block b?
Passes(x, y, b, i) == b < x \/ (b = x /\ i < y)

\* What a scan that stands at item y of block x still has to repair: an item
\* with a bad checksum is in front of it, and two copies of a key are an
\* update that was interrupted before its discard, the newer one in front.
Recoverable(logs, x, y) ==
  /\ \A b \in Blk : \A i \in DOMAIN logs[b] :
       (logs[b][i].live /\ Passes(x, y, b, i)) => logs[b][i].ok
  /\ \A b, c \in Blk : \A i \in DOMAIN logs[b], j \in DOMAIN logs[c] :
       (Rivals(logs, b, i, c, j) /\ logs[b][i].ok /\ logs[c][j].ok)
       => \/ Updates(logs, b, i, c, j) /\ ~Passes(x, y, b, i)
          \/ Updates(logs, c, j, b, i) /\ ~Passes(x, y, c, j)

\* Between the write of an update and the discard at position p: two copies of
\* the key, the older one at p.
Replacing(logs, p) ==
  /\ Intact(logs, Blk)
  /\ \A b, c \in Blk : \A i \in DOMAIN logs[b], j \in DOMAIN logs[c] :
       Rivals(logs, b, i, c, j)
       => \/ p = <<b, logs[b][i].off>> /\ Updates(logs, c, j, b, i)
          \/ p = <<c, logs[c][j].off>> /\ Updates(logs, b, i, c, j)

\* While gc copies, up to item n of s: the destination d has the items passed
\* so far, each once.
Copying(logs, s, d, n) ==
  /\ Sound(logs, Blk \ {d}) /\ Sound(logs, {d})
  /\ \A j \in DOMAIN logs[d] : logs[d][j].live =>
       \E i \in DOMAIN logs[s] : i < n /\ Twins(logs[s][i], logs[d][j])
  /\ \A i \in DOMAIN logs[s] : (i < n /\ logs[s][i].live) =>
       \E j \in DOMAIN logs[d] : Twins(logs[s][i], logs[d][j])

BootScan == {"down", "scan", "incomplete"}

\* Where the scan of ln_kv_init stands.
FrontBlk == IF pc = "scan" THEN at.blk ELSE IF pc = "incomplete" THEN NBlk + 1 ELSE 1
FrontItem == IF pc = "scan" THEN at.i ELSE 1

\* The block that a gc without a tagged destination can be redone on: it is
\* blank, and in the index once the scan has passed it.
Spare(d) ==
  /\ items[d] = <<>>
  /\ d < FrontBlk => d \in idx.fresh

\* The gc tags tell what there is to redo, wherever the power may fail.
GcTags ==
  /\ pc \in OpPcs \cup {"locate", "relocate", "gcSrc"} => gcSrc = {} /\ DstNotDone = {}
  /\ pc \in {"gcDst", "dstMagic"} => gcSrc = {gc.src} /\ DstNotDone = {}
  /\ pc = "gcCopy" => gcSrc = {gc.src} /\ DstNotDone = {gc.dst} \ gcDone
  /\ pc = "dstErase" => gcSrc = {gc.src} /\ DstNotDone = {gc.dst}
  /\ pc \in {"gcMagic", "gcDone"} => gcSrc = {} /\ DstNotDone \subseteq {gc.dst}
  /\ pc \in BootScan =>
       \/ gcSrc = {} /\ DstNotDone = {}
       \/ \E s, d \in Blk : /\ s # d /\ gcSrc = {s}
                            /\ DstNotDone = {d} \/ (DstNotDone = {} /\ Spare(d))

QuietPcs == (OpPcs \ {"discard"})
              \cup {"locate", "relocate", "gcSrc", "gcDst", "dstMagic", "gcMagic", "gcDone"}

\* The copies of the keys, at every point of the code.
CopyState ==
  /\ pc \in BootScan /\ gcSrc = {} => Recoverable(items, FrontBlk, FrontItem)
  /\ pc \in BootScan /\ gcSrc # {} =>
       /\ Sound(items, Blk \ DstNotDone)
       /\ \A s \in gcSrc, d \in DstNotDone : Mirrored(items, d, s)
  /\ pc \in QuietPcs => Sound(items, Blk)
  /\ pc = "dstErase" => Sound(items, Blk \ {gc.dst}) /\ Mirrored(items, gc.dst, gc.src)
  /\ pc = "gcCopy" => Copying(items, gc.src, gc.dst, gc.i)
  /\ pc = "discard" => Replacing(items, CurPos)

\* No live item of block b has key k.
NoneIn(logs, b, k) == \A i \in DOMAIN logs[b] : ~(logs[b][i].live /\ logs[b][i].key = k)

\* A live item with key k is at position p.
HasAt(logs, p, k) ==
  \E b \in Blk : \E i \in DOMAIN logs[b] :
    p = <<b, logs[b][i].off>> /\ logs[b][i].live /\ logs[b][i].key = k

\* The call is a set on its way to the write.
Setting == pc \in {"enter", "search", "fix", "save"} \/ (pc \in GcPcs /\ gc.ret = "search")

\* What the lookup of a call has found out about the copies of its key.
FoundState ==
  /\ pc = "find" => \A b \in Blk : b < at.blk => NoneIn(items, b, req.key)
  /\ Setting /\ cur = NoItem => \A b \in Blk : NoneIn(items, b, req.key)
  /\ Setting /\ cur # NoItem => cur.ent.live /\ cur.ent.key = req.key
  /\ pc = "save" /\ cur # NoItem => HasAt(items, CurPos, req.key)
  /\ cur # NoItem => Setting \/ pc = "discard"
  /\ pc \notin {"scan", "find", "fix"} => at.blk = 1

CopyInv == FlashShape /\ GcTags /\ CopyState /\ FoundState
----------------------------------------------------------------------------
(* Logs that change *)

\* What a step that writes no item may do to the logs: items are discarded or
\* erased, and nothing else.
Shrunk(old, new) ==
  \A b \in Blk : \A i \in DOMAIN new[b] :
    /\ i \in DOMAIN old[b]
    /\ new[b][i].off = old[b][i].off
    /\ new[b][i].live => new[b][i] = old[b][i]

\* Fewer live items make no key ambiguous and no item torn.
LEMMA ShrunkSound ==
  ASSUME NEW old, NEW new, Shrunk(old, new), NEW S \in SUBSET Blk, Sound(old, S)
  PROVE  Sound(new, S)
<1>1. Intact(new, S)
  BY DEF Shrunk, Sound, Intact
<1>2. Unique(new, S)
  <2> SUFFICES ASSUME NEW b \in S, NEW c \in S, NEW i \in DOMAIN new[b], NEW j \in DOMAIN new[c],
                      Rivals(new, b, i, c, j)
               PROVE  FALSE
    BY DEF Unique
  <2>1. i \in DOMAIN old[b] /\ j \in DOMAIN old[c] /\ new[b][i] = old[b][i] /\ new[c][j] = old[c][j]
    BY DEF Shrunk, Rivals
  <2> QED
    BY <2>1 DEF Sound, Unique, Rivals
<1> QED
  BY <1>1, <1>2 DEF Sound

\* Nor do they undo what the scan has repaired.
LEMMA ShrunkRecoverable ==
  ASSUME NEW old, NEW new, Shrunk(old, new), NEW x, NEW y, Recoverable(old, x, y)
  PROVE  Recoverable(new, x, y)
<1>1. ASSUME NEW b \in Blk, NEW i \in DOMAIN new[b], new[b][i].live, Passes(x, y, b, i)
      PROVE  new[b][i].ok
  BY <1>1 DEF Shrunk, Recoverable
<1>2. ASSUME NEW b \in Blk, NEW c \in Blk, NEW i \in DOMAIN new[b], NEW j \in DOMAIN new[c],
             Rivals(new, b, i, c, j), new[b][i].ok, new[c][j].ok
      PROVE  \/ Updates(new, b, i, c, j) /\ ~Passes(x, y, b, i)
             \/ Updates(new, c, j, b, i) /\ ~Passes(x, y, c, j)
  <2>1. i \in DOMAIN old[b] /\ j \in DOMAIN old[c] /\ new[b][i] = old[b][i] /\ new[c][j] = old[c][j]
    BY <1>2 DEF Shrunk, Rivals
  <2> QED
    BY <1>2, <2>1 DEF Recoverable, Rivals, Updates
<1> QED
  BY <1>1, <1>2 DEF Recoverable

\* A discard shrinks the logs; no item at its position is live any more.
LEMMA DiscardShrinks ==
  ASSUME NEW old \in [Blk -> Seq(Entry)], NEW c \in Blk, NEW o, NEW new,
         new = [old EXCEPT ![c] = DiscardAt(old[c], o)]
  PROVE  /\ Shrunk(old, new)
         /\ \A b \in Blk : DOMAIN new[b] = DOMAIN old[b]
         /\ \A b \in Blk : \A i \in DOMAIN old[b] : new[b][i].off = old[b][i].off
         /\ \A b \in Blk : \A i \in DOMAIN old[b] :
              (<<b, old[b][i].off>> # <<c, o>>) => new[b][i] = old[b][i]
         /\ \A j \in DOMAIN old[c] : old[c][j].off = o => ~new[c][j].live
<1>1. ASSUME NEW b \in Blk
      PROVE  DOMAIN new[b] = DOMAIN old[b]
  BY DEF DiscardAt
<1>2. ASSUME NEW b \in Blk, NEW i \in DOMAIN old[b]
      PROVE  new[b][i] = IF b = c /\ old[b][i].off = o THEN DeadItem(o, old[b][i].size)
                         ELSE old[b][i]
  BY DEF DiscardAt
<1>3. \A n : DeadItem(o, n).off = o /\ ~DeadItem(o, n).live
  BY DEF DeadItem
<1>4. \A b \in Blk : \A i \in DOMAIN old[b] : new[b][i].off = old[b][i].off
  BY <1>2, <1>3
<1>5. \A b \in Blk : \A i \in DOMAIN old[b] : new[b][i].live => new[b][i] = old[b][i]
  BY <1>2, <1>3
<1>6. \A b \in Blk : \A i \in DOMAIN old[b] :
        (<<b, old[b][i].off>> # <<c, o>>) => new[b][i] = old[b][i]
  BY <1>2
<1>7. \A j \in DOMAIN old[c] : old[c][j].off = o => ~new[c][j].live
  BY <1>2, <1>3
<1> QED
  BY <1>1, <1>4, <1>5, <1>6, <1>7 DEF Shrunk

\* So does an erase.
LEMMA EraseShrinks ==
  ASSUME NEW old \in [Blk -> Seq(Entry)], NEW c \in Blk, NEW new,
         new = [old EXCEPT ![c] = <<>>]
  PROVE  /\ Shrunk(old, new)
         /\ new[c] = <<>>
         /\ \A b \in Blk \ {c} : new[b] = old[b]
  BY DEF Shrunk

\* A write puts one item behind the others.
LEMMA AppendAdds ==
  ASSUME NEW old \in [Blk -> Seq(Entry)], NEW c \in Blk, NEW e \in Entry, NEW new,
         new = [old EXCEPT ![c] = Append(old[c], e)]
  PROVE  /\ \A b \in Blk \ {c} : new[b] = old[b]
         /\ DOMAIN new[c] = DOMAIN old[c] \cup {Len(old[c]) + 1}
         /\ Len(old[c]) + 1 \notin DOMAIN old[c]
         /\ new[c][Len(old[c]) + 1] = e
         /\ \A i \in DOMAIN old[c] : new[c][i] = old[c][i]
<1>1. old[c] \in Seq(Entry)
  OBVIOUS
<1>2. new[c] = Append(old[c], e) /\ \A b \in Blk \ {c} : new[b] = old[b]
  OBVIOUS
<1> QED
  BY <1>1, <1>2

\* Offsets grow when an item is written behind the others.
LEMMA AppendIncreasing ==
  ASSUME NEW log \in Seq(Entry), Increasing(log), NEW e \in Entry, e.off = EndOf(log)
  PROVE  Increasing(Append(log, e))
<1> DEFINE new == Append(log, e)
<1>1. /\ DOMAIN new = 1 .. Len(log) + 1 /\ Len(log) \in Nat /\ DOMAIN log = 1 .. Len(log)
      /\ new[Len(log) + 1] = e
      /\ \A i \in 1 .. Len(log) : new[i] = log[i]
  OBVIOUS
<1>2. ASSUME NEW i \in DOMAIN log PROVE log[i].off < e.off
  <2>1. Len(log) \in DOMAIN log /\ log # <<>>
    BY <1>1
  <2>2. log[i] \in Entry /\ log[Len(log)] \in Entry
    BY <2>1
  <2>3. /\ log[i].off \in Nat /\ log[Len(log)].off \in Nat
        /\ log[Len(log)].size \in Nat \ {0}
    BY <2>2, SizeAssumption DEF Entry
  <2>4. log[i].off <= log[Len(log)].off
    BY <1>1, <2>1, <2>3 DEF Increasing
  <2> QED
    BY <2>1, <2>3, <2>4 DEF EndOf
<1> HIDE DEF new
<1>3. ASSUME NEW i \in DOMAIN new, NEW j \in DOMAIN new, i < j PROVE new[i].off < new[j].off
  <2>1. i \in 1 .. Len(log)
    BY <1>1, <1>3
  <2>2. CASE j \in 1 .. Len(log)
    BY <1>1, <1>3, <2>1, <2>2 DEF Increasing
  <2>3. CASE j = Len(log) + 1
    BY <1>1, <1>2, <2>1, <2>3
  <2> QED
    BY <1>1, <2>2, <2>3
<1> QED
  BY <1>3 DEF Increasing, new

\* Where no key has two items, there is nothing to recover.
LEMMA SoundIsRecoverable ==
  ASSUME NEW logs, Sound(logs, Blk), NEW x, NEW y
  PROVE  Recoverable(logs, x, y)
  BY DEF Sound, Intact, Unique, Recoverable

\* A scan that is interrupted can start over.
LEMMA ScanAgain ==
  ASSUME NEW logs \in [Blk -> Seq(Entry)], NEW x, NEW y, Recoverable(logs, x, y)
  PROVE  Recoverable(logs, 1, 1)
<1>1. \A b \in Blk : \A i \in DOMAIN logs[b] : ~Passes(1, 1, b, i)
  <2> SUFFICES ASSUME NEW b \in Blk, NEW i \in DOMAIN logs[b] PROVE ~Passes(1, 1, b, i)
    OBVIOUS
  <2>1. logs[b] \in Seq(Entry)
    OBVIOUS
  <2>2. b \in Nat /\ b >= 1 /\ i \in Nat /\ i >= 1
    BY <2>1 DEF Blk
  <2> QED
    BY <2>2 DEF Passes
<1> QED
  BY <1>1 DEF Recoverable

\* An update that was interrupted before its discard can be recovered.
LEMMA UpdateIsRecoverable ==
  ASSUME NEW logs \in [Blk -> Seq(Entry)], NEW p, Replacing(logs, p)
  PROVE  Recoverable(logs, 1, 1)
<1>1. \A b \in Blk : \A i \in DOMAIN logs[b] : ~Passes(1, 1, b, i)
  <2> SUFFICES ASSUME NEW b \in Blk, NEW i \in DOMAIN logs[b] PROVE ~Passes(1, 1, b, i)
    OBVIOUS
  <2>1. logs[b] \in Seq(Entry)
    OBVIOUS
  <2>2. b \in Nat /\ b >= 1 /\ i \in Nat /\ i >= 1
    BY <2>1 DEF Blk
  <2> QED
    BY <2>2 DEF Passes
<1> QED
  BY <1>1 DEF Recoverable, Replacing

\* A scan that has passed every block leaves one intact item per key.
LEMMA ScanComplete ==
  ASSUME NEW logs, Recoverable(logs, NBlk + 1, 1)
  PROVE  Sound(logs, Blk)
<1>1. \A b \in Blk : \A i : Passes(NBlk + 1, 1, b, i)
  BY SizeAssumption DEF Blk, Passes
<1>2. Intact(logs, Blk)
  BY <1>1 DEF Recoverable, Intact
<1>3. ASSUME NEW b \in Blk, NEW c \in Blk, NEW i \in DOMAIN logs[b], NEW j \in DOMAIN logs[c],
             Rivals(logs, b, i, c, j)
      PROVE  FALSE
  <2>1. logs[b][i].ok /\ logs[c][j].ok
    BY <1>2, <1>3 DEF Intact, Rivals
  <2> QED
    BY <1>1, <1>3, <2>1 DEF Recoverable
<1> QED
  BY <1>2, <1>3 DEF Sound, Unique

\* The scan moves on to the next block when it has seen every item of one.
LEMMA ScanNextBlock ==
  ASSUME NEW logs \in [Blk -> Seq(Entry)], NEW x \in Blk, NEW y \in Nat, y > Len(logs[x]),
         Recoverable(logs, x, y)
  PROVE  Recoverable(logs, x + 1, 1)
<1>1. ASSUME NEW b \in Blk, NEW i \in DOMAIN logs[b]
      PROVE  Passes(x + 1, 1, b, i) <=> Passes(x, y, b, i)
  <2>1. logs[b] \in Seq(Entry)
    OBVIOUS
  <2>2. b \in Nat /\ x \in Nat /\ i \in Nat /\ i >= 1 /\ i <= Len(logs[b]) /\ Len(logs[b]) \in Nat
    BY <2>1 DEF Blk
  <2>3. CASE b = x
    BY <2>2, <2>3 DEF Passes
  <2>4. CASE b # x
    BY <2>2, <2>4 DEF Passes
  <2> QED
    BY <2>3, <2>4
<1> QED
  BY <1>1 DEF Recoverable

\* The scan moves on to the next item when the one it stands at is intact and
\* supersedes none.
LEMMA ScanNextItem ==
  ASSUME NEW logs \in [Blk -> Seq(Entry)], NEW x \in Blk, NEW y \in Nat,
         Recoverable(logs, x, y),
         y \in DOMAIN logs[x] /\ logs[x][y].live => logs[x][y].ok,
         \A c \in Blk : \A j \in DOMAIN logs[c] :
           (y \in DOMAIN logs[x] /\ Rivals(logs, x, y, c, j)) => ~Updates(logs, x, y, c, j)
  PROVE  Recoverable(logs, x, y + 1)
<1>1. ASSUME NEW b \in Blk, NEW i \in DOMAIN logs[b]
      PROVE  Passes(x, y + 1, b, i) <=> Passes(x, y, b, i) \/ (b = x /\ i = y)
  <2>1. logs[b] \in Seq(Entry)
    OBVIOUS
  <2>2. b \in Nat /\ x \in Nat /\ i \in Nat
    BY <2>1 DEF Blk
  <2> QED
    BY <2>2 DEF Passes
<1>2. ASSUME NEW b \in Blk, NEW i \in DOMAIN logs[b], logs[b][i].live, Passes(x, y + 1, b, i)
      PROVE  logs[b][i].ok
  BY <1>1, <1>2 DEF Recoverable
<1>3. ASSUME NEW b \in Blk, NEW c \in Blk, NEW i \in DOMAIN logs[b], NEW j \in DOMAIN logs[c],
             Rivals(logs, b, i, c, j), logs[b][i].ok, logs[c][j].ok
      PROVE  \/ Updates(logs, b, i, c, j) /\ ~Passes(x, y + 1, b, i)
             \/ Updates(logs, c, j, b, i) /\ ~Passes(x, y + 1, c, j)
  <2>1. \/ Updates(logs, b, i, c, j) /\ ~Passes(x, y, b, i)
        \/ Updates(logs, c, j, b, i) /\ ~Passes(x, y, c, j)
    BY <1>3 DEF Recoverable
  <2>2. Rivals(logs, c, j, b, i)
    BY <1>3 DEF Rivals
  <2>3. ~(Updates(logs, b, i, c, j) /\ b = x /\ i = y)
    BY <1>3
  <2>4. ~(Updates(logs, c, j, b, i) /\ c = x /\ j = y)
    BY <2>2
  <2> QED
    BY <1>1, <2>1, <2>3, <2>4
<1> QED
  BY <1>2, <1>3 DEF Recoverable

\* A torn write leaves what there was.
LEMMA TornIsRecoverable ==
  ASSUME NEW old \in [Blk -> Seq(Entry)], Sound(old, Blk), NEW c \in Blk,
         NEW t \in Entry, ~(t.live /\ t.ok), NEW new \in [Blk -> Seq(Entry)],
         new = [old EXCEPT ![c] = Append(old[c], t)]
  PROVE  Recoverable(new, 1, 1)
<1>1. /\ \A b \in Blk \ {c} : new[b] = old[b]
      /\ DOMAIN new[c] = DOMAIN old[c] \cup {Len(old[c]) + 1}
      /\ new[c][Len(old[c]) + 1] = t
      /\ \A i \in DOMAIN old[c] : new[c][i] = old[c][i]
  BY AppendAdds
<1>2. \A b \in Blk : \A i \in DOMAIN new[b] : (new[b][i].live /\ new[b][i].ok) =>
        i \in DOMAIN old[b] /\ new[b][i] = old[b][i]
  BY <1>1
<1>3. \A b \in Blk : \A i \in DOMAIN new[b] : ~Passes(1, 1, b, i)
  <2> SUFFICES ASSUME NEW b \in Blk, NEW i \in DOMAIN new[b] PROVE ~Passes(1, 1, b, i)
    OBVIOUS
  <2>1. new[b] \in Seq(Entry)
    OBVIOUS
  <2>2. b \in Nat /\ b >= 1 /\ i \in Nat /\ i >= 1
    BY <2>1 DEF Blk
  <2> QED
    BY <2>2 DEF Passes
<1>4. ASSUME NEW b \in Blk, NEW d \in Blk, NEW i \in DOMAIN new[b], NEW j \in DOMAIN new[d],
             Rivals(new, b, i, d, j), new[b][i].ok, new[d][j].ok
      PROVE  FALSE
  <2>1. Rivals(old, b, i, d, j) /\ i \in DOMAIN old[b] /\ j \in DOMAIN old[d]
    BY <1>2, <1>4 DEF Rivals
  <2> QED
    BY <2>1 DEF Sound, Unique
<1> QED
  BY <1>3, <1>4 DEF Recoverable

\* A new key gets one item.
LEMMA WriteNewKey ==
  ASSUME NEW old \in [Blk -> Seq(Entry)], NEW S \in SUBSET Blk, Sound(old, S), NEW c \in S,
         NEW e \in Entry, e.live, e.ok, \A b \in S : NoneIn(old, b, e.key),
         NEW new, new = [old EXCEPT ![c] = Append(old[c], e)]
  PROVE  Sound(new, S)
<1> DEFINE n == Len(old[c]) + 1
<1>1. /\ \A b \in S \ {c} : new[b] = old[b]
      /\ DOMAIN new[c] = DOMAIN old[c] \cup {n}
      /\ new[c][n] = e
      /\ \A i \in DOMAIN old[c] : new[c][i] = old[c][i]
  BY AppendAdds
<1> HIDE DEF n
<1>2. \A b \in S : \A i \in DOMAIN new[b] :
        \/ i \in DOMAIN old[b] /\ new[b][i] = old[b][i]
        \/ b = c /\ i = n /\ new[b][i] = e
  BY <1>1
<1>3. Intact(new, S)
  BY <1>2 DEF Intact, Sound
<1>4. ASSUME NEW b \in S, NEW d \in S, NEW i \in DOMAIN new[b], NEW j \in DOMAIN new[d],
             Rivals(new, b, i, d, j)
      PROVE  FALSE
  <2>1. CASE i \in DOMAIN old[b] /\ new[b][i] = old[b][i] /\ j \in DOMAIN old[d] /\ new[d][j] = old[d][j]
    BY <1>4, <2>1 DEF Sound, Unique, Rivals
  <2>2. CASE i \in DOMAIN old[b] /\ new[b][i] = old[b][i] /\ new[d][j] = e
    BY <1>4, <2>2 DEF NoneIn, Rivals
  <2>3. CASE j \in DOMAIN old[d] /\ new[d][j] = old[d][j] /\ new[b][i] = e
    BY <1>4, <2>3 DEF NoneIn, Rivals
  <2>4. CASE b = c /\ i = n /\ d = c /\ j = n
    BY <1>4, <2>4 DEF Rivals
  <2> QED
    BY <1>2, <2>1, <2>2, <2>3, <2>4
<1> QED
  BY <1>3, <1>4 DEF Sound, Unique

\* An update adds a second item, which names the position of the first.
LEMMA WriteUpdate ==
  ASSUME NEW old \in [Blk -> Seq(Entry)], Sound(old, Blk), NEW c \in Blk,
         NEW e \in Entry, e.live, e.ok, HasAt(old, e.prev, e.key),
         NEW new, new = [old EXCEPT ![c] = Append(old[c], e)]
  PROVE  Replacing(new, e.prev) /\ HasAt(new, e.prev, e.key)
<1> DEFINE n == Len(old[c]) + 1
<1>1. /\ \A b \in Blk \ {c} : new[b] = old[b]
      /\ DOMAIN new[c] = DOMAIN old[c] \cup {n} /\ n \notin DOMAIN old[c]
      /\ new[c][n] = e
      /\ \A i \in DOMAIN old[c] : new[c][i] = old[c][i]
  BY AppendAdds
<1> HIDE DEF n
<1>2. \A b \in Blk : \A i \in DOMAIN new[b] :
        \/ i \in DOMAIN old[b] /\ new[b][i] = old[b][i]
        \/ b = c /\ i = n /\ new[b][i] = e
  BY <1>1
<1>3. \A b \in Blk : \A i \in DOMAIN old[b] : i \in DOMAIN new[b] /\ new[b][i] = old[b][i]
  BY <1>1
<1>4. PICK ob \in Blk : \E oi \in DOMAIN old[ob] :
        e.prev = <<ob, old[ob][oi].off>> /\ old[ob][oi].live /\ old[ob][oi].key = e.key
  BY DEF HasAt
<1>5. PICK oi \in DOMAIN old[ob] :
        e.prev = <<ob, old[ob][oi].off>> /\ old[ob][oi].live /\ old[ob][oi].key = e.key
  BY <1>4
<1>6. HasAt(new, e.prev, e.key)
  BY <1>3, <1>5 DEF HasAt
<1>7. Intact(new, Blk)
  BY <1>2 DEF Intact, Sound
<1>8. ASSUME NEW b \in Blk, NEW i \in DOMAIN old[b], old[b][i].live, old[b][i].key = e.key
      PROVE  b = ob /\ i = oi
  BY <1>5, <1>8 DEF Sound, Unique, Rivals
<1>9. ASSUME NEW b \in Blk, NEW d \in Blk, NEW i \in DOMAIN new[b], NEW j \in DOMAIN new[d],
             Rivals(new, b, i, d, j)
      PROVE  \/ e.prev = <<b, new[b][i].off>> /\ Updates(new, d, j, b, i)
             \/ e.prev = <<d, new[d][j].off>> /\ Updates(new, b, i, d, j)
  <2>1. CASE i \in DOMAIN old[b] /\ new[b][i] = old[b][i] /\ j \in DOMAIN old[d] /\ new[d][j] = old[d][j]
    BY <1>9, <2>1 DEF Sound, Unique, Rivals
  <2>2. CASE i \in DOMAIN old[b] /\ new[b][i] = old[b][i] /\ new[d][j] = e
    <3>1. b = ob /\ i = oi
      BY <1>8, <1>9, <2>2 DEF Rivals
    <3> QED
      BY <1>5, <2>2, <3>1 DEF Updates
  <2>3. CASE j \in DOMAIN old[d] /\ new[d][j] = old[d][j] /\ new[b][i] = e
    <3>1. d = ob /\ j = oi
      BY <1>8, <1>9, <2>3 DEF Rivals
    <3> QED
      BY <1>5, <2>3, <3>1 DEF Updates
  <2>4. CASE b = c /\ i = n /\ d = c /\ j = n
    BY <1>9, <2>4 DEF Rivals
  <2> QED
    BY <1>2, <2>1, <2>2, <2>3, <2>4
<1> QED
  BY <1>6, <1>7, <1>9 DEF Replacing

\* The discard takes the older item away.
LEMMA DiscardOld ==
  ASSUME NEW old \in [Blk -> Seq(Entry)], NEW c \in Blk, NEW o, Replacing(old, <<c, o>>),
         NEW new, new = [old EXCEPT ![c] = DiscardAt(old[c], o)]
  PROVE  Sound(new, Blk)
<1>1. /\ Shrunk(old, new)
      /\ \A j \in DOMAIN old[c] : old[c][j].off = o => ~new[c][j].live
  BY DiscardShrinks
<1>2. Intact(new, Blk)
  BY <1>1 DEF Shrunk, Intact, Replacing
<1>3. ASSUME NEW b \in Blk, NEW d \in Blk, NEW i \in DOMAIN new[b], NEW j \in DOMAIN new[d],
             Rivals(new, b, i, d, j)
      PROVE  FALSE
  <2>1. /\ i \in DOMAIN old[b] /\ j \in DOMAIN old[d]
        /\ new[b][i] = old[b][i] /\ new[d][j] = old[d][j]
    BY <1>1, <1>3 DEF Shrunk, Rivals
  <2>2. Rivals(old, b, i, d, j)
    BY <1>3, <2>1 DEF Rivals
  <2>3. <<c, o>> = <<b, old[b][i].off>> \/ <<c, o>> = <<d, old[d][j].off>>
    BY <2>1, <2>2 DEF Replacing
  <2> QED
    BY <1>1, <1>3, <2>1, <2>3 DEF Rivals
<1> QED
  BY <1>2, <1>3 DEF Sound, Unique

\* gc starts with an empty destination.
LEMMA CopyStarts ==
  ASSUME NEW logs \in [Blk -> Seq(Entry)], Sound(logs, Blk), NEW s \in Blk, NEW d \in Blk,
         logs[d] = <<>>
  PROVE  Copying(logs, s, d, 1)
<1>1. Sound(logs, Blk \ {d}) /\ Sound(logs, {d})
  BY DEF Sound, Intact, Unique
<1>2. DOMAIN logs[d] = {}
  OBVIOUS
<1>3. \A i \in DOMAIN logs[s] : ~(i < 1)
  <2>1. logs[s] \in Seq(Entry)
    OBVIOUS
  <2> QED
    BY <2>1
<1> QED
  BY <1>1, <1>2, <1>3 DEF Copying

\* A discarded item is not copied.
LEMMA CopyPasses ==
  ASSUME NEW logs \in [Blk -> Seq(Entry)], NEW s \in Blk, NEW d \in Blk, NEW n \in DOMAIN logs[s],
         Copying(logs, s, d, n), ~logs[s][n].live
  PROVE  Copying(logs, s, d, n + 1)
<1>1. logs[s] \in Seq(Entry)
  OBVIOUS
<1>2. \A i \in DOMAIN logs[s] : i < n + 1 <=> i < n \/ i = n
  BY <1>1
<1> QED
  BY <1>2 DEF Copying

\* A live item gets a twin in the destination, and only one.
LEMMA CopyAdds ==
  ASSUME NEW old \in [Blk -> Seq(Entry)], NEW s \in Blk, NEW d \in Blk, s # d,
         NEW n \in DOMAIN old[s], Copying(old, s, d, n), old[s][n].live,
         NEW o, NEW e \in Entry, e = [old[s][n] EXCEPT !.off = o],
         NEW new, new = [old EXCEPT ![d] = Append(old[d], e)]
  PROVE  Copying(new, s, d, n + 1)
<1> DEFINE m == Len(old[d]) + 1
<1>1. /\ \A b \in Blk \ {d} : new[b] = old[b]
      /\ DOMAIN new[d] = DOMAIN old[d] \cup {m} /\ new[d][m] = e
      /\ \A i \in DOMAIN old[d] : new[d][i] = old[d][i]
  BY AppendAdds
<1> HIDE DEF m
<1>2. old[s] \in Seq(Entry)
  OBVIOUS
<1>3. \A i \in DOMAIN old[s] : i < n + 1 <=> i < n \/ i = n
  BY <1>2
<1>4. old[s][n].ok /\ Sound(old, Blk \ {d}) /\ Sound(old, {d})
  BY DEF Copying, Sound, Intact
<1>5. /\ e.live /\ e.ok /\ e.key = old[s][n].key /\ e.val = old[s][n].val
      /\ Twins(old[s][n], e)
  <2>1. old[s][n] \in Entry
    BY <1>2
  <2> QED
    BY <1>4, <2>1 DEF Entry, Twins
<1>6. Sound(new, Blk \ {d})
  BY <1>1, <1>4 DEF Sound, Intact, Unique, Rivals
<1>7. Sound(new, {d})
  <2>1. NoneIn(old, d, e.key)
    <3> SUFFICES ASSUME NEW j \in DOMAIN old[d], old[d][j].live, old[d][j].key = e.key PROVE FALSE
      BY DEF NoneIn
    <3>1. PICK i \in DOMAIN old[s] : i < n /\ Twins(old[s][i], old[d][j])
      BY DEF Copying
    <3>2. Rivals(old, s, i, s, n)
      <4>1. <<s, i>> # <<s, n>>
        BY <1>2, <3>1
      <4> QED
        BY <1>5, <3>1, <4>1 DEF Twins, Rivals
    <3> QED
      BY <1>4, <3>2 DEF Sound, Unique
  <2> QED
    BY <1>4, <1>5, <2>1, WriteNewKey
<1>8. ASSUME NEW j \in DOMAIN new[d], new[d][j].live
      PROVE  \E i \in DOMAIN new[s] : i < n + 1 /\ Twins(new[s][i], new[d][j])
  <2>1. CASE j \in DOMAIN old[d]
    BY <1>1, <1>3, <1>8, <2>1 DEF Copying
  <2>2. CASE j = m
    BY <1>1, <1>3, <1>5, <2>2
  <2> QED
    BY <1>1, <2>1, <2>2
<1>9. ASSUME NEW i \in DOMAIN new[s], i < n + 1, new[s][i].live
      PROVE  \E j \in DOMAIN new[d] : Twins(new[s][i], new[d][j])
  <2>1. CASE i < n
    <3>1. PICK j \in DOMAIN old[d] : Twins(old[s][i], old[d][j])
      BY <1>1, <1>9, <2>1 DEF Copying
    <3> QED
      BY <1>1, <3>1
  <2>2. CASE i = n
    BY <1>1, <1>5, <2>2
  <2> QED
    BY <1>1, <1>3, <1>9, <2>1, <2>2
<1> QED
  BY <1>6, <1>7, <1>8, <1>9 DEF Copying

\* When every item has its twin, the source can be erased.
LEMMA CopyEnds ==
  ASSUME NEW old \in [Blk -> Seq(Entry)], NEW s \in Blk, NEW d \in Blk, s # d,
         NEW n \in Nat, n > Len(old[s]), Copying(old, s, d, n),
         NEW new, new = [old EXCEPT ![s] = <<>>]
  PROVE  /\ Sound(new, Blk)
         /\ Mirrored(old, s, d)
<1>0. /\ Shrunk(old, new) /\ new[s] = <<>>
      /\ \A b \in Blk \ {s} : new[b] = old[b]
  BY EraseShrinks
<1>1. /\ Shrunk(old, new) /\ DOMAIN new[s] = {}
      /\ \A b \in Blk \ {s} : new[b] = old[b]
  BY <1>0
<1>2. \A i \in DOMAIN old[s] : i < n
  <2>1. old[s] \in Seq(Entry)
    OBVIOUS
  <2> QED
    BY <2>1
<1>3. Mirrored(old, s, d)
  <2> SUFFICES ASSUME NEW i \in DOMAIN old[s], old[s][i].live
               PROVE  \E j \in DOMAIN old[d] : Twins(old[d][j], old[s][i])
    BY DEF Mirrored
  <2>1. PICK j \in DOMAIN old[d] : Twins(old[s][i], old[d][j])
    BY <1>2 DEF Copying
  <2> QED
    BY <2>1 DEF Twins
<1>4. Sound(old, Blk \ {d}) /\ Sound(old, {d})
  BY DEF Copying
<1>5. Intact(new, Blk)
  BY <1>1, <1>4 DEF Sound, Intact
<1>6. ASSUME NEW b \in Blk, NEW i \in DOMAIN new[b], NEW j \in DOMAIN new[d],
             new[b][i].live, new[d][j].live, new[b][i].key = new[d][j].key, b # d
      PROVE  FALSE
  <2>1. b # s /\ new[b] = old[b] /\ new[d] = old[d]
    BY <1>1
  <2>2. PICK k \in DOMAIN old[s] : Twins(old[s][k], old[d][j])
    BY <1>6, <2>1 DEF Copying
  <2>3. Rivals(old, b, i, s, k)
    BY <1>6, <2>1, <2>2 DEF Rivals, Twins
  <2> QED
    BY <1>4, <1>6, <2>1, <2>3 DEF Sound, Unique
<1>7. ASSUME NEW b \in Blk, NEW c \in Blk, NEW i \in DOMAIN new[b], NEW j \in DOMAIN new[c],
             Rivals(new, b, i, c, j)
      PROVE  FALSE
  <2>1. CASE b # d /\ c = d
    BY <1>6, <1>7, <2>1 DEF Rivals
  <2>2. CASE b = d /\ c # d
    BY <1>6, <1>7, <2>2 DEF Rivals
  <2>3. CASE b = d /\ c = d
    <3>1. new[d] = old[d]
      BY <1>1
    <3> QED
      BY <1>4, <1>7, <2>3, <3>1 DEF Sound, Unique, Rivals
  <2>4. CASE b # d /\ c # d
    <3>1. b # s /\ c # s
      BY <1>1
    <3>2. new[b] = old[b] /\ new[c] = old[c]
      BY <1>1, <3>1
    <3> QED
      BY <1>4, <1>7, <2>4, <3>2 DEF Sound, Unique, Rivals
  <2> QED
    BY <2>1, <2>2, <2>3, <2>4
<1> QED
  BY <1>3, <1>5, <1>7 DEF Sound, Unique

\* A gc that is interrupted, in the middle of a copy or between two, leaves the
\* source whole and a destination that can be formatted.
LEMMA CopyInterrupted ==
  ASSUME NEW old \in [Blk -> Seq(Entry)], NEW s \in Blk, NEW d \in Blk, s # d, NEW n,
         Copying(old, s, d, n), NEW new,
         \/ new = old
         \/ \E t \in Entry : ~(t.live /\ t.ok) /\ new = [old EXCEPT ![d] = Append(old[d], t)]
  PROVE  Sound(new, Blk \ {d}) /\ Mirrored(new, d, s)
<1>1. /\ \A b \in Blk \ {d} : new[b] = old[b]
      /\ \A j \in DOMAIN new[d] : (new[d][j].live /\ new[d][j].ok) =>
           j \in DOMAIN old[d] /\ new[d][j] = old[d][j]
  <2>1. CASE new = old
    BY <2>1
  <2>2. ASSUME NEW t \in Entry, ~(t.live /\ t.ok), new = [old EXCEPT ![d] = Append(old[d], t)]
        PROVE  /\ \A b \in Blk \ {d} : new[b] = old[b]
               /\ \A j \in DOMAIN new[d] : (new[d][j].live /\ new[d][j].ok) =>
                    j \in DOMAIN old[d] /\ new[d][j] = old[d][j]
    BY <2>2, AppendAdds
  <2> QED
    BY <2>1, <2>2
<1>2. Sound(new, Blk \ {d})
  BY <1>1 DEF Copying, Sound, Intact, Unique, Rivals
<1>3. Mirrored(new, d, s)
  BY <1>1 DEF Copying, Mirrored
<1> QED
  BY <1>2, <1>3

----------------------------------------------------------------------------
(* The gc tags *)

\* A step of the scan discards items at most; it passes a block only when it
\* has seen all its items, or leaves it to kv_handle_incomplete_gc.
LEMMA ScanEffect ==
  ASSUME KvInv, FlashShape, ScanFormat \/ ScanSkip \/ ScanItem \/ ScanEnd
  PROVE  /\ pc = "scan" /\ pc' \in {"scan", "incomplete"}
         /\ at.blk \in Blk /\ at.i \in Nat \ {0}
         /\ UNCHANGED <<gcSrc, gcDst, gcDone>>
         /\ Shrunk(items, items') /\ \A b \in Blk : items[b] = <<>> => items'[b] = <<>>
         /\ idx.fresh \subseteq idx'.fresh
         /\ \/ /\ FrontBlk' = at.blk + 1 /\ FrontItem' = 1 /\ items' = items
               /\ \/ at.blk \in gcSrc \cup DstNotDone
                  \/ /\ at.i > Len(items[at.blk])
                     /\ items[at.blk] = <<>> => at.blk \in idx'.fresh
            \/ ScanItem /\ FrontBlk' = at.blk /\ FrontItem' = at.i + 1
<1> USE DEF flashVars, ramVars, callVars, tagVars
<1>0. pc = "scan"
  BY DEF ScanFormat, ScanSkip, ScanItem, ScanEnd, Indexing
<1>1. /\ gc = NoGc /\ at.blk \in Blk /\ at.i \in Nat \ {0} /\ items \in [Blk -> Seq(Entry)]
      /\ at \in [blk : 1 .. NBlk + 1, i : Nat \ {0}]
      /\ GoodIndex(idx) /\ FreeFits(idx, items, 0) /\ LogsContiguous
  BY <1>0 DEF KvInv, Typed, IndexPart, Stale, GcState, GcPcs, RedoPcs, Formatted
<1>2. Shrunk(items, items)
  BY DEF Shrunk
<1>3. ASSUME NextScan PROVE FrontBlk' = at.blk + 1 /\ FrontItem' = 1 /\ pc' \in {"scan", "incomplete"}
  <2>1. CASE at.blk = NBlk
    BY <1>3, <2>1 DEF NextScan, Goto, FrontBlk, FrontItem
  <2>2. CASE at.blk # NBlk
    BY <1>0, <1>3, <2>2 DEF NextScan, FrontBlk, FrontItem
  <2> QED
    BY <2>1, <2>2
<1>4. CASE ScanFormat
  <2>1. /\ items' = [items EXCEPT ![at.blk] = <<>>] /\ at.blk \notin magic
        /\ idx' = SetFresh(idx, at.blk) /\ NextScan
        /\ UNCHANGED <<gcSrc, gcDst, gcDone>>
    BY <1>4 DEF ScanFormat
  <2>2. items[at.blk] = <<>> /\ items' = items
    BY <1>1, <2>1 DEF FlashShape
  <2>3. idx'.fresh = idx.fresh \cup {at.blk}
    BY <1>1, <2>1, SetFreshGood
  <2> QED
    BY <1>0, <1>1, <1>2, <1>3, <2>1, <2>2, <2>3
<1>5. CASE ScanSkip
  <2>1. NextScan /\ at.blk \in gcSrc \cup DstNotDone /\ UNCHANGED <<items, idx, gcSrc, gcDst, gcDone>>
    BY <1>5 DEF ScanSkip
  <2> QED
    BY <1>0, <1>1, <1>2, <1>3, <2>1
<1>6. CASE ScanEnd
  <2>1. /\ NextScan /\ at.i > Len(items[at.blk])
        /\ idx' = WalkEnd(idx, at.blk, EndOf(items[at.blk]))
        /\ UNCHANGED <<items, gcSrc, gcDst, gcDone>>
    BY <1>6 DEF ScanEnd, Indexing, LogEnd
  <2>2. \A c \in idx.fresh : c \in Blk /\ items[c] = <<>>
    BY <1>1, FreshRoom
  <2>3. idx'.fresh = IF items[at.blk] = <<>> THEN idx.fresh \cup {at.blk} ELSE idx.fresh
    BY <1>1, <2>1, <2>2, WalkEndGood DEF LogsContiguous
  <2> QED
    BY <1>0, <1>1, <1>2, <1>3, <2>1, <2>3
<1>7. CASE ScanItem
  <2> DEFINE e == items[at.blk][at.i]
  <2>1. /\ pc' = "scan" /\ at' = [at EXCEPT !.i = @ + 1]
        /\ UNCHANGED <<gcSrc, gcDst, gcDone>>
    BY <1>0, <1>7 DEF ScanItem
  <2>2. FrontBlk' = at.blk /\ FrontItem' = at.i + 1
    BY <1>1, <2>1 DEF FrontBlk, FrontItem
  <2>3. \/ items' = items
        \/ \E p : p[1] \in Blk /\ items' = Discarded(p)
    <3>1. ASSUME ItemsAt(e.prev) # {} PROVE e.prev[1] \in Blk
      BY <3>1 DEF ItemsAt
    <3>2. <<at.blk, e.off>>[1] = at.blk
      OBVIOUS
    <3> QED
      BY <1>1, <1>7, <3>1, <3>2 DEF ScanItem, Supersedes
  <2>4. idx'.fresh = idx.fresh
    <3>1. idx \in Index
      BY <1>1 DEF GoodIndex
    <3>2. \A b : SetDirty(idx, b).fresh = idx.fresh
      BY <3>1 DEF SetDirty, Index
    <3> QED
      BY <1>7, <3>2 DEF ScanItem
  <2>5. Shrunk(items, items') /\ \A b \in Blk : items[b] = <<>> => items'[b] = <<>>
    <3>1. CASE items' = items
      BY <1>2, <3>1
    <3>2. ASSUME NEW p, p[1] \in Blk, items' = Discarded(p)
          PROVE  Shrunk(items, items') /\ \A b \in Blk : items[b] = <<>> => items'[b] = <<>>
      <4>0. PICK c \in Blk : c = p[1]
        BY <3>2
      <4>1. PICK o : c = p[1] /\ o = p[2]
        BY <4>0
      <4>2. items' = [items EXCEPT ![c] = DiscardAt(items[c], o)]
        BY <3>2, <4>1 DEF Discarded
      <4>3. Shrunk(items, items')
        BY <1>1, <4>2, DiscardShrinks
      <4>4. DiscardAt(items[c], o) = <<>> <=> items[c] = <<>>
        BY <1>1, DiscardLog DEF LogsContiguous
      <4> QED
        BY <1>1, <4>2, <4>3, <4>4
    <3> QED
      BY <2>3, <3>1, <3>2
  <2> QED
    BY <1>0, <1>1, <1>7, <2>1, <2>2, <2>4, <2>5
<1> QED
  BY <1>4, <1>5, <1>6, <1>7

\* ln_kv_init finds the tags in one of three states, and kv_handle_incomplete_gc
\* has a case for each: its error exit is not taken.
LEMMA BootTags ==
  ASSUME KvInv, FlashShape, GcTags, Boot
  PROVE  GcTags' /\ ~StatusError
<1> USE DEF Goto, flashVars, tagVars, ramVars, callVars, BootScan, OpPcs, DstNotDone
<1>0. /\ gcSrc \subseteq Blk /\ gcDst \subseteq Blk /\ 0 \notin Blk
      /\ \A b \in Blk : ~(b < 1)
      /\ \A b \in Blk : b < NBlk + 1
  BY SizeAssumption DEF KvInv, Typed, Blk
<1>1. CASE PowerUp
  <2>1. /\ pc = "down" /\ pc' = "scan" /\ at' = Start
        /\ UNCHANGED <<gcSrc, gcDst, gcDone, items>>
    BY <1>1 DEF PowerUp
  <2>2. FrontBlk' = 1
    BY <2>1 DEF FrontBlk, Start
  <2> QED
    BY <1>0, <2>1, <2>2 DEF GcTags, Spare, StatusError
<1>2. CASE ScanFormat \/ ScanSkip \/ ScanItem \/ ScanEnd
  <2>1. /\ pc = "scan" /\ pc' \in {"scan", "incomplete"} /\ at.blk \in Blk
        /\ UNCHANGED <<gcSrc, gcDst, gcDone>>
        /\ \A b \in Blk : items[b] = <<>> => items'[b] = <<>>
        /\ idx.fresh \subseteq idx'.fresh
        /\ \/ /\ FrontBlk' = at.blk + 1
              /\ \/ at.blk \in gcSrc \cup DstNotDone
                 \/ items[at.blk] = <<>> => at.blk \in idx'.fresh
           \/ FrontBlk' = at.blk
    BY <1>2, ScanEffect
  <2>2. FrontBlk = at.blk
    BY <2>1 DEF FrontBlk
  <2>3. ASSUME NEW d \in Blk, Spare(d), d \notin gcSrc \cup DstNotDone PROVE Spare(d)'
    <3>1. items[d] = <<>> /\ items'[d] = <<>> /\ (d < at.blk => d \in idx'.fresh)
      BY <2>1, <2>2, <2>3 DEF Spare
    <3>2. ASSUME d < FrontBlk' PROVE d < at.blk \/ (d = at.blk /\ FrontBlk' = at.blk + 1)
      BY <2>1, <3>2 DEF Blk
    <3> QED
      BY <2>1, <2>3, <3>1, <3>2 DEF Spare
  <2> QED
    BY <2>1, <2>3 DEF GcTags, StatusError
<1>3. CASE pc = "incomplete"
  <2>1. FrontBlk = NBlk + 1
    BY <1>3 DEF FrontBlk
  <2>2. \/ gcSrc = {} /\ DstNotDone = {}
        \/ \E s, d \in Blk : /\ s # d /\ gcSrc = {s}
                             /\ DstNotDone = {d} \/ (DstNotDone = {} /\ d \in idx.fresh)
    BY <1>0, <1>3, <2>1 DEF GcTags, Spare
  <2>3. ~StatusError
    <3>1. Cardinality({}) = 0
      BY FS_EmptySet
    <3>2. \A b : Cardinality({b}) = 1
      BY FS_Singleton
    <3>3. CASE gcSrc = {} /\ DstNotDone = {}
      <4>1. PendingSrc = {} /\ PendingDst = {}
        BY <3>3 DEF PendingSrc, PendingDst
      <4> QED
        BY <3>1, <4>1 DEF StatusError
    <3>4. ASSUME NEW s \in Blk, NEW d \in Blk, s # d, gcSrc = {s},
                 DstNotDone = {d} \/ (DstNotDone = {} /\ d \in idx.fresh)
          PROVE  ~StatusError
      <4>1. PendingSrc = {s} /\ (PendingDst = {d} \/ (PendingDst = {} /\ idx.fresh # {}))
        BY <3>4 DEF PendingSrc, PendingDst
      <4>2. Cardinality(PendingSrc) = 1 /\ Cardinality(PendingDst) \in {0, 1}
        BY <3>1, <3>2, <4>1
      <4>3. {d} # {}
        OBVIOUS
      <4> QED
        BY <4>1, <4>2, <4>3 DEF StatusError
    <3> QED
      BY <2>2, <3>3, <3>4
  <2>4. CASE NothingToRedo
    BY <2>2, <2>3, <2>4 DEF NothingToRedo, PendingSrc, GcTags
  <2>5. CASE RedoOnFresh
    <3>1. /\ pc' = "gcDst" /\ UNCHANGED <<gcSrc, gcDst, gcDone>> /\ PendingDst = {}
          /\ gcSrc = {gc'.src}
      BY <2>5 DEF RedoOnFresh, PendingSrc, CallGc
    <3>2. DstNotDone = {}
      BY <2>2, <3>1 DEF PendingDst
    <3> QED
      BY <2>3, <3>1, <3>2 DEF GcTags
  <2>6. CASE RedoOnDst
    <3>1. /\ pc' = "dstErase" /\ UNCHANGED <<gcSrc, gcDst, gcDone>> /\ PendingDst = {gc'.dst}
          /\ gcSrc = {gc'.src}
      BY <2>6 DEF RedoOnDst, PendingSrc, CallGc
    <3>2. DstNotDone = {gc'.dst}
      BY <2>2, <3>1 DEF PendingDst
    <3> QED
      BY <2>3, <3>1, <3>2 DEF GcTags
  <2> QED
    BY <1>3, <2>3, <2>4, <2>5, <2>6
    DEF Boot, PowerUp, ScanFormat, ScanSkip, ScanItem, ScanEnd, Indexing, DstErase, DstMagic,
        LocateGc, Locate
<1>4. CASE DstErase
  <2>1. /\ pc = "dstErase" /\ pc' = "dstMagic" /\ Erase(gc.dst) /\ UNCHANGED gc
    BY <1>4 DEF DstErase
  <2>2. gc.src # gc.dst
    BY <2>1, GcFacts DEF RedoPcs
  <2> QED
    BY <2>1, <2>2 DEF GcTags, Erase, StatusError
<1>5. CASE DstMagic
  BY <1>5 DEF DstMagic, GcTags, StatusError
<1>6. CASE LocateGc
  <2>1. pc = "locate" /\ pc' = "gcSrc" /\ UNCHANGED <<gcSrc, gcDst, gcDone>>
    BY <1>6 DEF LocateGc, CallGc
  <2> QED
    BY <2>1 DEF GcTags, StatusError
<1>7. CASE Locate
  BY <1>7 DEF Locate, GcTags, StatusError
<1> QED
  BY <1>1, <1>2, <1>3, <1>4, <1>5, <1>6, <1>7 DEF Boot, StatusError, NothingToRedo, RedoOnFresh, RedoOnDst

\* kv_do_gc sets and clears its tags in the order that makes it redoable.
LEMMA RunTags ==
  ASSUME KvInv, GcTags, Gc \/ Serve \/ \E r \in Requests : Call(r)
  PROVE  GcTags'
<1> USE DEF Goto, flashVars, tagVars, ramVars, callVars, BootScan, DstNotDone
<1>1. CASE Gc
  <2>0. pc \in GcPcs
    BY <1>1 DEF Gc, GcMarkSrc, GcMarkDst, GcCopy, GcErase, GcMagic, GcMarkDone, GcPcs
  <2>1. gc.src # gc.dst /\ gc \in GcJob
    BY <2>0, GcFacts
  <2>2. CASE GcMarkSrc
    BY <2>2 DEF GcMarkSrc, GcTags, OpPcs
  <2>3. CASE GcMarkDst
    BY <2>3 DEF GcMarkDst, GcTags, OpPcs
  <2>4. CASE GcCopy
    <3>1. /\ pc = "gcCopy" /\ pc' = "gcCopy" /\ gc' = [gc EXCEPT !.i = @ + 1]
          /\ UNCHANGED <<gcSrc, gcDst, gcDone>>
      BY <2>4 DEF GcCopy
    <3>2. gc'.src = gc.src /\ gc'.dst = gc.dst
      BY <2>1, <3>1 DEF GcJob
    <3> QED
      BY <3>1, <3>2 DEF GcTags, OpPcs
  <2>5. CASE GcErase
    <3>1. pc = "gcCopy" /\ pc' = "gcMagic" /\ Erase(gc.src) /\ UNCHANGED gc
      BY <2>5 DEF GcErase
    <3> QED
      BY <2>1, <3>1 DEF GcTags, Erase, OpPcs
  <2>6. CASE GcMagic
    BY <2>6 DEF GcMagic, GcTags, OpPcs
  <2>7. CASE GcMarkDone
    <3>1. /\ pc = "gcDone" /\ pc' = gc.ret /\ gcDone' = gcDone \cup {gc.dst}
          /\ UNCHANGED <<gcSrc, gcDst>>
      BY <2>7 DEF GcMarkDone
    <3>2. gc.ret \in {"search", "locate", "relocate"}
      BY <2>1 DEF GcJob
    <3> QED
      BY <3>1, <3>2 DEF GcTags, OpPcs
  <2> QED
    BY <1>1, <2>2, <2>3, <2>4, <2>5, <2>6, <2>7 DEF Gc
<1>2. CASE Serve \/ \E r \in Requests : Call(r)
  <2>1. pc \in OpPcs /\ pc' \in OpPcs \cup {"gcSrc"} /\ UNCHANGED <<gcSrc, gcDst, gcDone>>
    <3> USE DEF Return, Refused, Chosen, CallGc, OpPcs
    <3>1. CASE FindSkip \/ FixSkip \/ FindMiss \/ FixMiss
      BY <3>1 DEF FindSkip, FixSkip, FindMiss, FixMiss, WalkSkip, WalkMiss
    <3>2. CASE FindHit
      BY <3>2 DEF FindHit, WalkHit
    <3>3. CASE FixHit
      BY <3>3 DEF FixHit, WalkHit
    <3>4. CASE WalkNone \/ Enter \/ EnterRefused
      BY <3>4 DEF WalkNone, Enter, EnterRefused
    <3>5. CASE SearchWorkspace \/ SearchInuse \/ SearchFull \/ SearchFresh
      BY <3>5 DEF SearchWorkspace, SearchInuse, SearchFull, SearchFresh, NoRoom
    <3>6. CASE SearchGc
      BY <3>6 DEF SearchGc, NoRoom
    <3>7. CASE Save \/ Discard
      BY <3>7 DEF Save, Discard
    <3>8. CASE \E r \in Requests : Call(r)
      BY <3>8 DEF Call
    <3> QED
      BY <1>2, <3>1, <3>2, <3>3, <3>4, <3>5, <3>6, <3>7, <3>8 DEF Serve
  <2> QED
    BY <2>1 DEF GcTags, OpPcs
<1> QED
  BY <1>1, <1>2

\* Wherever the power fails outside GcInDoubt, the tags tell ln_kv_init what
\* to do.
LEMMA LossTags ==
  ASSUME KvInv, GcTags, ~AnyLoss, PowerLoss \/ Deinit
  PROVE  GcTags'
<1> USE DEF Goto, flashVars, tagVars, BootScan, DstNotDone
<1>1. /\ pc' = "down" /\ FrontBlk' = 1 /\ UNCHANGED <<gcSrc, gcDst, gcDone>> /\ ~GcInDoubt
      /\ pc \in Pcs /\ pc # "down"
  BY DEF PowerLoss, Deinit, Halt, GcInDoubt, FrontBlk, KvInv, Typed
<1>2. \A b \in Blk : ~(b < 1)
  BY DEF Blk
<1>3. CASE pc \in OpPcs \cup {"locate", "relocate", "gcSrc"}
  BY <1>1, <1>3 DEF GcTags, OpPcs
<1>4. CASE pc \in {"gcDst", "dstMagic"}
  <2>1. PICK s \in Blk, d \in Blk : s = gc.src /\ d = gc.dst /\ s # d
    BY <1>4, GcFacts DEF GcPcs, RedoPcs
  <2>2. items[d] = <<>> /\ items' = items
    BY <1>1, <1>4, <2>1 DEF KvInv, GcState, PowerLoss, Deinit, TornLogs
  <2>3. gcSrc' = {s} /\ DstNotDone' = {} /\ Spare(d)'
    BY <1>1, <1>2, <1>4, <2>1, <2>2 DEF GcTags, Spare
  <2> QED
    BY <1>1, <2>1, <2>3 DEF GcTags, OpPcs
<1>5. CASE pc \in {"gcCopy", "dstErase"}
  <2>1. /\ gc.src \in Blk /\ gc.dst \in Blk /\ gc.src # gc.dst
    BY <1>5, GcFacts DEF GcPcs, RedoPcs
  <2>2. gcSrc' = {gc.src} /\ DstNotDone' = {gc.dst}
    BY <1>1, <1>5 DEF GcTags, GcInDoubt
  <2> QED
    BY <1>1, <2>1, <2>2 DEF GcTags, OpPcs
<1>6. CASE pc \in {"scan", "incomplete"}
  <2>1. items' = items
    BY <1>6 DEF PowerLoss, Deinit, TornLogs
  <2>2. ASSUME NEW d \in Blk, Spare(d) PROVE Spare(d)'
    BY <1>1, <1>2, <2>1, <2>2 DEF Spare
  <2> QED
    BY <1>1, <1>6, <2>2 DEF GcTags, OpPcs
<1> QED
  BY <1>1, <1>3, <1>4, <1>5, <1>6 DEF Pcs, BootPcs, GcPcs, GcInDoubt

----------------------------------------------------------------------------
(* The shape of the logs *)

\* A step writes an item behind a log, discards items, erases a block, or
\* leaves the logs alone.
LEMMA Writes ==
  ASSUME ItemsFit, KvInv, Next
  PROVE  \/ items' = items /\ magic \subseteq magic'
         \/ DstErase \/ GcErase
         \/ \E b \in Blk \ magic : items' = [items EXCEPT ![b] = <<>>] /\ magic' = magic \cup {b}
         \/ \E c \in Blk : \E o : items' = [items EXCEPT ![c] = DiscardAt(items[c], o)] /\ magic' = magic
         \/ \E b \in magic, e \in Entry :
              /\ e.off = EndOf(items[b])
              /\ items' = [items EXCEPT ![b] = Append(items[b], e)] /\ magic' = magic
<1> USE DEF flashVars, tagVars, ramVars, callVars
<1> DEFINE Quiet == items' = items /\ magic \subseteq magic'
           Drops == \E c \in Blk : \E o : items' = [items EXCEPT ![c] = DiscardAt(items[c], o)] /\ magic' = magic
           Adds == \E b \in magic, e \in Entry :
                     /\ e.off = EndOf(items[b])
                     /\ items' = [items EXCEPT ![b] = Append(items[b], e)] /\ magic' = magic
<1>0. items \in [Blk -> Seq(Entry)] /\ (pc \in {"save", "gcCopy"} => Blk \subseteq magic)
  BY DEF KvInv, Typed, Formatted
<1>1. CASE PowerUp \/ ScanSkip \/ ScanEnd \/ StatusError \/ NothingToRedo \/ DstMagic \/ Locate
  BY <1>1 DEF PowerUp, ScanSkip, ScanEnd, StatusError, NothingToRedo, DstMagic, Locate
<1>2. CASE RedoOnFresh \/ RedoOnDst \/ LocateGc \/ SearchGc
  BY <1>2 DEF RedoOnFresh, RedoOnDst, LocateGc, SearchGc
<1>3. CASE ScanFormat
  <2>1. at.blk \in Blk \ magic
    BY <1>3 DEF ScanFormat, KvInv, Formatted
  <2> QED
    BY <1>3, <2>1 DEF ScanFormat
<1>4. CASE DstErase \/ GcErase
  BY <1>4
<1>5. ASSUME NEW p, p[1] \in Blk, items' = Discarded(p), magic' = magic PROVE Drops
  BY <1>5 DEF Discarded
<1>6. CASE ScanItem
  <2> DEFINE e == items[at.blk][at.i]
  <2>1. magic' = magic
    BY <1>6 DEF ScanItem
  <2>2. items' = items \/ items' = Discarded(<<at.blk, e.off>>)
          \/ (items' = Discarded(e.prev) /\ Supersedes(at.blk, e, e.prev))
    BY <1>6 DEF ScanItem
  <2>3. at.blk \in Blk /\ <<at.blk, e.off>>[1] = at.blk
    BY <1>6 DEF ScanItem, Indexing, KvInv, Formatted
  <2>4. ASSUME Supersedes(at.blk, e, e.prev) PROVE e.prev[1] \in Blk
    BY <2>4 DEF Supersedes, ItemsAt
  <2> HIDE DEF e
  <2> QED
    BY <1>5, <2>1, <2>2, <2>3, <2>4
<1>7. CASE GcMarkSrc \/ GcMarkDst \/ GcMagic \/ GcMarkDone
  BY <1>7 DEF GcMarkSrc, GcMarkDst, GcMagic, GcMarkDone
<1>8. CASE GcCopy
  <2> DEFINE e == items[gc.src][gc.i]
  <2>1. pc = "gcCopy" /\ gc.i <= Len(items[gc.src]) /\ magic' = magic
    BY <1>8 DEF GcCopy
  <2>2. gc.dst \in Blk /\ GcCopyOf(e) \in Entry /\ GcCopyOf(e).off = EndOf(items[gc.dst])
    BY <2>1, CopyFits, GcFacts DEF GcPcs
  <2>3. items' = items \/ items' = [items EXCEPT ![gc.dst] = Append(items[gc.dst], GcCopyOf(e))]
    BY <1>8 DEF GcCopy, Append1
  <2> QED
    BY <1>0, <2>1, <2>2, <2>3
<1>9. CASE FindSkip \/ FixSkip \/ FindMiss \/ FixMiss
  BY <1>9 DEF FindSkip, FixSkip, FindMiss, FixMiss, WalkSkip, WalkMiss
<1>10. CASE FindHit \/ FixHit
  BY <1>10 DEF FindHit, FixHit, WalkHit
<1>11. CASE WalkNone \/ Enter \/ EnterRefused \/ SearchWorkspace \/ SearchInuse \/ SearchFull \/ SearchFresh
  BY <1>11 DEF WalkNone, Enter, EnterRefused, SearchWorkspace, SearchInuse, SearchFull, SearchFresh
<1>12. CASE Save
  <2>1. pc = "save" /\ magic' = magic /\ items' = [items EXCEPT ![ws] = Append(items[ws], SavedItem)]
    BY <1>12 DEF Save, Append1
  <2>2. ws \in Blk /\ SavedItem \in Entry /\ SavedItem.off = EndOf(items[ws])
    BY <2>1, SavedItemFits
  <2> QED
    BY <1>0, <2>1, <2>2
<1>13. CASE Discard
  <2>1. CurPos[1] \in Blk
    BY <1>13 DEF Discard, KvInv, Typed, CallState, CurPos
  <2> QED
    BY <1>5, <1>13, <2>1 DEF Discard
<1>14. CASE \E r \in Requests : Call(r)
  BY <1>14 DEF Call
<1>15. CASE Deinit
  BY <1>15 DEF Deinit
<1>16. CASE PowerLoss
  <2>1. magic' = magic /\ items' \in TornLogs
    BY <1>16 DEF PowerLoss
  <2>2. ASSUME pc = "save", NEW t \in Torn(SavedItem), items' = Append1(ws, t)
        PROVE  Adds
    <3>1. ws \in Blk /\ SavedItem \in Entry /\ SavedItem.off = EndOf(items[ws])
      BY <2>2, SavedItemFits
    <3>2. t \in Entry /\ t.off = EndOf(items[ws])
      BY <2>2, <3>1, TornItem
    <3> QED
      BY <1>0, <2>1, <2>2, <3>1, <3>2 DEF Append1
  <2>3. ASSUME pc = "gcCopy", gc.i \in DOMAIN items[gc.src],
               NEW t \in Torn(GcCopyOf(items[gc.src][gc.i])), items' = Append1(gc.dst, t)
        PROVE  Adds
    <3> DEFINE e == GcCopyOf(items[gc.src][gc.i])
    <3>1. gc.dst \in Blk /\ gc.i <= Len(items[gc.src])
      <4>1. items[gc.src] \in Seq(Entry) /\ gc.dst \in Blk
        BY <2>3, GcFacts DEF GcPcs
      <4> QED
        BY <2>3, <4>1
    <3>2. e \in Entry /\ e.off = EndOf(items[gc.dst])
      BY <2>3, <3>1, CopyFits
    <3> HIDE DEF e
    <3>3. t \in Entry /\ t.off = EndOf(items[gc.dst])
      BY <2>3, <3>2, TornItem DEF e
    <3> QED
      BY <1>0, <2>1, <2>3, <3>1, <3>3 DEF Append1
  <2> QED
    BY <2>1, <2>2, <2>3 DEF TornLogs
<1> QED
  BY <1>1, <1>2, <1>3, <1>4, <1>6, <1>7, <1>8, <1>9, <1>10, <1>11, <1>12, <1>13, <1>14, <1>15, <1>16
  DEF Next, Boot, Gc, Serve

\* Offsets keep growing along the logs, and a block without magic stays blank.
LEMMA ShapeStep ==
  ASSUME ItemsFit, KvInv, FlashShape, Next
  PROVE  FlashShape'
<1>0. items \in [Blk -> Seq(Entry)]
  BY DEF KvInv, Typed
<1>1. CASE items' = items /\ magic \subseteq magic'
  BY <1>1 DEF FlashShape
<1>2. Increasing(<<>>)
  BY DEF Increasing
<1>3. CASE DstErase \/ GcErase
  <2>1. gc.src \in Blk /\ gc.dst \in Blk
    BY <1>3, GcFacts DEF DstErase, GcErase, GcPcs, RedoPcs
  <2>2. \E b \in Blk : Erase(b)
    BY <1>3, <2>1 DEF DstErase, GcErase
  <2> QED
    BY <1>0, <1>2, <2>2 DEF Erase, FlashShape
<1>4. ASSUME NEW b \in Blk \ magic, items' = [items EXCEPT ![b] = <<>>], magic' = magic \cup {b}
      PROVE  FlashShape'
  BY <1>0, <1>2, <1>4 DEF FlashShape
<1>5. ASSUME NEW c \in Blk, NEW o, magic' = magic,
             items' = [items EXCEPT ![c] = DiscardAt(items[c], o)]
      PROVE  FlashShape'
  <2>1. /\ \A b \in Blk : DOMAIN items'[b] = DOMAIN items[b]
        /\ \A b \in Blk : \A i \in DOMAIN items[b] : items'[b][i].off = items[b][i].off
    <3> DEFINE new == DiscardAt(items[c], o)
    <3>1. /\ new \in Seq(Entry) /\ Len(new) = Len(items[c])
          /\ \A i \in DOMAIN items[c] : new[i].off = items[c][i].off
      BY <1>0, DiscardLog DEF KvInv, LogsContiguous
    <3>2. items'[c] = new /\ \A b \in Blk \ {c} : items'[b] = items[b]
      BY <1>0, <1>5
    <3> HIDE DEF new
    <3>3. DOMAIN new = DOMAIN items[c]
      BY <1>0, <3>1
    <3> QED
      BY <3>1, <3>2, <3>3
  <2>2. items[c] = <<>> => DiscardAt(items[c], o) = <<>>
    BY <1>0, <1>5, DiscardLog DEF KvInv, LogsContiguous
  <2>3. \A b \in Blk : items[b] = <<>> => items'[b] = <<>>
    BY <1>0, <1>5, <2>2
  <2> QED
    BY <1>5, <2>1, <2>3 DEF FlashShape, Increasing
<1>6. ASSUME NEW b \in magic, NEW e \in Entry, e.off = EndOf(items[b]), magic' = magic,
             items' = [items EXCEPT ![b] = Append(items[b], e)]
      PROVE  FlashShape'
  <2>1. b \in Blk
    BY DEF KvInv, Typed
  <2>2. Increasing(Append(items[b], e))
    BY <1>0, <1>6, <2>1, AppendIncreasing DEF FlashShape
  <2>3. items'[b] = Append(items[b], e) /\ \A c \in Blk \ {b} : items'[c] = items[c]
    BY <1>0, <1>6, <2>1
  <2> QED
    BY <1>6, <2>1, <2>2, <2>3 DEF FlashShape
<1> QED
  BY <1>1, <1>3, <1>4, <1>5, <1>6, Writes

----------------------------------------------------------------------------
(* Copies at boot *)

\* kv_item_do_recovery: what one item of the scan does.
LEMMA ScanItemCases ==
  ASSUME KvInv, ScanItem
  PROVE  LET e == items[at.blk][at.i] IN
         /\ at.blk \in Blk \ (gcSrc \cup DstNotDone) /\ at.i \in DOMAIN items[at.blk]
         /\ \/ /\ items' = items
               /\ e.live => e.ok /\ ~Supersedes(at.blk, e, e.prev)
            \/ /\ e.live /\ ~e.ok
               /\ items' = [items EXCEPT ![at.blk] = DiscardAt(items[at.blk], e.off)]
            \/ /\ e.live /\ e.ok /\ Supersedes(at.blk, e, e.prev) /\ e.prev[1] \in Blk
               /\ items' = [items EXCEPT ![e.prev[1]] = DiscardAt(items[e.prev[1]], e.prev[2])]
<1> DEFINE e == items[at.blk][at.i]
<1>1. at.blk \in Blk \ (gcSrc \cup DstNotDone) /\ at.i \in DOMAIN items[at.blk]
  <2>1. at.blk \in Blk /\ items[at.blk] \in Seq(Entry) /\ at.i \in Nat \ {0}
    BY DEF ScanItem, Indexing, KvInv, Typed, Formatted
  <2>2. at.i <= Len(items[at.blk]) /\ at.blk \notin gcSrc \cup DstNotDone
    BY DEF ScanItem, Indexing
  <2> QED
    BY <2>1, <2>2
<1>2. \/ ~e.live /\ items' = items
      \/ e.live /\ ~e.ok /\ items' = Discarded(<<at.blk, e.off>>)
      \/ e.live /\ e.ok /\ Supersedes(at.blk, e, e.prev) /\ items' = Discarded(e.prev)
      \/ e.live /\ e.ok /\ ~Supersedes(at.blk, e, e.prev) /\ items' = items
  BY DEF ScanItem
<1>3. Supersedes(at.blk, e, e.prev) => e.prev[1] \in Blk
  BY DEF Supersedes, ItemsAt
<1>4. Discarded(<<at.blk, e.off>>) = [items EXCEPT ![at.blk] = DiscardAt(items[at.blk], e.off)]
  BY DEF Discarded
<1>5. Discarded(e.prev) = [items EXCEPT ![e.prev[1]] = DiscardAt(items[e.prev[1]], e.prev[2])]
  BY DEF Discarded
<1> QED
  BY <1>1, <1>2, <1>3, <1>4, <1>5

\* The scan repairs the item it stands at: a torn one is discarded, and an
\* update discards the item it supersedes.
LEMMA ItemRepaired ==
  ASSUME KvInv, FlashShape, ScanItem, at.i \in DOMAIN items'[at.blk]
  PROVE  /\ items'[at.blk][at.i].live => items'[at.blk][at.i].ok
         /\ \A c \in Blk : \A j \in DOMAIN items'[c] :
              Rivals(items', at.blk, at.i, c, j) => ~Updates(items', at.blk, at.i, c, j)
<1> DEFINE x == at.blk
           y == at.i
           e == items[x][y]
           new == items'
<1>1. /\ x \in Blk /\ y \in DOMAIN items[x] /\ items \in [Blk -> Seq(Entry)]
      /\ new \in [Blk -> Seq(Entry)] /\ y \in Nat
  <2>1. KvInv'
    BY BuildStep
  <2> QED
    BY <2>1, ScanItemCases DEF KvInv, Typed
<1>2. Shrunk(items, new)
  BY ScanEffect
<1>3. \/ new = items /\ (e.live => e.ok /\ ~Supersedes(x, e, e.prev))
      \/ e.live /\ ~e.ok /\ new = [items EXCEPT ![x] = DiscardAt(items[x], e.off)]
      \/ /\ e.live /\ e.ok /\ Supersedes(x, e, e.prev) /\ e.prev[1] \in Blk
         /\ new = [items EXCEPT ![e.prev[1]] = DiscardAt(items[e.prev[1]], e.prev[2])]
  BY ScanItemCases
<1> HIDE DEF x, y, e, new
<1>6. ASSUME y \in DOMAIN new[x], new[x][y].live PROVE new[x][y].ok /\ new[x][y] = e
  <2>1. new[x][y] = e /\ e.live
    BY <1>1, <1>2, <1>6 DEF Shrunk, e
  <2>2. ASSUME new = [items EXCEPT ![x] = DiscardAt(items[x], e.off)] PROVE FALSE
    <3>1. \A j \in DOMAIN items[x] : items[x][j].off = e.off => ~new[x][j].live
      BY <1>1, <2>2, DiscardShrinks
    <3> QED
      BY <1>1, <1>6, <3>1 DEF e
  <2> QED
    BY <1>3, <2>1, <2>2
<1>7. ASSUME NEW c \in Blk, NEW j \in DOMAIN new[c], y \in DOMAIN new[x],
             Rivals(new, x, y, c, j), Updates(new, x, y, c, j)
      PROVE  FALSE
  <2>1. new[x][y] = e /\ e.live /\ e.ok
    BY <1>6, <1>7 DEF Rivals
  <2>2. j \in DOMAIN items[c] /\ new[c][j] = items[c][j] /\ items[c][j].live /\ items[c][j].key = e.key
    BY <1>2, <1>7, <2>1 DEF Shrunk, Rivals
  <2>3. e.prev = <<c, items[c][j].off>>
    BY <1>7, <2>1, <2>2 DEF Updates
  <2>4. <<c, items[c][j].off>> # <<x, e.off>>
    <3>1. SUFFICES ASSUME c = x, items[c][j].off = e.off PROVE FALSE
      OBVIOUS
    <3>2. j # y
      BY <1>7, <3>1 DEF Rivals
    <3>3. items[x] \in Seq(Entry) /\ Increasing(items[x])
      BY <1>1 DEF FlashShape
    <3>4. j \in Nat /\ j \in DOMAIN items[x] /\ (j < y \/ y < j)
      BY <1>1, <2>2, <3>1, <3>2, <3>3
    <3>5. items[x][j].off \in Nat /\ items[x][y].off \in Nat
      <4>1. items[x][j] \in Entry /\ items[x][y] \in Entry
        BY <1>1, <3>3, <3>4
      <4> QED
        BY <4>1, SizeAssumption DEF Entry
    <3>6. items[x][j].off < items[x][y].off \/ items[x][y].off < items[x][j].off
      BY <1>1, <3>3, <3>4 DEF Increasing
    <3> QED
      BY <3>1, <3>5, <3>6 DEF e
  <2>5. Supersedes(x, e, e.prev)
    <3>1. c # 0
      BY DEF Blk
    <3>2. e.prev # NoPos
      BY <2>3, <3>1 DEF NoPos
    <3>3. items[c][j] \in ItemsAt(<<c, items[c][j].off>>)
      BY <2>2 DEF ItemsAt
    <3> QED
      BY <2>2, <2>3, <2>4, <3>2, <3>3 DEF Supersedes
  <2>6. new = [items EXCEPT ![c] = DiscardAt(items[c], items[c][j].off)]
    BY <1>3, <2>1, <2>3, <2>5
  <2>7. \A i \in DOMAIN items[c] : items[c][i].off = items[c][j].off => ~new[c][i].live
    BY <1>1, <2>6, DiscardShrinks
  <2> QED
    BY <1>7, <2>2, <2>7 DEF Rivals
<1> QED
  BY <1>6, <1>7 DEF x, y, new

\* So the scan can move on.
LEMMA RepairItem ==
  ASSUME KvInv, FlashShape, ScanItem, Recoverable(items, at.blk, at.i)
  PROVE  Recoverable(items', at.blk, at.i + 1)
<1> DEFINE x == at.blk
           y == at.i
           new == items'
<1>1. x \in Blk /\ new \in [Blk -> Seq(Entry)] /\ y \in Nat
  <2>1. KvInv'
    BY BuildStep
  <2> QED
    BY <2>1, ScanItemCases DEF KvInv, Typed
<1>2. Shrunk(items, new)
  BY ScanEffect
<1>3. Recoverable(new, x, y)
  BY <1>2, ShrunkRecoverable
<1>4. y \in DOMAIN new[x] =>
        /\ new[x][y].live => new[x][y].ok
        /\ \A c \in Blk : \A j \in DOMAIN new[c] :
             Rivals(new, x, y, c, j) => ~Updates(new, x, y, c, j)
  BY ItemRepaired
<1> HIDE DEF x, y, new
<1>5. Recoverable(new, x, y + 1)
  BY <1>1, <1>3, <1>4, ScanNextItem
<1> QED
  BY <1>5 DEF x, y, new

\* While a gc waits to be redone, the scan discards nothing that the
\* destination needs its source for.
LEMMA ScanKeepsSource ==
  ASSUME KvInv, FlashShape, ScanItem, Sound(items, Blk \ DstNotDone),
         NEW s \in gcSrc \ DstNotDone, NEW d \in DstNotDone, Mirrored(items, d, s)
  PROVE  Mirrored(items', d, s)
<1> DEFINE x == at.blk
           e == items[x][at.i]
           new == items'
<1>1. /\ x \in Blk \ (gcSrc \cup DstNotDone) /\ at.i \in DOMAIN items[x]
      /\ items \in [Blk -> Seq(Entry)] /\ s \in Blk /\ d \in Blk
  BY ScanItemCases DEF KvInv, Typed, DstNotDone
<1>2. Shrunk(items, new)
  BY ScanEffect
<1>3. \/ new = items
      \/ e.live /\ ~e.ok /\ new = [items EXCEPT ![x] = DiscardAt(items[x], e.off)]
      \/ /\ e.live /\ e.ok /\ Supersedes(x, e, e.prev) /\ e.prev[1] \in Blk
         /\ new = [items EXCEPT ![e.prev[1]] = DiscardAt(items[e.prev[1]], e.prev[2])]
  BY ScanItemCases
<1> HIDE DEF x, e, new
<1>4. new[s] = items[s]
  <2>1. CASE new = items
    BY <2>1
  <2>2. CASE new = [items EXCEPT ![x] = DiscardAt(items[x], e.off)]
    BY <1>1, <2>2
  <2>3. CASE /\ e.live /\ Supersedes(x, e, e.prev) /\ e.prev[1] \in Blk
             /\ new = [items EXCEPT ![e.prev[1]] = DiscardAt(items[e.prev[1]], e.prev[2])]
    <3>1. e.prev[1] # s
      <4> SUFFICES ASSUME e.prev[1] = s PROVE FALSE
        OBVIOUS
      <4>1. PICK j \in DOMAIN items[s] : items[s][j].live /\ items[s][j].key = e.key
        BY <2>3 DEF Supersedes, ItemsAt
      <4>2. Rivals(items, s, j, x, at.i)
        BY <1>1, <2>3, <4>1 DEF Rivals, e
      <4> QED
        BY <1>1, <4>2 DEF Sound, Unique
    <3> QED
      BY <1>1, <2>3, <3>1
  <2> QED
    BY <1>3, <2>1, <2>2, <2>3
<1>5. Mirrored(new, d, s)
  <2> SUFFICES ASSUME NEW j \in DOMAIN new[d], new[d][j].live, new[d][j].ok
               PROVE  \E i \in DOMAIN new[s] : Twins(new[s][i], new[d][j])
    BY DEF Mirrored
  <2>1. j \in DOMAIN items[d] /\ new[d][j] = items[d][j]
    BY <1>1, <1>2 DEF Shrunk
  <2> QED
    BY <1>4, <2>1 DEF Mirrored
<1> QED
  BY <1>5 DEF new

\* A step of the scan.
LEMMA ScanCopies ==
  ASSUME KvInv, FlashShape, GcTags, CopyState, ScanFormat \/ ScanSkip \/ ScanItem \/ ScanEnd
  PROVE  CopyState'
<1>1. /\ pc = "scan" /\ pc' \in {"scan", "incomplete"}
      /\ at.blk \in Blk /\ at.i \in Nat \ {0}
      /\ UNCHANGED <<gcSrc, gcDst, gcDone>>
      /\ Shrunk(items, items')
      /\ \/ /\ FrontBlk' = at.blk + 1 /\ FrontItem' = 1 /\ items' = items
            /\ at.blk \in gcSrc \cup DstNotDone \/ at.i > Len(items[at.blk])
         \/ ScanItem /\ FrontBlk' = at.blk /\ FrontItem' = at.i + 1
  BY ScanEffect
<1>2. items \in [Blk -> Seq(Entry)] /\ FrontBlk = at.blk /\ FrontItem = at.i
  BY <1>1 DEF KvInv, Typed, FrontBlk, FrontItem
<1>3. pc' \notin QuietPcs /\ pc' \notin {"dstErase", "gcCopy", "discard"}
  BY <1>1 DEF QuietPcs, OpPcs
<1>4. ASSUME gcSrc = {} PROVE Recoverable(items', FrontBlk', FrontItem')
  <2>1. Recoverable(items, at.blk, at.i) /\ DstNotDone = {}
    BY <1>1, <1>2, <1>4 DEF CopyState, GcTags, BootScan
  <2>2. CASE FrontBlk' = at.blk + 1 /\ FrontItem' = 1 /\ items' = items /\ at.i > Len(items[at.blk])
    BY <1>1, <1>2, <2>1, <2>2, ScanNextBlock
  <2>3. CASE ScanItem /\ FrontBlk' = at.blk /\ FrontItem' = at.i + 1
    BY <2>1, <2>3, RepairItem
  <2> QED
    BY <1>1, <1>4, <2>1, <2>2, <2>3
<1>5. ASSUME gcSrc # {}
      PROVE  /\ Sound(items', Blk \ DstNotDone)
             /\ \A s \in gcSrc, d \in DstNotDone : Mirrored(items', d, s)
  <2>1. /\ Sound(items, Blk \ DstNotDone)
        /\ \A s \in gcSrc, d \in DstNotDone : Mirrored(items, d, s)
    BY <1>1, <1>5 DEF CopyState, BootScan
  <2>2. Sound(items', Blk \ DstNotDone)
    <3>1. Blk \ DstNotDone \in SUBSET Blk
      OBVIOUS
    <3> QED
      BY <1>1, <2>1, <3>1, ShrunkSound
  <2>3. \A s \in gcSrc : s \notin DstNotDone
    BY <1>1, <1>5 DEF GcTags, BootScan
  <2>4. ASSUME NEW s \in gcSrc, NEW d \in DstNotDone PROVE Mirrored(items', d, s)
    <3>1. CASE items' = items
      BY <2>1, <3>1
    <3>2. CASE ScanItem
      BY <2>1, <2>3, <3>2, ScanKeepsSource
    <3> QED
      BY <1>1, <3>1, <3>2
  <2> QED
    BY <2>2, <2>4
<1>6. DstNotDone' = DstNotDone
  BY <1>1 DEF DstNotDone
<1> QED
  BY <1>1, <1>3, <1>4, <1>5, <1>6 DEF CopyState

\* The rest of ln_kv_init.
LEMMA BootCopies ==
  ASSUME KvInv, FlashShape, GcTags, CopyState, Boot
  PROVE  CopyState'
<1> USE DEF flashVars, tagVars, ramVars, callVars, Goto
<1>0. GcTags' /\ ~StatusError
  BY BootTags
<1>1. CASE PowerUp
  <2>1. /\ pc = "down" /\ pc' = "scan" /\ at' = Start
        /\ UNCHANGED <<items, gcSrc, gcDst, gcDone>>
    BY <1>1 DEF PowerUp
  <2>2. FrontBlk' = 1 /\ FrontItem' = 1 /\ FrontBlk = 1 /\ FrontItem = 1 /\ DstNotDone' = DstNotDone
    BY <2>1 DEF FrontBlk, FrontItem, Start, DstNotDone
  <2> QED
    BY <2>1, <2>2 DEF CopyState, BootScan, QuietPcs, OpPcs
<1>2. CASE ScanFormat \/ ScanSkip \/ ScanItem \/ ScanEnd
  BY <1>2, ScanCopies
<1>3. CASE NothingToRedo
  <2>1. /\ pc = "incomplete" /\ pc' = "locate" /\ items' = items /\ gcSrc = {}
    BY <1>3 DEF NothingToRedo, PendingSrc
  <2>2. Recoverable(items, NBlk + 1, 1)
    BY <2>1 DEF CopyState, FrontBlk, FrontItem, BootScan
  <2>3. Sound(items', Blk)
    BY <2>1, <2>2, ScanComplete
  <2> QED
    BY <2>1, <2>3 DEF CopyState, BootScan
<1>4. CASE RedoOnFresh
  <2>1. /\ pc = "incomplete" /\ pc' = "gcDst" /\ UNCHANGED <<items, gcSrc, gcDst, gcDone>>
    BY <1>4 DEF RedoOnFresh, CallGc
  <2>2. gcSrc # {} /\ DstNotDone = {}
    BY <1>0, <2>1 DEF GcTags, DstNotDone
  <2>3. Sound(items', Blk)
    BY <2>1, <2>2 DEF CopyState, BootScan
  <2> QED
    BY <2>1, <2>3 DEF CopyState, BootScan
<1>5. CASE RedoOnDst
  <2>1. /\ pc = "incomplete" /\ pc' = "dstErase" /\ UNCHANGED <<items, gcSrc, gcDst, gcDone>>
    BY <1>5 DEF RedoOnDst, CallGc
  <2>2. gcSrc = {gc'.src} /\ DstNotDone = {gc'.dst}
    BY <1>0, <2>1 DEF GcTags, DstNotDone
  <2>3. Sound(items', Blk \ {gc'.dst}) /\ Mirrored(items', gc'.dst, gc'.src)
    BY <2>1, <2>2 DEF CopyState, BootScan
  <2> QED
    BY <2>1, <2>3 DEF CopyState, BootScan, QuietPcs, OpPcs
<1>6. CASE DstErase
  <2>1. pc = "dstErase" /\ pc' = "dstMagic" /\ Erase(gc.dst)
    BY <1>6 DEF DstErase
  <2>2. gc.dst \in Blk
    BY <2>1, GcFacts DEF RedoPcs
  <2>3. /\ items'[gc.dst] = <<>> /\ \A c \in Blk \ {gc.dst} : items'[c] = items[c]
    BY <2>1, <2>2, EraseFlash
  <2>4. Sound(items, Blk \ {gc.dst})
    BY <2>1 DEF CopyState
  <2>5. Sound(items', Blk)
    <3>1. DOMAIN items'[gc.dst] = {}
      BY <2>3
    <3>2. Intact(items', Blk)
      BY <2>3, <2>4, <3>1 DEF Sound, Intact
    <3>3. Unique(items', Blk)
      BY <2>3, <2>4, <3>1 DEF Sound, Unique, Rivals
    <3> QED
      BY <3>2, <3>3 DEF Sound
  <2> QED
    BY <2>1, <2>5 DEF CopyState, BootScan
<1>7. CASE DstMagic \/ LocateGc \/ Locate
  <2>1. pc \in QuietPcs /\ pc' \in QuietPcs /\ items' = items
    BY <1>7 DEF DstMagic, LocateGc, Locate, CallGc, QuietPcs, OpPcs
  <2>2. pc' \notin BootScan \cup {"dstErase", "gcCopy", "discard"}
    BY <2>1 DEF QuietPcs, OpPcs, BootScan
  <2> QED
    BY <2>1, <2>2 DEF CopyState
<1> QED
  BY <1>0, <1>1, <1>2, <1>3, <1>4, <1>5, <1>6, <1>7 DEF Boot

\* No call is under way in ln_kv_init.
LEMMA BootFound ==
  ASSUME KvInv, FoundState, Boot
  PROVE  FoundState'
<1> USE DEF flashVars, tagVars, ramVars, callVars, Goto
<1> DEFINE B == BootPcs \cup {"down"}
<1>1. pc \in B /\ cur' = cur
  BY DEF Boot, PowerUp, ScanFormat, ScanSkip, ScanItem, ScanEnd, Indexing, StatusError, NothingToRedo,
         RedoOnFresh, RedoOnDst, DstErase, DstMagic, LocateGc, Locate, BootPcs
<1>2. cur = NoItem
  BY <1>1 DEF FoundState, Setting, BootPcs, GcPcs
<1>3. /\ pc' \in BootPcs \cup {"gcDst", "gcSrc", "idle"}
      /\ pc' \in {"gcDst", "gcSrc"} => gc'.ret # "search"
      /\ pc' # "scan" => at'.blk = 1
  <2>1. CASE PowerUp
    BY <2>1 DEF PowerUp, BootPcs
  <2>2. CASE ScanFormat \/ ScanSkip \/ ScanItem \/ ScanEnd
    BY <2>2 DEF ScanFormat, ScanSkip, ScanItem, ScanEnd, Indexing, NextScan, BootPcs, Start
  <2>3. CASE StatusError \/ NothingToRedo \/ Locate \/ DstErase
    BY <2>3 DEF StatusError, NothingToRedo, Locate, DstErase, BootPcs, FoundState
  <2>4. CASE RedoOnFresh \/ RedoOnDst \/ LocateGc
    BY <2>4 DEF RedoOnFresh, RedoOnDst, LocateGc, CallGc, BootPcs, FoundState
  <2>5. CASE DstMagic
    BY <2>5 DEF DstMagic, FoundState, KvInv, GcState, RedoPcs
  <2> QED
    BY <2>1, <2>2, <2>3, <2>4, <2>5 DEF Boot
<1>4. ~Setting' /\ pc' \notin {"find", "save"}
  BY <1>3 DEF Setting, BootPcs, GcPcs
<1> QED
  BY <1>1, <1>2, <1>3, <1>4 DEF FoundState

----------------------------------------------------------------------------
(* Copies in gc *)

\* kv_do_gc moves the items of the source without losing or doubling one.
LEMMA GcCopies ==
  ASSUME KvInv, CopyState, Gc
  PROVE  CopyState'
<1> USE DEF flashVars, tagVars, ramVars, callVars, Goto
<1>0. pc \in GcPcs
  BY DEF Gc, GcMarkSrc, GcMarkDst, GcCopy, GcErase, GcMagic, GcMarkDone, GcPcs
<1>1. /\ gc \in GcJob /\ gc.src \in Blk /\ gc.dst \in Blk /\ gc.src # gc.dst
      /\ items \in [Blk -> Seq(Entry)]
  BY <1>0, GcFacts
<1>2. ASSUME pc' \in QuietPcs, Sound(items', Blk) PROVE CopyState'
  <2>1. pc' \notin BootScan \cup {"dstErase", "gcCopy", "discard"}
    BY <1>2 DEF QuietPcs, OpPcs, BootScan
  <2> QED
    BY <1>2, <2>1 DEF CopyState
<1>3. CASE GcMarkSrc \/ GcMagic \/ GcMarkDone
  <2>1. pc \in {"gcSrc", "gcMagic", "gcDone"} /\ items' = items
    BY <1>3 DEF GcMarkSrc, GcMagic, GcMarkDone
  <2>2. pc' \in {"gcDst", "gcDone", "search", "locate", "relocate"}
    BY <1>1, <1>3 DEF GcMarkSrc, GcMagic, GcMarkDone, GcJob
  <2>3. pc \in QuietPcs /\ pc' \in QuietPcs
    BY <2>1, <2>2 DEF QuietPcs, OpPcs
  <2> QED
    BY <1>2, <2>1, <2>3 DEF CopyState
<1>4. ASSUME pc' = "gcCopy", Copying(items', gc'.src, gc'.dst, gc'.i) PROVE CopyState'
  BY <1>4 DEF CopyState, QuietPcs, OpPcs, BootScan
<1>5. CASE GcMarkDst
  <2>1. pc = "gcDst" /\ pc' = "gcCopy" /\ UNCHANGED <<items, gc>>
    BY <1>5 DEF GcMarkDst
  <2>2. items[gc.dst] = <<>> /\ gc.i = 1 /\ Sound(items, Blk)
    BY <2>1 DEF KvInv, GcState, CopyState, QuietPcs
  <2>3. Copying(items, gc.src, gc.dst, 1)
    BY <1>1, <2>2, CopyStarts
  <2> QED
    BY <1>4, <2>1, <2>2, <2>3
<1>6. CASE GcCopy
  <2> DEFINE e == items[gc.src][gc.i]
             c == GcCopyOf(e)
  <2>1. pc = "gcCopy" /\ pc' = "gcCopy" /\ gc.i <= Len(items[gc.src]) /\ gc' = [gc EXCEPT !.i = @ + 1]
    BY <1>6 DEF GcCopy
  <2>2. gc'.src = gc.src /\ gc'.dst = gc.dst /\ gc'.i = gc.i + 1
    BY <1>1, <2>1 DEF GcJob
  <2>3. gc.i \in DOMAIN items[gc.src]
    <3>1. items[gc.src] \in Seq(Entry) /\ gc.i \in Nat \ {0}
      BY <1>1 DEF GcJob
    <3> QED
      BY <2>1, <3>1
  <2>4. Copying(items, gc.src, gc.dst, gc.i)
    BY <2>1 DEF CopyState
  <2>5. CASE e.live
    <3>1. items' = [items EXCEPT ![gc.dst] = Append(items[gc.dst], c)]
      BY <1>6, <2>5 DEF GcCopy, Append1
    <3>2. c \in Entry /\ c = [e EXCEPT !.off = Cap - idx.free[gc.dst]]
      BY <2>1, CopyFits DEF GcCopyOf
    <3>3. Copying(items', gc.src, gc.dst, gc.i + 1)
      BY <1>1, <2>3, <2>4, <2>5, <3>1, <3>2, CopyAdds
    <3> QED
      BY <1>4, <2>1, <2>2, <3>3
  <2>6. CASE ~e.live
    <3>1. items' = items
      BY <1>6, <2>6 DEF GcCopy
    <3>2. Copying(items, gc.src, gc.dst, gc.i + 1)
      BY <1>1, <2>3, <2>4, <2>6, CopyPasses
    <3> QED
      BY <1>4, <2>1, <2>2, <3>1, <3>2
  <2> QED
    BY <2>5, <2>6
<1>7. CASE GcErase
  <2>1. /\ pc = "gcCopy" /\ pc' = "gcMagic" /\ gc.i > Len(items[gc.src])
        /\ items' = [items EXCEPT ![gc.src] = <<>>]
    BY <1>7 DEF GcErase, Erase
  <2>2. Copying(items, gc.src, gc.dst, gc.i) /\ gc.i \in Nat
    BY <1>1, <2>1 DEF CopyState, GcJob
  <2>3. Sound(items', Blk)
    BY <1>1, <2>1, <2>2, CopyEnds
  <2> QED
    BY <1>2, <2>1, <2>3 DEF QuietPcs
<1> QED
  BY <1>3, <1>5, <1>6, <1>7 DEF Gc

\* gc brings no key into the store.
LEMMA GcFound ==
  ASSUME KvInv, FoundState, Gc
  PROVE  FoundState'
<1> USE DEF flashVars, tagVars, ramVars, callVars, Goto
<1>0. pc \in GcPcs /\ UNCHANGED <<req, cur, at>>
  BY DEF Gc, GcMarkSrc, GcMarkDst, GcCopy, GcErase, GcMagic, GcMarkDone, GcPcs
<1>1. /\ gc \in GcJob /\ gc.src \in Blk /\ gc.dst \in Blk
      /\ items \in [Blk -> Seq(Entry)]
  BY <1>0, GcFacts
<1>2. \/ pc' = gc.ret
      \/ pc' \in GcPcs /\ gc'.ret = gc.ret
  <2>1. CASE GcCopy
    BY <1>1, <2>1 DEF GcCopy, GcPcs, GcJob
  <2>2. CASE GcMarkSrc \/ GcMarkDst \/ GcErase \/ GcMagic \/ GcMarkDone
    BY <2>2 DEF GcMarkSrc, GcMarkDst, GcErase, GcMagic, GcMarkDone, GcPcs
  <2> QED
    BY <2>1, <2>2 DEF Gc
<1>3. gc.ret \in {"search", "locate", "relocate"}
  BY <1>1 DEF GcJob
<1>4. Setting' <=> Setting
  BY <1>0, <1>2, <1>3 DEF Setting, GcPcs
<1>5. /\ pc' \notin {"find", "save", "scan", "fix"} /\ pc \notin {"scan", "find", "fix", "discard"}
      /\ pc' # "discard"
  BY <1>0, <1>2, <1>3 DEF GcPcs
<1>6. ASSUME \A b \in Blk : NoneIn(items, b, req.key)
      PROVE  \A b \in Blk : NoneIn(items', b, req.key)
  <2>1. CASE items' = items
    BY <1>6, <2>1
  <2>2. CASE GcCopy /\ items' # items
    <3> DEFINE e == items[gc.src][gc.i]
    <3>1. pc = "gcCopy" /\ gc.i <= Len(items[gc.src])
      BY <2>2 DEF GcCopy
    <3>2. gc.i \in DOMAIN items[gc.src]
      <4>1. items[gc.src] \in Seq(Entry) /\ gc.i \in Nat \ {0}
        BY <1>1 DEF GcJob
      <4> QED
        BY <3>1, <4>1
    <3>3. e.live /\ items' = [items EXCEPT ![gc.dst] = Append(items[gc.dst], GcCopyOf(e))]
      BY <2>2 DEF GcCopy, Append1
    <3>4. e \in Entry /\ GcCopyOf(e) \in Entry
      BY <3>1, CopyFits
    <3>5. GcCopyOf(e).key = e.key
      BY <3>4 DEF GcCopyOf, Entry
    <3>6. e.key # req.key
      BY <1>1, <1>6, <3>2, <3>3 DEF NoneIn
    <3> HIDE DEF e
    <3> DEFINE n == Len(items[gc.dst]) + 1
    <3>7. /\ \A b \in Blk \ {gc.dst} : items'[b] = items[b]
          /\ DOMAIN items'[gc.dst] = DOMAIN items[gc.dst] \cup {n}
          /\ items'[gc.dst][n] = GcCopyOf(e)
          /\ \A i \in DOMAIN items[gc.dst] : items'[gc.dst][i] = items[gc.dst][i]
      BY <1>1, <3>3, <3>4, AppendAdds
    <3> HIDE DEF n
    <3> QED
      BY <1>6, <3>5, <3>6, <3>7 DEF NoneIn
  <2>3. CASE GcErase
    <3>1. items' = [items EXCEPT ![gc.src] = <<>>]
      BY <2>3 DEF GcErase, Erase
    <3>2. Shrunk(items, items')
      BY <1>1, <3>1, EraseShrinks
    <3> QED
      BY <1>6, <3>2 DEF NoneIn, Shrunk
  <2> QED
    BY <2>1, <2>2, <2>3 DEF Gc, GcMarkSrc, GcMarkDst, GcMagic, GcMarkDone
<1> QED
  BY <1>0, <1>4, <1>5, <1>6 DEF FoundState

----------------------------------------------------------------------------
(* Copies in the calls *)

\* A set of numbers that is not empty has a least one.
LEMMA LeastNumber ==
  ASSUME NEW S, S \subseteq Nat, S # {}
  PROVE  \E x \in S : \A y \in S : x <= y
<1> DEFINE R == OpToRel(<, Nat)
<1>1. IsWellFoundedOn(R, Nat)
  BY NatLessThanWellFounded
<1>2. \A x, y \in Nat : x < y => <<x, y>> \in R
  BY DEF OpToRel
<1> HIDE DEF R
<1>3. PICK x \in S : \A y \in S : ~(<<y, x>> \in R)
  BY <1>1, WFMin
<1>4. ASSUME NEW y \in S PROVE x <= y
  <2>1. x \in Nat /\ y \in Nat /\ ~(<<y, x>> \in R)
    BY <1>3
  <2>2. ~(y < x)
    BY <1>2, <2>1
  <2> QED
    BY <2>1, <2>2
<1> QED
  BY <1>4

\* kv_item_find misses no item: a walk without a match has passed none.
LEMMA NoMatchNoItem ==
  ASSUME items \in [Blk -> Seq(Entry)], NEW b \in Blk, Matches(b, HasKey) = {}
  PROVE  NoneIn(items, b, req.key)
<1> DEFINE S == {i \in DOMAIN items[b] : items[b][i].live /\ items[b][i].key = req.key}
<1>1. items[b] \in Seq(Entry) /\ S \subseteq Nat
  <2>1. items[b] \in Seq(Entry)
    OBVIOUS
  <2> QED
    BY <2>1
<1>2. ASSUME S # {} PROVE FALSE
  <2>1. PICK i \in S : \A j \in S : i <= j
    BY <1>1, <1>2, LeastNumber
  <2>2. i \in DOMAIN items[b] /\ i \in Nat /\ items[b][i].live /\ items[b][i].key = req.key
    BY <1>1, <2>1
  <2>3. ASSUME NEW j \in 1 .. i - 1, items[b][j].live, items[b][j].key = req.key PROVE FALSE
    <3>1. j \in DOMAIN items[b]
      BY <1>1, <2>2
    <3> QED
      BY <2>1, <2>2, <2>3, <3>1
  <2>4. i \in Matches(b, HasKey)
    BY <2>2, <2>3 DEF Matches, HasKey
  <2> QED
    BY <2>4
<1> QED
  BY <1>2 DEF NoneIn

\* A call writes an update behind the item it replaces, and discards that one
\* at last.
LEMMA ServeCopies ==
  ASSUME ItemsFit, KvInv, CopyState, FoundState, Serve \/ \E r \in Requests : Call(r)
  PROVE  CopyState'
<1> USE DEF flashVars, tagVars, ramVars, callVars, Goto, Return, Refused, Chosen, CallGc
<1>0. items \in [Blk -> Seq(Entry)]
  BY DEF KvInv, Typed
<1>1. ASSUME pc' \in QuietPcs, Sound(items', Blk) PROVE CopyState'
  <2>1. pc' \notin BootScan \cup {"dstErase", "gcCopy", "discard"}
    BY <1>1 DEF QuietPcs, OpPcs, BootScan
  <2> QED
    BY <1>1, <2>1 DEF CopyState
<1>2. ASSUME pc' = "discard", Replacing(items', CurPos') PROVE CopyState'
  BY <1>2 DEF CopyState, QuietPcs, OpPcs, BootScan
<1>3. CASE Save
  <2>1. /\ pc = "save" /\ items' = [items EXCEPT ![ws] = Append(items[ws], SavedItem)]
        /\ IF cur = NoItem THEN pc' = "idle" ELSE pc' = "discard" /\ cur' = cur
    BY <1>3 DEF Save, Append1
  <2>2. ws \in Blk /\ SavedItem \in Entry
    BY <2>1, SavedItemFits
  <2>3. SavedItem.live /\ SavedItem.ok /\ SavedItem.key = req.key /\ SavedItem.prev = CurPos
    BY DEF SavedItem, NewItem
  <2>4. Sound(items, Blk)
    BY <2>1 DEF CopyState, QuietPcs, OpPcs
  <2>5. CASE cur = NoItem
    <3>1. \A b \in Blk : NoneIn(items, b, req.key)
      BY <2>1, <2>5 DEF FoundState, Setting
    <3>2. Blk \in SUBSET Blk
      OBVIOUS
    <3>3. Sound(items', Blk)
      BY <1>0, <2>1, <2>2, <2>3, <2>4, <3>1, <3>2, WriteNewKey
    <3> QED
      BY <1>1, <2>1, <2>5, <3>3 DEF QuietPcs, OpPcs
  <2>6. CASE cur # NoItem
    <3>1. HasAt(items, SavedItem.prev, SavedItem.key)
      BY <2>1, <2>3, <2>6 DEF FoundState
    <3>2. Replacing(items', SavedItem.prev)
      BY <1>0, <2>1, <2>2, <2>3, <2>4, <3>1, WriteUpdate
    <3>3. CurPos' = CurPos
      BY <2>1, <2>6 DEF CurPos
    <3> QED
      BY <1>2, <2>1, <2>3, <2>6, <3>2, <3>3
  <2> QED
    BY <2>5, <2>6
<1>4. CASE Discard
  <2>1. /\ pc = "discard" /\ pc' = "idle"
        /\ items' = [items EXCEPT ![CurPos[1]] = DiscardAt(items[CurPos[1]], CurPos[2])]
    BY <1>4 DEF Discard, Discarded
  <2>2. CurPos = <<cur.blk, cur.ent.off>> /\ cur.blk \in Blk
    BY <2>1 DEF KvInv, Typed, CallState, CurPos
  <2>3. Replacing(items, <<cur.blk, cur.ent.off>>)
    BY <2>1, <2>2 DEF CopyState
  <2>4. items' = [items EXCEPT ![cur.blk] = DiscardAt(items[cur.blk], cur.ent.off)]
    BY <2>1, <2>2
  <2>5. Sound(items', Blk)
    BY <1>0, <2>2, <2>3, <2>4, DiscardOld
  <2> QED
    BY <1>1, <2>1, <2>5 DEF QuietPcs, OpPcs
<1>5. ASSUME items' = items, pc \in QuietPcs, pc' \in QuietPcs PROVE CopyState'
  BY <1>1, <1>5 DEF CopyState
<1>6. CASE FindSkip \/ FixSkip \/ FindMiss \/ FixMiss
  BY <1>5, <1>6 DEF FindSkip, FixSkip, FindMiss, FixMiss, WalkSkip, WalkMiss, QuietPcs, OpPcs
<1>7. CASE FindHit
  <2>1. items' = items /\ pc = "find" /\ pc' \in {"idle", "enter", "discard"}
    BY <1>7 DEF FindHit, WalkHit
  <2>2. CASE pc' = "discard"
    <3>1. Sound(items, Blk)
      BY <2>1 DEF CopyState, QuietPcs, OpPcs
    <3>2. Replacing(items', CurPos')
      BY <2>1, <3>1 DEF Sound, Unique, Replacing
    <3> QED
      BY <1>2, <2>2, <3>2
  <2>3. CASE pc' # "discard"
    BY <1>5, <2>1, <2>3 DEF QuietPcs, OpPcs
  <2> QED
    BY <2>2, <2>3
<1>8. CASE FixHit
  BY <1>5, <1>8 DEF FixHit, WalkHit, QuietPcs, OpPcs
<1>9. CASE WalkNone \/ Enter \/ EnterRefused
  BY <1>5, <1>9 DEF WalkNone, Enter, EnterRefused, QuietPcs, OpPcs
<1>10. CASE SearchWorkspace \/ SearchInuse \/ SearchFull \/ SearchFresh
  BY <1>5, <1>10 DEF SearchWorkspace, SearchInuse, SearchFull, SearchFresh, NoRoom, QuietPcs, OpPcs
<1>11. CASE SearchGc
  BY <1>5, <1>11 DEF SearchGc, NoRoom, QuietPcs, OpPcs
<1>12. CASE \E r \in Requests : Call(r)
  BY <1>5, <1>12 DEF Call, QuietPcs, OpPcs
<1> QED
  BY <1>3, <1>4, <1>6, <1>7, <1>8, <1>9, <1>10, <1>11, <1>12 DEF Serve

\* The end of a call.
LEMMA ReturnFound ==
  ASSUME NEW code, NEW v, Return(code, v)
  PROVE  FoundState'
<1>1. pc' = "idle" /\ cur' = NoItem /\ at'.blk = 1
  BY DEF Return, Goto, Start
<1> QED
  BY <1>1 DEF FoundState, Setting, GcPcs

\* kv_item_find: the blocks it has left have no item with the key, and what it
\* returns is one.
LEMMA FindFound ==
  ASSUME KvInv, FoundState, FindSkip \/ FindMiss \/ FindHit \/ WalkNone
  PROVE  FoundState'
<1> USE DEF flashVars, tagVars, ramVars, callVars, Goto
<1>0. /\ items \in [Blk -> Seq(Entry)] /\ at \in [blk : 1 .. NBlk + 1, i : Nat \ {0}]
      /\ req.key = req.key
  BY DEF KvInv, Typed
<1>1. /\ pc \in {"find", "fix"} /\ gc = NoGc /\ items' = items /\ gc' = gc
      /\ pc \notin GcPcs
  BY DEF FindSkip, WalkSkip, FindMiss, WalkMiss, FindHit, WalkHit, WalkNone, KvInv, GcState, GcPcs, RedoPcs
<1>2. pc = "find" => cur = NoItem /\ \A b \in Blk : b < at.blk => NoneIn(items, b, req.key)
  BY DEF FoundState, Setting, GcPcs
<1>3. CASE FindSkip \/ FindMiss
  <2>1. /\ pc = "find" /\ pc' = "find" /\ at' = [blk |-> at.blk + 1, i |-> 1]
        /\ at.blk \in idx.fresh \/ (at.blk \in Blk /\ Matches(at.blk, HasKey) = {})
        /\ UNCHANGED <<req, cur>>
    <3>1. CASE FindSkip
      BY <3>1 DEF FindSkip, WalkSkip, NextBlk
    <3>2. CASE FindMiss
      <4>1. pc = "find" /\ at.blk \in Blk \ idx.fresh /\ NextBlk /\ UNCHANGED <<pc, req, cur>>
        BY <3>2 DEF FindMiss, WalkMiss
      <4>2. Matches(at.blk, HasKey) = {}
        BY <3>2 DEF FindMiss, WalkMiss
      <4> QED
        BY <4>1, <4>2 DEF NextBlk
    <3> QED
      BY <1>3, <3>1, <3>2
  <2>2. at.blk \in Blk /\ NoneIn(items, at.blk, req.key)
    <3>1. CASE at.blk \in idx.fresh
      <4>1. at.blk \in Blk /\ items[at.blk] = <<>>
        BY <1>1, <3>1, FreshRoom
      <4> QED
        BY <4>1 DEF NoneIn
    <3>2. CASE at.blk \in Blk /\ Matches(at.blk, HasKey) = {}
      BY <1>0, <3>2, NoMatchNoItem
    <3> QED
      BY <2>1, <3>1, <3>2
  <2>3. ASSUME NEW b \in Blk, b < at'.blk PROVE b < at.blk \/ b = at.blk
    BY <2>1, <2>2, <2>3 DEF Blk
  <2>4. \A b \in Blk : b < at'.blk => NoneIn(items', b, req'.key)
    BY <1>1, <1>2, <2>1, <2>2, <2>3
  <2> QED
    BY <1>2, <2>1, <2>4 DEF FoundState, Setting, GcPcs
<1>4. CASE FindHit
  <2>1. PICK i \in Matches(at.blk, HasKey) :
          LET e == items[at.blk][i] IN
            \/ Return("ok", e.val)
            \/ Return("ok", Absent)
            \/ /\ cur' = [blk |-> at.blk, ent |-> e]
               /\ at' = Start
               /\ pc' = IF req.type = "set" THEN "enter" ELSE "discard"
               /\ UNCHANGED <<req, res>>
    BY <1>4 DEF FindHit
  <2>2. at.blk \in Blk /\ items[at.blk][i].live /\ items[at.blk][i].key = req.key
    BY <1>4, <2>1 DEF FindHit, Matches, HasKey
  <2>3. CASE Return("ok", items[at.blk][i].val) \/ Return("ok", Absent)
    BY <2>3, ReturnFound
  <2>4. CASE /\ cur' = [blk |-> at.blk, ent |-> items[at.blk][i]] /\ at' = Start
             /\ pc' = IF req.type = "set" THEN "enter" ELSE "discard"
             /\ UNCHANGED <<req, res>>
    <3>1. cur' # NoItem /\ cur'.ent = items[at.blk][i] /\ at'.blk = 1 /\ pc' \in {"enter", "discard"}
      <4>1. at.blk # 0
        BY <2>2 DEF Blk
      <4> QED
        BY <2>4, <4>1 DEF NoItem, Start
    <3> QED
      BY <2>2, <2>4, <3>1 DEF FoundState, Setting, GcPcs
  <2> QED
    BY <2>1, <2>3, <2>4
<1>5. CASE WalkNone
  <2>1. at.blk > NBlk
    BY <1>5 DEF WalkNone
  <2>2. CASE pc = "find" /\ req.type = "set"
    <3>1. pc' = "enter" /\ at' = Start /\ UNCHANGED <<req, cur>>
      BY <1>5, <2>2 DEF WalkNone
    <3>2. \A b \in Blk : b < at.blk
      BY <1>0, <2>1, SizeAssumption DEF Blk
    <3>3. \A b \in Blk : NoneIn(items', b, req'.key)
      BY <1>1, <1>2, <2>2, <3>1, <3>2
    <3> QED
      BY <1>2, <2>2, <3>1, <3>3 DEF FoundState, Setting, GcPcs, Start
  <2>3. CASE ~(pc = "find" /\ req.type = "set")
    BY <1>5, <2>3, ReturnFound DEF WalkNone
  <2> QED
    BY <2>2, <2>3
<1> QED
  BY <1>3, <1>4, <1>5

\* kv_item_save gets to the write with the item to replace at hand, moved by
\* gc or not.
LEMMA SaveFound ==
  ASSUME KvInv, FoundState,
         \/ Enter \/ EnterRefused \/ SearchWorkspace \/ SearchInuse \/ SearchFull \/ SearchFresh
         \/ SearchGc \/ FixSkip \/ FixMiss \/ FixHit \/ Save \/ Discard
  PROVE  FoundState'
<1> USE DEF flashVars, tagVars, ramVars, callVars, Goto
<1>0. /\ items \in [Blk -> Seq(Entry)] /\ cur \in [blk : Blk, ent : Entry] \cup {NoItem}
  BY DEF KvInv, Typed
<1>1. ASSUME pc \in {"enter", "search", "fix", "save"}, UNCHANGED <<items, req, cur>>,
             pc' \in {"enter", "search", "fix"} \/ (pc' \in GcPcs /\ gc'.ret = "search"),
             pc' # "fix" => at'.blk = 1
      PROVE  FoundState'
  <2>1. Setting /\ Setting' /\ pc' \notin {"find", "save", "scan"}
    BY <1>1 DEF Setting, GcPcs
  <2> QED
    BY <1>1, <2>1 DEF FoundState
<1>2. CASE Enter
  BY <1>1, <1>2 DEF Enter, FoundState
<1>3. CASE SearchGc
  <2>1. /\ pc = "search" /\ UNCHANGED <<items, req, cur, at>> /\ pc' = "gcSrc" /\ gc'.ret = "search"
    BY <1>3 DEF SearchGc, NoRoom, CallGc
  <2> QED
    BY <1>1, <2>1 DEF FoundState, GcPcs
<1>4. CASE FixSkip \/ FixMiss
  BY <1>1, <1>4 DEF FixSkip, FixMiss, WalkSkip, WalkMiss
<1>5. ASSUME pc = "search", Chosen, items' = items PROVE FoundState'
  <2>1. UNCHANGED <<req, cur, at>> /\ pc' = IF CurMoved THEN "fix" ELSE "save"
    BY <1>5 DEF Chosen
  <2>2. CASE CurMoved
    BY <1>1, <1>5, <2>1, <2>2
  <2>3. CASE ~CurMoved
    <3>1. Setting /\ Setting' /\ pc' = "save" /\ at'.blk = 1
      BY <1>5, <2>1, <2>3 DEF Setting, FoundState
    <3>2. ASSUME cur # NoItem PROVE HasAt(items, CurPos, req.key)
      <4>1. cur.ent.live /\ cur.ent.key = req.key /\ cur.ent \in ItemsAt(CurPos)
        BY <2>3, <3>1, <3>2 DEF FoundState, CurMoved
      <4>2. CurPos = <<cur.blk, cur.ent.off>> /\ cur.blk \in Blk
        BY <1>0, <3>2 DEF CurPos
      <4>3. PICK i \in DOMAIN items[cur.blk] : cur.ent = items[cur.blk][i]
        BY <4>1, <4>2 DEF ItemsAt
      <4> QED
        BY <4>1, <4>2, <4>3 DEF HasAt
    <3>3. CurPos' = CurPos
      BY <2>1 DEF CurPos
    <3> QED
      BY <1>5, <2>1, <3>1, <3>2, <3>3 DEF FoundState
  <2> QED
    BY <2>2, <2>3
<1>6. CASE SearchWorkspace \/ SearchInuse
  BY <1>5, <1>6 DEF SearchWorkspace, SearchInuse
<1>7. CASE SearchFresh
  <2>1. pc = "search" /\ items' = items /\ (Refused \/ Chosen)
    BY <1>7 DEF SearchFresh, NoRoom
  <2> QED
    BY <1>5, <2>1, ReturnFound DEF Refused
<1>8. CASE SearchFull \/ EnterRefused \/ Discard
  BY <1>8, ReturnFound DEF SearchFull, EnterRefused, Refused, Discard
<1>9. CASE Save
  <2>1. CASE cur = NoItem
    BY <1>9, <2>1, ReturnFound DEF Save
  <2>2. CASE cur # NoItem
    <3>1. pc = "save" /\ pc' = "discard" /\ UNCHANGED <<cur, at, req>>
      BY <1>9, <2>2 DEF Save
    <3> QED
      BY <3>1 DEF FoundState, Setting, GcPcs
  <2> QED
    BY <2>1, <2>2
<1>10. CASE FixHit
  <2>1. PICK i \in Matches(at.blk, SameItem) :
          cur' = [blk |-> at.blk, ent |-> [cur.ent EXCEPT !.off = items[at.blk][i].off]]
    BY <1>10 DEF FixHit
  <2>2. /\ pc = "fix" /\ pc' = "save" /\ at' = Start /\ req' = req /\ items' = items /\ at.blk \in Blk
    BY <1>10 DEF FixHit, WalkHit
  <2>3. /\ i \in DOMAIN items[at.blk] /\ items[at.blk][i].live /\ items[at.blk][i].key = req.key
    BY <2>1 DEF Matches, SameItem
  <2>4. cur # NoItem /\ cur.ent.live /\ cur.ent.key = req.key /\ cur.ent \in Entry
    <3>1. cur # NoItem
      BY <2>2 DEF KvInv, CallState
    <3> QED
      BY <1>0, <2>2, <3>1 DEF FoundState, Setting
  <2>5. /\ cur' # NoItem /\ cur'.blk = at.blk /\ cur'.ent.off = items[at.blk][i].off
        /\ cur'.ent.live /\ cur'.ent.key = req.key
    <3>1. at.blk # 0
      BY <2>2 DEF Blk
    <3> QED
      BY <2>1, <2>4, <3>1 DEF NoItem, Entry
  <2>6. HasAt(items', CurPos', req'.key)
    <3>1. CurPos' = <<at.blk, items[at.blk][i].off>>
      BY <2>5 DEF CurPos
    <3> QED
      BY <2>2, <2>3, <3>1 DEF HasAt
  <2> QED
    BY <2>2, <2>5, <2>6 DEF FoundState, Setting, Start
<1> QED
  BY <1>2, <1>3, <1>4, <1>6, <1>7, <1>8, <1>9, <1>10

\* The start of a call.
LEMMA CallFound ==
  ASSUME KvInv, FoundState, \E r \in Requests : Call(r)
  PROVE  FoundState'
<1>1. pc = "idle" /\ pc' = "find" /\ UNCHANGED <<at, cur>>
  BY DEF Call, Goto
<1>2. at.blk = 1 /\ cur = NoItem
  BY <1>1 DEF FoundState, Setting, GcPcs
<1>3. \A b \in Blk : ~(b < 1)
  BY DEF Blk
<1> QED
  BY <1>1, <1>2, <1>3 DEF FoundState, Setting, GcPcs

----------------------------------------------------------------------------
(* Copies after a power loss *)

\* A torn item is not taken for an intact one.
LEMMA TornIsBad ==
  ASSUME NEW e \in Entry, NEW t \in Torn(e)
  PROVE  ~(t.live /\ t.ok)
<1>1. CASE t = DeadItem(e.off, Hdr)
  BY <1>1 DEF DeadItem
<1>2. ASSUME NEW k, t = [e EXCEPT !.ok = FALSE, !.key = k, !.val = Garbage] PROVE ~t.ok
  BY <1>2 DEF Entry
<1> QED
  BY <1>1, <1>2 DEF Torn

\* Outside GcInDoubt a power loss leaves copies that ln_kv_init can recover.
LEMMA LossCopies ==
  ASSUME ItemsFit, KvInv, GcTags, CopyState, ~AnyLoss, PowerLoss \/ Deinit
  PROVE  CopyState'
<1> USE DEF Goto, flashVars, tagVars
<1>1. /\ pc' = "down" /\ FrontBlk' = 1 /\ FrontItem' = 1
      /\ UNCHANGED <<gcSrc, gcDst, gcDone>> /\ ~GcInDoubt
      /\ pc \in Pcs /\ pc # "down"
      /\ items' = items \/ items' \in TornLogs
  BY DEF PowerLoss, Deinit, Halt, GcInDoubt, FrontBlk, FrontItem, KvInv, Typed
<1>2. items \in [Blk -> Seq(Entry)] /\ items' \in [Blk -> Seq(Entry)] /\ DstNotDone' = DstNotDone
  <2>1. KvInv'
    BY LossStep
  <2> QED
    BY <1>1, <2>1 DEF KvInv, Typed, DstNotDone
<1>3. ASSUME gcSrc = {}, Recoverable(items', 1, 1) PROVE CopyState'
  BY <1>1, <1>3 DEF CopyState, BootScan, QuietPcs, OpPcs
<1>4. ASSUME gcSrc # {}, Sound(items', Blk \ DstNotDone),
             \A s \in gcSrc, d \in DstNotDone : Mirrored(items', d, s)
      PROVE  CopyState'
  BY <1>1, <1>2, <1>4 DEF CopyState, BootScan, QuietPcs, OpPcs
<1>5. pc \notin {"save", "gcCopy"} => items' = items
  BY <1>1 DEF TornLogs
<1>6. CASE pc \in (OpPcs \ {"discard"}) \cup {"locate", "relocate", "gcSrc"}
  <2>1. Sound(items, Blk) /\ gcSrc = {}
    BY <1>6 DEF CopyState, QuietPcs, GcTags
  <2>2. CASE items' = items
    BY <1>3, <2>1, <2>2, SoundIsRecoverable
  <2>3. CASE items' # items
    <3>1. pc = "save" /\ \E t \in Torn(SavedItem) : items' = Append1(ws, t)
      BY <1>1, <1>6, <2>3 DEF TornLogs, OpPcs
    <3>2. PICK t \in Torn(SavedItem) : items' = Append1(ws, t)
      BY <3>1
    <3>3. ws \in Blk /\ SavedItem \in Entry
      BY <3>1, SavedItemFits
    <3>4. t \in Entry /\ ~(t.live /\ t.ok)
      BY <3>2, <3>3, TornItem, TornIsBad
    <3>5. items' = [items EXCEPT ![ws] = Append(items[ws], t)]
      BY <3>2 DEF Append1
    <3>6. Recoverable(items', 1, 1)
      BY <1>2, <2>1, <3>3, <3>4, <3>5, TornIsRecoverable
    <3> QED
      BY <1>3, <2>1, <3>6
  <2> QED
    BY <2>2, <2>3
<1>7. CASE pc = "discard"
  <2>1. Replacing(items, CurPos) /\ gcSrc = {} /\ items' = items
    BY <1>5, <1>7 DEF CopyState, GcTags, OpPcs
  <2> QED
    BY <1>2, <1>3, <2>1, UpdateIsRecoverable
<1>8. CASE pc \in {"gcDst", "dstMagic"}
  <2>1. Sound(items, Blk) /\ gcSrc # {} /\ DstNotDone = {} /\ items' = items
    BY <1>5, <1>8 DEF CopyState, QuietPcs, GcTags
  <2>2. Sound(items', Blk \ DstNotDone)
    BY <2>1
  <2> QED
    BY <1>4, <2>1, <2>2
<1>9. CASE pc = "dstErase"
  <2>1. /\ Sound(items, Blk \ {gc.dst}) /\ Mirrored(items, gc.dst, gc.src) /\ items' = items
        /\ gcSrc = {gc.src} /\ DstNotDone = {gc.dst}
    BY <1>5, <1>9 DEF CopyState, GcTags
  <2> QED
    BY <1>4, <2>1
<1>10. CASE pc = "gcCopy"
  <2>1. /\ gc.src \in Blk /\ gc.dst \in Blk /\ gc.src # gc.dst
    BY <1>10, GcFacts DEF GcPcs
  <2>2. gcSrc = {gc.src} /\ DstNotDone = {gc.dst} /\ Copying(items, gc.src, gc.dst, gc.i)
    BY <1>1, <1>10 DEF GcTags, GcInDoubt, CopyState
  <2>3. \/ items' = items
        \/ \E t \in Entry : ~(t.live /\ t.ok) /\ items' = [items EXCEPT ![gc.dst] = Append(items[gc.dst], t)]
    <3>1. SUFFICES ASSUME items' # items
                   PROVE  \E t \in Entry : /\ ~(t.live /\ t.ok)
                                           /\ items' = [items EXCEPT ![gc.dst] = Append(items[gc.dst], t)]
      OBVIOUS
    <3>2. PICK t \in Torn(GcCopyOf(items[gc.src][gc.i])) :
            gc.i \in DOMAIN items[gc.src] /\ items' = Append1(gc.dst, t)
      BY <1>1, <1>10, <3>1 DEF TornLogs
    <3>3. gc.i <= Len(items[gc.src])
      <4>1. items[gc.src] \in Seq(Entry)
        BY <1>2, <2>1
      <4> QED
        BY <3>2, <4>1
    <3>4. GcCopyOf(items[gc.src][gc.i]) \in Entry
      BY <1>10, <3>3, CopyFits
    <3>5. t \in Entry /\ ~(t.live /\ t.ok)
      BY <3>2, <3>4, TornItem, TornIsBad
    <3> QED
      BY <3>2, <3>5 DEF Append1
  <2>4. Sound(items', Blk \ {gc.dst}) /\ Mirrored(items', gc.dst, gc.src)
    BY <1>2, <2>1, <2>2, <2>3, CopyInterrupted
  <2> QED
    BY <1>4, <2>2, <2>4
<1>11. CASE pc \in {"scan", "incomplete"}
  <2>1. items' = items
    BY <1>5, <1>11
  <2>2. CASE gcSrc = {}
    <3>1. Recoverable(items, FrontBlk, FrontItem)
      BY <1>11, <2>2 DEF CopyState, BootScan
    <3>2. Recoverable(items, 1, 1)
      BY <1>2, <3>1, ScanAgain
    <3> QED
      BY <1>3, <2>1, <2>2, <3>2
  <2>3. CASE gcSrc # {}
    BY <1>4, <1>11, <2>1, <2>3 DEF CopyState, BootScan
  <2> QED
    BY <2>2, <2>3
<1> QED
  BY <1>1, <1>6, <1>7, <1>8, <1>9, <1>10, <1>11 DEF Pcs, BootPcs, GcPcs, GcInDoubt

\* Nothing of a call survives.
LEMMA LossFound ==
  ASSUME PowerLoss \/ Deinit
  PROVE  FoundState'
<1>1. pc' = "down" /\ cur' = NoItem /\ at'.blk = 1
  BY DEF PowerLoss, Deinit, Halt, Goto, Start
<1> QED
  BY <1>1 DEF FoundState, Setting, GcPcs

----------------------------------------------------------------------------
(* The theorems about copies *)

\* An erased chip has no items and no tags.
LEMMA CopyInit == Init => CopyInv
<1> SUFFICES ASSUME Init PROVE CopyInv
  OBVIOUS
<1>1. /\ pc = "down" /\ gcSrc = {} /\ gcDst = {} /\ cur = NoItem /\ at.blk = 1
      /\ \A b \in Blk : items[b] = <<>>
  BY DEF Init, Start
<1>2. \A b \in Blk : DOMAIN items[b] = {}
  BY <1>1
<1>3. FlashShape
  BY <1>1, <1>2 DEF FlashShape, Increasing
<1>4. GcTags
  BY <1>1 DEF GcTags, DstNotDone, OpPcs
<1>5. CopyState
  BY <1>1, <1>2 DEF CopyState, Recoverable, QuietPcs, OpPcs
<1>6. FoundState
  BY <1>1 DEF FoundState, Setting, GcPcs
<1> QED
  BY <1>3, <1>4, <1>5, <1>6 DEF CopyInv

\* Every step preserves the invariant of the copies, a power loss outside
\* GcInDoubt included.
LEMMA CopyInvStep ==
  ASSUME ItemsFit, ~AnyLoss, KvInv, CopyInv, [Next]_vars
  PROVE  CopyInv'
<1>0. FlashShape /\ GcTags /\ CopyState /\ FoundState
  BY DEF CopyInv
<1>1. CASE Next
  <2>1. FlashShape'
    BY <1>0, <1>1, ShapeStep
  <2>2. CASE Boot
    BY <1>0, <2>1, <2>2, BootTags, BootCopies, BootFound DEF CopyInv
  <2>3. CASE Gc
    BY <1>0, <2>1, <2>3, RunTags, GcCopies, GcFound DEF CopyInv
  <2>4. CASE Serve \/ \E r \in Requests : Call(r)
    <3>1. GcTags' /\ CopyState'
      BY <1>0, <2>4, RunTags, ServeCopies
    <3>2. FoundState'
      BY <1>0, <2>4, FindFound, SaveFound, CallFound DEF Serve
    <3> QED
      BY <2>1, <3>1, <3>2 DEF CopyInv
  <2>5. CASE PowerLoss \/ Deinit
    BY <1>0, <2>1, <2>5, LossTags, LossCopies, LossFound DEF CopyInv
  <2> QED
    BY <1>1, <2>2, <2>3, <2>4, <2>5 DEF Next
<1>2. CASE UNCHANGED vars
  <2> USE <1>2 DEF vars
  <2>1. FlashShape'
    BY <1>0 DEF FlashShape
  <2>2. GcTags'
    BY <1>0 DEF GcTags, Spare, FrontBlk, DstNotDone
  <2>3. CopyState'
    <3>1. FrontBlk' = FrontBlk /\ FrontItem' = FrontItem /\ CurPos' = CurPos /\ DstNotDone' = DstNotDone
      BY DEF FrontBlk, FrontItem, CurPos, DstNotDone
    <3> QED
      BY <1>0, <3>1 DEF CopyState
  <2>4. FoundState'
    <3>1. CurPos' = CurPos /\ Setting' = Setting
      BY DEF CurPos, Setting
    <3> QED
      BY <1>0, <3>1 DEF FoundState
  <2> QED
    BY <2>1, <2>2, <2>3, <2>4 DEF CopyInv
<1> QED
  BY <1>1, <1>2

\* Between calls nothing is left of an unfinished gc: ln_kv_init has redone
\* it, and its error exit for block states it cannot explain is never taken.
THEOREM KvIncompleteGcFixed == ItemsFit /\ ~AnyLoss => (Spec => []IncompleteGcFixed)
<1> SUFFICES ASSUME ItemsFit, ~AnyLoss PROVE Spec => []IncompleteGcFixed
  OBVIOUS
<1>1. Init => KvInv /\ CopyInv
  BY KvInit, CopyInit
<1>2. KvInv /\ CopyInv /\ [Next]_vars => (KvInv /\ CopyInv)'
  BY KvStep, CopyInvStep
<1>3. KvInv /\ CopyInv => IncompleteGcFixed
  BY DEF CopyInv, GcTags, IncompleteGcFixed, OpPcs
<1> QED
  BY <1>1, <1>2, <1>3, PTL DEF Spec

\* Between calls a key has at most one live item in flash, and its checksum is
\* good: gc, updates and their recovery neither double nor tear one.
THEOREM KvOneIntactCopy == ItemsFit /\ ~AnyLoss => (Spec => []OneIntactCopy)
<1> SUFFICES ASSUME ItemsFit, ~AnyLoss PROVE Spec => []OneIntactCopy
  OBVIOUS
<1>1. Init => KvInv /\ CopyInv
  BY KvInit, CopyInit
<1>2. KvInv /\ CopyInv /\ [Next]_vars => (KvInv /\ CopyInv)'
  BY KvStep, CopyInvStep
<1>3. KvInv /\ CopyInv => OneIntactCopy
  <2> SUFFICES ASSUME CopyInv, pc = "idle", NEW k \in Keys
               PROVE  /\ Cardinality(Copies(Blk, k)) <= 1
                      /\ \A c \in Copies(Blk, k) : items[c[1]][c[2]].ok
    BY DEF OneIntactCopy
  <2>1. Sound(items, Blk)
    BY DEF CopyInv, CopyState, QuietPcs, OpPcs
  <2>2. ASSUME NEW c \in Copies(Blk, k)
        PROVE  \E b \in Blk : \E i \in DOMAIN items[b] :
                 c = <<b, i>> /\ items[b][i].live /\ items[b][i].key = k
    BY <2>2 DEF Copies
  <2>3. ASSUME NEW c \in Copies(Blk, k) PROVE items[c[1]][c[2]].ok
    BY <2>1, <2>2, <2>3 DEF Sound, Intact
  <2>4. ASSUME NEW c \in Copies(Blk, k), NEW d \in Copies(Blk, k) PROVE c = d
    BY <2>1, <2>2, <2>4 DEF Sound, Unique, Rivals
  <2>5. CASE Copies(Blk, k) = {}
    BY <2>3, <2>5, FS_EmptySet
  <2>6. CASE Copies(Blk, k) # {}
    <3>1. PICK c \in Copies(Blk, k) : TRUE
      BY <2>6
    <3>2. Copies(Blk, k) = {c}
      BY <2>4, <3>1
    <3>3. Cardinality(Copies(Blk, k)) = 1
      BY <3>2, FS_Singleton
    <3> QED
      BY <2>3, <3>3
  <2> QED
    BY <2>5, <2>6
<1> QED
  BY <1>1, <1>2, <1>3, PTL DEF Spec

\* A block is erased only when every intact item in it has a twin elsewhere:
\* the source of a gc when its copy is complete, the destination of an
\* interrupted one while its source is whole, and a block without magic when
\* it is blank.
THEOREM KvEraseKeepsData == ItemsFit /\ ~AnyLoss => (Spec => EraseKeepsData)
<1> SUFFICES ASSUME ItemsFit, ~AnyLoss PROVE Spec => EraseKeepsData
  OBVIOUS
<1> DEFINE Kept(b) ==
      \A i \in DOMAIN items[b] : items[b][i].live /\ items[b][i].ok =>
        \E c \in Blk \ {b} : \E j \in DOMAIN items[c] :
          /\ items[c][j].live /\ items[c][j].ok
          /\ items[c][j].key = items[b][i].key
          /\ items[c][j].val = items[b][i].val
<1>1. Init => KvInv /\ CopyInv
  BY KvInit, CopyInit
<1>2. KvInv /\ CopyInv /\ [Next]_vars => (KvInv /\ CopyInv)'
  BY KvStep, CopyInvStep
<1>3. ASSUME KvInv, CopyInv, Next, NEW b \in Blk, items[b] # <<>>, items'[b] = <<>> PROVE Kept(b)
  <2>0. items \in [Blk -> Seq(Entry)]
    BY <1>3 DEF KvInv, Typed
  <2>1. ASSUME NEW s \in Blk \ {b}, Mirrored(items, b, s) PROVE Kept(b)
    BY <2>1 DEF Mirrored, Twins
  <2>2. CASE DstErase
    <3>1. pc = "dstErase" /\ items' = [items EXCEPT ![gc.dst] = <<>>]
      BY <2>2 DEF DstErase, Erase
    <3>2. gc.src \in Blk /\ gc.dst # gc.src /\ gc.dst \in Blk
      BY <1>3, <3>1, GcFacts DEF RedoPcs
    <3>3. b = gc.dst
      BY <1>3, <2>0, <3>1, <3>2
    <3>4. Mirrored(items, b, gc.src)
      BY <1>3, <3>1, <3>3 DEF CopyInv, CopyState
    <3> QED
      BY <2>1, <3>2, <3>3, <3>4
  <2>3. CASE GcErase
    <3>1. /\ pc = "gcCopy" /\ items' = [items EXCEPT ![gc.src] = <<>>]
          /\ gc.i > Len(items[gc.src])
      BY <2>3 DEF GcErase, Erase
    <3>2. gc.src \in Blk /\ gc.dst # gc.src /\ gc.dst \in Blk /\ gc.i \in Nat
      BY <1>3, <3>1, GcFacts DEF GcPcs, GcJob
    <3>3. b = gc.src
      BY <1>3, <2>0, <3>1, <3>2
    <3>4. Copying(items, gc.src, gc.dst, gc.i)
      BY <1>3, <3>1 DEF CopyInv, CopyState
    <3>5. Mirrored(items, gc.src, gc.dst)
      BY <2>0, <3>1, <3>2, <3>4, CopyEnds
    <3> QED
      BY <2>1, <3>2, <3>3, <3>5
  <2>4. ASSUME NEW c \in Blk \ magic, items' = [items EXCEPT ![c] = <<>>] PROVE FALSE
    BY <1>3, <2>0, <2>4 DEF CopyInv, FlashShape
  <2>5. ASSUME NEW c \in Blk, NEW o, items' = [items EXCEPT ![c] = DiscardAt(items[c], o)] PROVE FALSE
    <3>1. DiscardAt(items[c], o) = <<>> <=> items[c] = <<>>
      BY <1>3, <2>0, DiscardLog DEF KvInv, LogsContiguous
    <3> QED
      BY <1>3, <2>0, <2>5, <3>1
  <2>6. ASSUME NEW c \in magic, NEW e \in Entry, items' = [items EXCEPT ![c] = Append(items[c], e)]
        PROVE  FALSE
    <3>1. c \in Blk
      BY <1>3 DEF KvInv, Typed
    <3>2. Append(items[c], e) # <<>>
      BY <2>0, <3>1
    <3> QED
      BY <1>3, <2>0, <2>6, <3>1, <3>2
  <2> QED
    BY <1>3, <2>2, <2>3, <2>4, <2>5, <2>6, Writes
<1>4. KvInv /\ CopyInv /\ [Next]_vars
      => [\A b \in Blk : (items[b] # <<>> /\ items'[b] = <<>>) => Kept(b)]_vars
  BY <1>3
<1> QED
  BY <1>1, <1>2, <1>4, PTL DEF Spec, EraseKeepsData

----------------------------------------------------------------------------
(* The store as a map.  What a reader or a boot makes of the copies of a    *)
(* key, as operators of the logs.                                           *)

\* Item i of block b is a live, intact copy of key k.
Real(logs, b, i, k) == logs[b][i].live /\ logs[b][i].ok /\ logs[b][i].key = k

\* An intact copy of k has value v.
Held(logs, k, v) ==
  \E b \in Blk : \E i \in DOMAIN logs[b] : Real(logs, b, i, k) /\ logs[b][i].val = v

\* An intact copy of k with value v is at position p.
HeldAt(logs, p, k, v) ==
  \E b \in Blk : \E i \in DOMAIN logs[b] :
    p = <<b, logs[b][i].off>> /\ Real(logs, b, i, k) /\ logs[b][i].val = v

\* All intact copies of k have value v, and there is one unless v is Absent.
Worth(logs, k, v) ==
  \/ Held(logs, k, v) /\ \A w : Held(logs, k, w) => w = v
  \/ v = Absent /\ \A w : ~Held(logs, k, w)

\* No key has three intact copies.
AtMostTwo(logs) ==
  \A b, c, d \in Blk : \A i \in DOMAIN logs[b], j \in DOMAIN logs[c], n \in DOMAIN logs[d] :
    /\ Rivals(logs, b, i, c, j) /\ Rivals(logs, b, i, d, n)
    /\ logs[b][i].ok /\ logs[c][j].ok /\ logs[d][n].ok
    => <<c, j>> = <<d, n>>

\* An intact item that a scan at item y of block x has passed supersedes none.
Settled(logs, x, y) ==
  \A b, c \in Blk : \A i \in DOMAIN logs[b], j \in DOMAIN logs[c] :
    /\ Rivals(logs, b, i, c, j) /\ logs[b][i].ok /\ logs[c][j].ok
    /\ Passes(x, y, b, i)
    => ~Updates(logs, b, i, c, j)

\* A scan has one pair of copies of a key to decide on at most, and decides
\* when it gets to the first of the two that names the other.
ScanState ==
  pc \in BootScan /\ gcSrc = {} => AtMostTwo(items) /\ Settled(items, FrontBlk, FrontItem)

\* A call is under way.
Busy == pc \in OpPcs \ {"idle"} \/ (pc \in GcPcs /\ gc.ret = "search")

\* The item that a call replaces or deletes keeps its value on flash until the
\* discard, and an update has written the new value by then.
OldState ==
  /\ Busy <=> req # NoRequest
  /\ pc = "discard" => req.type \in {"set", "del"}
  /\ Setting /\ cur # NoItem => Held(items, req.key, cur.ent.val)
  /\ pc = "fix" => \E b \in Blk : b >= at.blk /\ \E i \in DOMAIN items[b] :
                     Real(items, b, i, req.key) /\ items[b][i].val = cur.ent.val
  /\ pc = "discard" => HeldAt(items, CurPos, req.key, cur.ent.val)
  /\ pc = "discard" /\ req.type = "set" =>
       \E b \in Blk : \E i \in DOMAIN items[b] :
         /\ Real(items, b, i, req.key) /\ items[b][i].val = req.val
         /\ <<b, items[b][i].off>> # CurPos
  /\ pc = "discard" /\ req.type = "del" => Unique(items, Blk)

ViewInv == ScanState /\ OldState

\* The live copies of k in the blocks of S, and what is read from a set of
\* copies: Copies and FirstVal with the logs as a parameter.
CopiesIn(logs, S, k) ==
  UNION {{<<b, i>> : i \in {j \in DOMAIN logs[b] :
                             logs[b][j].live /\ logs[b][j].key = k}} : b \in S}

FirstIn(logs, C) ==
  IF C = {} THEN Absent
  ELSE LET c == CHOOSE x \in C : \A y \in C : x = y \/ Before(x, y)
       IN  logs[c[1]][c[2]].val

\* The intact copies that ln_kv_init starts from, the gc tags being src and,
\* of destinations that are not done, open.
BootCopiesIn(logs, src, open, k) ==
  {c \in CopiesIn(logs, IF src = {} THEN Blk ELSE Blk \ (open \ src), k) :
     logs[c[1]][c[2]].ok}

\* Copy c supersedes copy d in the scan.
KillsIn(logs, src, open, c, d) ==
  /\ c[1] \notin src \cup open
  /\ logs[c[1]][c[2]].prev = <<d[1], logs[d[1]][d[2]].off>>
  /\ c # d

SurvivorsIn(logs, src, open, k) ==
  {c \in BootCopiesIn(logs, src, open, k) : \A d \in BootCopiesIn(logs, src, open, k) :
     KillsIn(logs, src, open, d, c) => (KillsIn(logs, src, open, c, d) /\ Before(c, d))}

\* The value of a key that is not being replaced, before and after a step.
LEMMA RunningForm ==
  ASSUME NEW k
  PROVE  /\ ~(pc = "discard" /\ req.type = "set" /\ req.key = k)
              => RunningVal(k) = FirstIn(items, CopiesIn(items, Blk, k))
         /\ ~(pc' = "discard" /\ req'.type = "set" /\ req'.key = k)
              => RunningVal(k)' = FirstIn(items', CopiesIn(items', Blk, k))
  BY DEF RunningVal, FirstVal, FirstIn, Copies, CopiesIn

\* The value that ln_kv_init recovers, before and after a step.
LEMMA RecoveredForm ==
  ASSUME NEW k
  PROVE  /\ RecoveredVal(k) = FirstIn(items, SurvivorsIn(items, gcSrc, DstNotDone, k))
         /\ RecoveredVal(k)' = FirstIn(items', SurvivorsIn(items', gcSrc', DstNotDone', k))
  BY DEF RecoveredVal, FirstVal, FirstIn, Copies, CopiesIn, SurvivorsIn, BootCopiesIn,
         KillsIn, BootBlks, PendingDst

\* What a copy is.
LEMMA CopyOf ==
  ASSUME NEW logs, NEW S, NEW k, NEW c
  PROVE  c \in CopiesIn(logs, S, k) <=>
           \E b \in S : \E i \in DOMAIN logs[b] :
             c = <<b, i>> /\ logs[b][i].live /\ logs[b][i].key = k
  BY DEF CopiesIn

\* The value of a key is one.
LEMMA WorthOnce ==
  ASSUME NEW logs, NEW k, NEW v, NEW w, Worth(logs, k, v), Worth(logs, k, w)
  PROVE  v = w
  BY DEF Worth

\* The logs have the same values of k.
SameValues(old, new, k) == \A w : Held(old, k, w) <=> Held(new, k, w)

\* Logs with the same values of a key are worth the same.
LEMMA WorthKept ==
  ASSUME NEW old, NEW new, NEW k, NEW v, Worth(old, k, v), SameValues(old, new, k)
  PROVE  Worth(new, k, v)
  BY DEF Worth, SameValues

\* Copies are ordered by their places.
LEMMA BeforeTotal ==
  ASSUME NEW logs \in [Blk -> Seq(Entry)], NEW k,
         NEW c \in CopiesIn(logs, Blk, k), NEW d \in CopiesIn(logs, Blk, k)
  PROVE  /\ c = d \/ Before(c, d) \/ Before(d, c)
         /\ ~(Before(c, d) /\ Before(d, c))
<1>1. PICK b \in Blk : \E i \in DOMAIN logs[b] : c = <<b, i>>
  BY CopyOf
<1>2. PICK e \in Blk : \E j \in DOMAIN logs[e] : d = <<e, j>>
  BY CopyOf
<1>3. PICK i \in DOMAIN logs[b], j \in DOMAIN logs[e] : c = <<b, i>> /\ d = <<e, j>>
  BY <1>1, <1>2
<1>4. b \in Nat /\ e \in Nat /\ i \in Nat /\ j \in Nat
  <2>1. logs[b] \in Seq(Entry) /\ logs[e] \in Seq(Entry)
    OBVIOUS
  <2>2. b \in Nat /\ e \in Nat
    BY SizeAssumption DEF Blk
  <2> QED
    BY <2>1, <2>2
<1> QED
  BY <1>3, <1>4 DEF Before

\* Of one or two copies one is read.
LEMMA FirstRead ==
  ASSUME NEW logs \in [Blk -> Seq(Entry)], NEW k, NEW C, C \subseteq CopiesIn(logs, Blk, k),
         C # {}, \A c, d, e \in C : c = d \/ c = e \/ d = e
  PROVE  \E c \in C : /\ FirstIn(logs, C) = logs[c[1]][c[2]].val
                      /\ \A d \in C : c = d \/ Before(c, d)
<1>1. \E x \in C : \A y \in C : x = y \/ Before(x, y)
  <2>1. PICK c \in C : TRUE
    OBVIOUS
  <2>2. CASE \A d \in C : d = c
    BY <2>1, <2>2
  <2>3. ASSUME NEW d \in C, d # c PROVE \E x \in C : \A y \in C : x = y \/ Before(x, y)
    <3>1. \A y \in C : y = c \/ y = d
      BY <2>1, <2>3
    <3>2. Before(c, d) \/ Before(d, c)
      BY <2>1, <2>3, BeforeTotal
    <3> QED
      BY <2>1, <2>3, <3>1, <3>2
  <2> QED
    BY <2>2, <2>3
<1> DEFINE First == CHOOSE x \in C : \A y \in C : x = y \/ Before(x, y)
<1>2. First \in C /\ \A y \in C : First = y \/ Before(First, y)
  BY <1>1
<1>3. FirstIn(logs, C) = logs[First[1]][First[2]].val
  BY DEF FirstIn
<1> HIDE DEF First
<1> QED
  BY <1>2, <1>3

\* What is read from copies that agree is what they are worth.
LEMMA FirstWorth ==
  ASSUME NEW logs \in [Blk -> Seq(Entry)], NEW k, NEW C, C \subseteq CopiesIn(logs, Blk, k),
         \A c, d, e \in C : c = d \/ c = e \/ d = e,
         \A c, d \in C : logs[c[1]][c[2]].val = logs[d[1]][d[2]].val,
         \A w : Held(logs, k, w) <=> \E c \in C : logs[c[1]][c[2]].val = w
  PROVE  Worth(logs, k, FirstIn(logs, C))
<1>1. CASE C = {}
  BY <1>1 DEF Worth, FirstIn
<1>2. CASE C # {}
  <2>1. PICK c \in C : FirstIn(logs, C) = logs[c[1]][c[2]].val
    BY <1>2, FirstRead
  <2> QED
    BY <2>1 DEF Worth
<1> QED
  BY <1>1, <1>2

\* The scan leaves one of two copies at least.
LEMMA OneSurvives ==
  ASSUME NEW logs \in [Blk -> Seq(Entry)], NEW src, NEW open, NEW k,
         BootCopiesIn(logs, src, open, k) # {},
         \A c, d, e \in BootCopiesIn(logs, src, open, k) : c = d \/ c = e \/ d = e
  PROVE  SurvivorsIn(logs, src, open, k) # {}
<1> DEFINE C == BootCopiesIn(logs, src, open, k)
           K(c, d) == KillsIn(logs, src, open, c, d)
<1>0. C \subseteq CopiesIn(logs, Blk, k)
  BY CopyOf DEF BootCopiesIn
<1>1. \A c, d : K(c, d) => c # d
  BY DEF KillsIn
<1>2. \A c \in C : (\A d \in C : K(d, c) => K(c, d) /\ Before(c, d))
                     => c \in SurvivorsIn(logs, src, open, k)
  BY DEF SurvivorsIn
<1>3. \A c, d \in C : c = d \/ Before(c, d) \/ Before(d, c)
  BY <1>0, BeforeTotal
<1>4. \A c, d, e \in C : c = d \/ c = e \/ d = e
  OBVIOUS
<1>5. PICK c \in C : TRUE
  OBVIOUS
<1> HIDE DEF C, K
<1>6. CASE \A d \in C : d = c
  BY <1>1, <1>2, <1>5, <1>6
<1>7. ASSUME NEW d \in C, d # c PROVE SurvivorsIn(logs, src, open, k) # {}
  <2>1. \A e \in C : e = c \/ e = d
    BY <1>4, <1>5, <1>7
  <2>2. CASE K(d, c) /\ ~(K(c, d) /\ Before(c, d))
    <3>1. \A e \in C : K(e, d) => K(d, e) /\ Before(d, e)
      BY <1>1, <1>3, <1>5, <1>7, <2>1, <2>2
    <3> QED
      BY <1>2, <1>7, <3>1
  <2>3. CASE ~(K(d, c) /\ ~(K(c, d) /\ Before(c, d)))
    BY <1>1, <1>2, <1>5, <2>1, <2>3
  <2> QED
    BY <2>2, <2>3
<1> QED
  BY <1>6, <1>7

\* What ln_kv_init recovers of copies that agree is what they are worth.
LEMMA RecoverWorth ==
  ASSUME NEW logs \in [Blk -> Seq(Entry)], NEW src, NEW open, NEW k,
         \A c, d, e \in BootCopiesIn(logs, src, open, k) : c = d \/ c = e \/ d = e,
         \A c, d \in BootCopiesIn(logs, src, open, k) :
           logs[c[1]][c[2]].val = logs[d[1]][d[2]].val,
         \A w : Held(logs, k, w) <=>
           \E c \in BootCopiesIn(logs, src, open, k) : logs[c[1]][c[2]].val = w
  PROVE  Worth(logs, k, FirstIn(logs, SurvivorsIn(logs, src, open, k)))
<1> DEFINE C == BootCopiesIn(logs, src, open, k)
           D == SurvivorsIn(logs, src, open, k)
<1>0. C \subseteq CopiesIn(logs, Blk, k)
  BY CopyOf DEF BootCopiesIn
<1>1. D \subseteq C
  BY DEF SurvivorsIn
<1>2. C # {} => D # {}
  BY OneSurvives
<1>3. /\ \A c, d, e \in C : c = d \/ c = e \/ d = e
      /\ \A c, d \in C : logs[c[1]][c[2]].val = logs[d[1]][d[2]].val
      /\ \A w : Held(logs, k, w) <=> \E c \in C : logs[c[1]][c[2]].val = w
  OBVIOUS
<1> HIDE DEF C, D
<1>4. /\ D \subseteq CopiesIn(logs, Blk, k)
      /\ \A c, d, e \in D : c = d \/ c = e \/ d = e
      /\ \A c, d \in D : logs[c[1]][c[2]].val = logs[d[1]][d[2]].val
      /\ \A w : Held(logs, k, w) <=> \E c \in D : logs[c[1]][c[2]].val = w
  BY <1>0, <1>1, <1>2, <1>3
<1>5. Worth(logs, k, FirstIn(logs, D))
  BY <1>4, FirstWorth
<1> QED
  BY <1>5 DEF D

\* The blocks of S have one intact copy of k at most.
OneIn(logs, S, k) ==
  \A b, c \in S : \A i \in DOMAIN logs[b], j \in DOMAIN logs[c] :
    Real(logs, b, i, k) /\ Real(logs, c, j, k) => <<b, i>> = <<c, j>>

\* The blocks of S have every value of k.
AllIn(logs, S, k) ==
  \A b \in Blk \ S : \A i \in DOMAIN logs[b] : Real(logs, b, i, k) =>
    \E c \in S : \E j \in DOMAIN logs[c] :
      Real(logs, c, j, k) /\ logs[c][j].val = logs[b][i].val

\* Sound logs have one copy of every key at most.
LEMMA SoundSingle ==
  ASSUME NEW logs, Sound(logs, Blk), NEW k
  PROVE  OneIn(logs, Blk, k)
  BY DEF Sound, Unique, Rivals, OneIn, Real

\* A reader finds the one copy.
LEMMA ReadSingle ==
  ASSUME NEW logs \in [Blk -> Seq(Entry)], Intact(logs, Blk), NEW k, OneIn(logs, Blk, k)
  PROVE  Worth(logs, k, FirstIn(logs, CopiesIn(logs, Blk, k)))
<1> DEFINE C == CopiesIn(logs, Blk, k)
<1>1. ASSUME NEW c \in C, NEW d \in C PROVE c = d
  <2>1. PICK b \in Blk : \E i \in DOMAIN logs[b] :
               c = <<b, i>> /\ logs[b][i].live /\ logs[b][i].key = k
    BY <1>1, CopyOf
  <2>2. PICK e \in Blk : \E j \in DOMAIN logs[e] :
               d = <<e, j>> /\ logs[e][j].live /\ logs[e][j].key = k
    BY <1>1, CopyOf
  <2>3. PICK i \in DOMAIN logs[b], j \in DOMAIN logs[e] :
               /\ c = <<b, i>> /\ logs[b][i].live /\ logs[b][i].key = k
               /\ d = <<e, j>> /\ logs[e][j].live /\ logs[e][j].key = k
    BY <2>1, <2>2
  <2> QED
    BY <2>3 DEF OneIn, Real, Intact
<1>2. ASSUME NEW w PROVE Held(logs, k, w) <=> \E c \in C : logs[c[1]][c[2]].val = w
  <2>1. ASSUME NEW b \in Blk, NEW i \in DOMAIN logs[b], logs[b][i].live, logs[b][i].key = k
        PROVE  <<b, i>> \in C
    BY <2>1, CopyOf
  <2>2. ASSUME NEW c \in C
        PROVE  \E b \in Blk : \E i \in DOMAIN logs[b] : c = <<b, i>> /\ Real(logs, b, i, k)
    BY <2>2, CopyOf DEF Real, Intact
  <2> HIDE DEF C
  <2>3. ASSUME Held(logs, k, w) PROVE \E c \in C : logs[c[1]][c[2]].val = w
    <3>1. PICK b \in Blk : \E i \in DOMAIN logs[b] : Real(logs, b, i, k) /\ logs[b][i].val = w
      BY <2>3 DEF Held
    <3>2. PICK i \in DOMAIN logs[b] : Real(logs, b, i, k) /\ logs[b][i].val = w
      BY <3>1
    <3>3. <<b, i>> \in C
      BY <2>1, <3>2 DEF Real
    <3> QED
      BY <3>2, <3>3
  <2>4. ASSUME NEW c \in C, logs[c[1]][c[2]].val = w PROVE Held(logs, k, w)
    BY <2>2, <2>4 DEF Held
  <2> QED
    BY <2>3, <2>4
<1> HIDE DEF C
<1>3. C \subseteq CopiesIn(logs, Blk, k)
  BY DEF C
<1>4. Worth(logs, k, FirstIn(logs, C))
  BY <1>1, <1>2, <1>3, FirstWorth
<1> QED
  BY <1>4 DEF C

\* What ln_kv_init starts from, in the blocks of S.
LEMMA BootCopyOf ==
  ASSUME NEW logs, NEW src, NEW open, NEW k, NEW S,
         S = IF src = {} THEN Blk ELSE Blk \ (open \ src), NEW c
  PROVE  c \in BootCopiesIn(logs, src, open, k) <=>
           \E b \in S : \E i \in DOMAIN logs[b] : c = <<b, i>> /\ Real(logs, b, i, k)
<1>1. c \in BootCopiesIn(logs, src, open, k)
        <=> c \in CopiesIn(logs, S, k) /\ logs[c[1]][c[2]].ok
  BY DEF BootCopiesIn
<1> QED
  BY <1>1, CopyOf DEF Real

\* ln_kv_init recovers the one copy in S.
LEMMA RecoverSingle ==
  ASSUME NEW logs \in [Blk -> Seq(Entry)], NEW src, NEW open, NEW k, NEW S,
         S = IF src = {} THEN Blk ELSE Blk \ (open \ src), OneIn(logs, S, k), AllIn(logs, S, k)
  PROVE  Worth(logs, k, FirstIn(logs, SurvivorsIn(logs, src, open, k)))
<1> DEFINE C == BootCopiesIn(logs, src, open, k)
<1>0. S \subseteq Blk
  OBVIOUS
<1>1. \A c : c \in C <=>
        \E b \in S : \E i \in DOMAIN logs[b] : c = <<b, i>> /\ Real(logs, b, i, k)
  BY BootCopyOf
<1> HIDE DEF C
<1>2. ASSUME NEW c \in C, NEW d \in C PROVE c = d
  <2>1. PICK b \in S : \E i \in DOMAIN logs[b] : c = <<b, i>> /\ Real(logs, b, i, k)
    BY <1>1, <1>2
  <2>2. PICK e \in S : \E j \in DOMAIN logs[e] : d = <<e, j>> /\ Real(logs, e, j, k)
    BY <1>1, <1>2
  <2> QED
    BY <2>1, <2>2 DEF OneIn
<1>3. ASSUME NEW w PROVE Held(logs, k, w) <=> \E c \in C : logs[c[1]][c[2]].val = w
  <2>1. ASSUME Held(logs, k, w) PROVE \E c \in C : logs[c[1]][c[2]].val = w
    <3>1. PICK b \in Blk : \E i \in DOMAIN logs[b] : Real(logs, b, i, k) /\ logs[b][i].val = w
      BY <2>1 DEF Held
    <3>2. PICK c \in S : \E j \in DOMAIN logs[c] : Real(logs, c, j, k) /\ logs[c][j].val = w
      BY <3>1 DEF AllIn
    <3>3. PICK j \in DOMAIN logs[c] : Real(logs, c, j, k) /\ logs[c][j].val = w
      BY <3>2
    <3>4. <<c, j>> \in C
      BY <1>1, <3>3
    <3> QED
      BY <3>3, <3>4
  <2>2. ASSUME NEW c \in C, logs[c[1]][c[2]].val = w PROVE Held(logs, k, w)
    <3>1. PICK b \in S : \E i \in DOMAIN logs[b] : c = <<b, i>> /\ Real(logs, b, i, k)
      BY <1>1, <2>2
    <3> QED
      BY <1>0, <2>2, <3>1 DEF Held
  <2> QED
    BY <2>1, <2>2
<1>4. /\ \A c, d, e \in C : c = d \/ c = e \/ d = e
      /\ \A c, d \in C : logs[c[1]][c[2]].val = logs[d[1]][d[2]].val
  BY <1>2
<1> QED
  BY <1>3, <1>4, RecoverWorth DEF C

\* C is the set of intact copies of k.
RealSet(logs, k, C) ==
  \A c : c \in C <=>
    \E b \in Blk : \E i \in DOMAIN logs[b] : c = <<b, i>> /\ Real(logs, b, i, k)

\* The copies of a key while gc copies: two that agree at most.
LEMMA CopyingPair ==
  ASSUME NEW logs \in [Blk -> Seq(Entry)], NEW s \in Blk, NEW d \in Blk, s # d, NEW n,
         Copying(logs, s, d, n), NEW k, NEW C, RealSet(logs, k, C)
  PROVE  /\ \A x, y, z \in C : x = y \/ x = z \/ y = z
         /\ \A x, y \in C : logs[x[1]][x[2]].val = logs[y[1]][y[2]].val
         /\ \A w : Held(logs, k, w) <=> \E c \in C : logs[c[1]][c[2]].val = w
<1>1. ASSUME NEW b \in Blk, NEW c \in Blk, NEW i \in DOMAIN logs[b], NEW j \in DOMAIN logs[c],
             Real(logs, b, i, k), Real(logs, c, j, k), b = d <=> c = d
      PROVE  <<b, i>> = <<c, j>>
  <2>1. CASE b = d
    BY <1>1, <2>1 DEF Copying, Sound, Unique, Rivals, Real
  <2>2. CASE b # d
    <3>1. b \in Blk \ {d} /\ c \in Blk \ {d}
      BY <1>1, <2>2
    <3> QED
      BY <1>1, <3>1 DEF Copying, Sound, Unique, Rivals, Real
  <2> QED
    BY <2>1, <2>2
<1>2. ASSUME NEW j \in DOMAIN logs[d], Real(logs, d, j, k)
      PROVE  \E i \in DOMAIN logs[s] : Real(logs, s, i, k) /\ logs[s][i].val = logs[d][j].val
  <2>1. PICK i \in DOMAIN logs[s] : Twins(logs[s][i], logs[d][j])
    BY <1>2 DEF Copying, Real
  <2> QED
    BY <1>2, <2>1 DEF Twins, Real
<1>3. ASSUME NEW b \in Blk, NEW c \in Blk, NEW i \in DOMAIN logs[b], NEW j \in DOMAIN logs[c],
             Real(logs, b, i, k), Real(logs, c, j, k)
      PROVE  logs[b][i].val = logs[c][j].val
  <2>1. CASE b = d <=> c = d
    <3>1. <<b, i>> = <<c, j>>
      BY <1>1, <1>3, <2>1
    <3> QED
      BY <3>1
  <2>2. CASE b = d /\ c # d
    <3>1. PICK m \in DOMAIN logs[s] : Real(logs, s, m, k) /\ logs[s][m].val = logs[b][i].val
      BY <1>2, <1>3, <2>2
    <3>2. <<s, m>> = <<c, j>>
      BY <1>1, <1>3, <2>2, <3>1
    <3> QED
      BY <3>1, <3>2
  <2>3. CASE b # d /\ c = d
    <3>1. PICK m \in DOMAIN logs[s] : Real(logs, s, m, k) /\ logs[s][m].val = logs[c][j].val
      BY <1>2, <1>3, <2>3
    <3>2. <<s, m>> = <<b, i>>
      BY <1>1, <1>3, <2>3, <3>1
    <3> QED
      BY <3>1, <3>2
  <2> QED
    BY <2>1, <2>2, <2>3
<1>4. ASSUME NEW x \in C
      PROVE  x[1] \in Blk /\ x[2] \in DOMAIN logs[x[1]] /\ x = <<x[1], x[2]>>
             /\ Real(logs, x[1], x[2], k)
  BY <1>4 DEF RealSet
<1>5. ASSUME NEW x \in C, NEW y \in C, x[1] = d <=> y[1] = d PROVE x = y
  BY <1>1, <1>4, <1>5
<1>6. \A x, y, z \in C : x = y \/ x = z \/ y = z
  BY <1>5
<1>7. \A x, y \in C : logs[x[1]][x[2]].val = logs[y[1]][y[2]].val
  BY <1>3, <1>4
<1>8. ASSUME NEW w, Held(logs, k, w) PROVE \E c \in C : logs[c[1]][c[2]].val = w
  <2>1. PICK b \in Blk : \E i \in DOMAIN logs[b] : Real(logs, b, i, k) /\ logs[b][i].val = w
    BY <1>8 DEF Held
  <2>2. PICK i \in DOMAIN logs[b] : Real(logs, b, i, k) /\ logs[b][i].val = w
    BY <2>1
  <2>3. <<b, i>> \in C
    BY <2>2 DEF RealSet
  <2> QED
    BY <2>2, <2>3
<1>9. ASSUME NEW w, NEW c \in C, logs[c[1]][c[2]].val = w PROVE Held(logs, k, w)
  BY <1>4, <1>9 DEF Held
<1> QED
  BY <1>6, <1>7, <1>8, <1>9

\* A reader during gc finds what there is, in the source or in the destination.
LEMMA ReadCopying ==
  ASSUME NEW logs \in [Blk -> Seq(Entry)], NEW s \in Blk, NEW d \in Blk, s # d, NEW n,
         Copying(logs, s, d, n), NEW k
  PROVE  Worth(logs, k, FirstIn(logs, CopiesIn(logs, Blk, k)))
<1> DEFINE C == CopiesIn(logs, Blk, k)
<1>1. \A b \in Blk : \A i \in DOMAIN logs[b] : logs[b][i].live => logs[b][i].ok
  BY DEF Copying, Sound, Intact
<1>2. RealSet(logs, k, C)
  BY <1>1, CopyOf DEF Real, RealSet
<1>3. C \subseteq CopiesIn(logs, Blk, k)
  OBVIOUS
<1> HIDE DEF C
<1>4. /\ \A x, y, z \in C : x = y \/ x = z \/ y = z
      /\ \A x, y \in C : logs[x[1]][x[2]].val = logs[y[1]][y[2]].val
      /\ \A w : Held(logs, k, w) <=> \E c \in C : logs[c[1]][c[2]].val = w
  BY <1>2, CopyingPair
<1>5. Worth(logs, k, FirstIn(logs, C))
  BY <1>3, <1>4, FirstWorth
<1> QED
  BY <1>5 DEF C

\* So does ln_kv_init while its own gc copies to a destination it does not
\* recognise as one.
LEMMA RecoverCopying ==
  ASSUME NEW logs \in [Blk -> Seq(Entry)], NEW s \in Blk, NEW d \in Blk, s # d, NEW n,
         Copying(logs, s, d, n), NEW k
  PROVE  Worth(logs, k, FirstIn(logs, SurvivorsIn(logs, {s}, {}, k)))
<1> DEFINE C == BootCopiesIn(logs, {s}, {}, k)
<1>1. C = {c \in CopiesIn(logs, Blk, k) : logs[c[1]][c[2]].ok}
  <2>1. Blk = IF {s} = {} THEN Blk ELSE Blk \ ({} \ {s})
    OBVIOUS
  <2> QED
    BY <2>1 DEF BootCopiesIn
<1> HIDE DEF C
<1>2. RealSet(logs, k, C)
  BY <1>1, CopyOf DEF Real, RealSet
<1>3. /\ \A x, y, z \in C : x = y \/ x = z \/ y = z
      /\ \A x, y \in C : logs[x[1]][x[2]].val = logs[y[1]][y[2]].val
      /\ \A w : Held(logs, k, w) <=> \E c \in C : logs[c[1]][c[2]].val = w
  BY <1>2, CopyingPair
<1> QED
  BY <1>3, RecoverWorth DEF C

\* k has no intact copies but items i of b and j of c.
OnlyPair(logs, k, b, i, c, j) ==
  \A e \in Blk : \A n \in DOMAIN logs[e] :
    Real(logs, e, n, k) => <<e, n>> = <<b, i>> \/ <<e, n>> = <<c, j>>

\* Its two intact copies, in their order, one of which names the other.
PairOf(logs, k, b, i, c, j) ==
  /\ logs \in [Blk -> Seq(Entry)]
  /\ b \in Blk /\ i \in DOMAIN logs[b] /\ c \in Blk /\ j \in DOMAIN logs[c]
  /\ Real(logs, b, i, k) /\ Real(logs, c, j, k) /\ Before(<<b, i>>, <<c, j>>)
  /\ OnlyPair(logs, k, b, i, c, j)
  /\ Updates(logs, b, i, c, j) \/ Updates(logs, c, j, b, i)

\* What ln_kv_init makes of k with no gc to redo.
Recovered(logs, k) == FirstIn(logs, SurvivorsIn(logs, {}, {}, k))

ValueAt(logs, b, i) == logs[b][i].val

\* Of two copies, one of which names the other, ln_kv_init keeps the first one
\* it meets that names the other.
LEMMA RecoverPair ==
  ASSUME NEW logs, NEW k, NEW b, NEW i, NEW c, NEW j, PairOf(logs, k, b, i, c, j)
  PROVE  /\ Updates(logs, b, i, c, j) => Recovered(logs, k) = ValueAt(logs, b, i)
         /\ ~Updates(logs, b, i, c, j) => Recovered(logs, k) = ValueAt(logs, c, j)
<1> DEFINE C == BootCopiesIn(logs, {}, {}, k)
           K(u, v) == KillsIn(logs, {}, {}, u, v)
           D == SurvivorsIn(logs, {}, {}, k)
           x == <<b, i>>
           y == <<c, j>>
<1>0. /\ logs \in [Blk -> Seq(Entry)]
      /\ b \in Blk /\ i \in DOMAIN logs[b] /\ c \in Blk /\ j \in DOMAIN logs[c]
      /\ Real(logs, b, i, k) /\ Real(logs, c, j, k) /\ Before(<<b, i>>, <<c, j>>)
      /\ OnlyPair(logs, k, b, i, c, j)
      /\ Updates(logs, b, i, c, j) \/ Updates(logs, c, j, b, i)
  BY DEF PairOf
<1>1. RealSet(logs, k, C)
  BY CopyOf DEF BootCopiesIn, Real, RealSet
<1>2. \A u : u \in C <=> u = x \/ u = y
  BY <1>0, <1>1 DEF RealSet, OnlyPair
<1>3. x # y /\ Before(x, y) /\ ~Before(y, x)
  <2>1. x \in CopiesIn(logs, Blk, k) /\ y \in CopiesIn(logs, Blk, k)
    BY <1>0, CopyOf DEF Real
  <2>2. Before(x, y)
    BY <1>0
  <2>3. ~Before(y, x)
    BY <1>0, <2>1, <2>2, BeforeTotal
  <2> QED
    BY <2>2, <2>3
<1>4. K(x, y) <=> Updates(logs, b, i, c, j)
  BY <1>3 DEF KillsIn, Updates
<1>5. K(y, x) <=> Updates(logs, c, j, b, i)
  BY <1>3 DEF KillsIn, Updates
<1>6. ~K(x, x) /\ ~K(y, y)
  BY DEF KillsIn
<1>7. \A u : u \in D <=> u \in C /\ \A v \in C : K(v, u) => K(u, v) /\ Before(u, v)
  BY DEF SurvivorsIn
<1>8. ASSUME NEW z, D = {z} PROVE FirstIn(logs, D) = logs[z[1]][z[2]].val
  BY <1>8 DEF FirstIn
<1>9. x[1] = b /\ x[2] = i /\ y[1] = c /\ y[2] = j
  OBVIOUS
<1>10. Updates(logs, b, i, c, j) \/ Updates(logs, c, j, b, i)
  BY <1>0
<1> HIDE DEF C, K, D, x, y
<1>11. CASE Updates(logs, b, i, c, j)
  <2>1. \A u : u \in D <=> u = x
    BY <1>2, <1>3, <1>4, <1>6, <1>7, <1>11
  <2>2. D = {x}
    BY <2>1
  <2> QED
    BY <1>8, <1>9, <1>11, <2>2 DEF D, Recovered, ValueAt
<1>12. CASE ~Updates(logs, b, i, c, j)
  <2>1. \A u : u \in D <=> u = y
    BY <1>2, <1>3, <1>4, <1>5, <1>6, <1>7, <1>10, <1>12
  <2>2. D = {y}
    BY <2>1
  <2> QED
    BY <1>8, <1>9, <1>12, <2>2 DEF D, Recovered, ValueAt
<1> QED
  BY <1>11, <1>12

\* While a gc waits to be redone, ln_kv_init recovers what the blocks other
\* than its destination hold.
LEMMA RecoverTagged ==
  ASSUME NEW logs \in [Blk -> Seq(Entry)], NEW s \in Blk, NEW open \in SUBSET Blk, s \notin open,
         Sound(logs, Blk \ open), \A d \in open : Mirrored(logs, d, s), NEW k
  PROVE  Worth(logs, k, FirstIn(logs, SurvivorsIn(logs, {s}, open, k)))
<1> DEFINE S == Blk \ open
<1>1. S = IF {s} = {} THEN Blk ELSE Blk \ (open \ {s})
  OBVIOUS
<1>2. OneIn(logs, S, k)
  BY DEF Sound, Unique, Rivals, Real, OneIn
<1>3. ASSUME NEW b \in Blk \ S, NEW i \in DOMAIN logs[b], Real(logs, b, i, k)
      PROVE  \E c \in S : \E j \in DOMAIN logs[c] :
               Real(logs, c, j, k) /\ logs[c][j].val = logs[b][i].val
  <2>1. PICK j \in DOMAIN logs[s] : Twins(logs[s][j], logs[b][i])
    BY <1>3 DEF Mirrored, Real
  <2>2. s \in S /\ Real(logs, s, j, k) /\ logs[s][j].val = logs[b][i].val
    BY <1>3, <2>1 DEF Twins, Real
  <2> QED
    BY <2>2
<1> HIDE DEF S
<1>4. AllIn(logs, S, k)
  BY <1>3 DEF AllIn
<1> QED
  BY <1>1, <1>2, <1>4, RecoverSingle

\* With no gc to redo, a single copy is recovered.
LEMMA RecoverOne ==
  ASSUME NEW logs \in [Blk -> Seq(Entry)], NEW open, NEW k, OneIn(logs, Blk, k)
  PROVE  Worth(logs, k, FirstIn(logs, SurvivorsIn(logs, {}, open, k)))
<1>1. Blk = IF {} = {} THEN Blk ELSE Blk \ (open \ {})
  OBVIOUS
<1>2. OneIn(logs, Blk, k) /\ AllIn(logs, Blk, k)
  BY DEF OneIn, AllIn
<1> QED
  BY <1>1, <1>2, RecoverSingle

\* The value of k, whether ln_kv_init has returned or not.
View(k) == IF Up THEN RunningVal(k) ELSE RecoveredVal(k)

\* k is being replaced, and both its items are on flash.
Replaced(k) == pc = "discard" /\ req.type = "set" /\ req.key = k

\* There are no two values of k on flash.
Plain(k) == ~Replaced(k) /\ (pc \in BootScan /\ gcSrc = {} => OneIn(items, Blk, k))

\* A call that has not yet discarded its item has two copies of no other key.
LEMMA OthersSingle ==
  ASSUME KvInv, CopyInv, ViewInv, pc = "discard", NEW k, ~Replaced(k)
  PROVE  Intact(items, Blk) /\ OneIn(items, Blk, k)
<1>1. Replacing(items, CurPos)
  BY DEF CopyInv, CopyState
<1>2. CASE req.type = "del"
  BY <1>1, <1>2 DEF ViewInv, OldState, Unique, Rivals, OneIn, Real, Replacing
<1>3. CASE req.type = "set"
  <2>1. PICK b \in Blk : \E i \in DOMAIN items[b] :
             CurPos = <<b, items[b][i].off>> /\ items[b][i].key = req.key
    BY DEF ViewInv, OldState, HeldAt, Real
  <2>2. PICK i \in DOMAIN items[b] : CurPos = <<b, items[b][i].off>> /\ items[b][i].key = req.key
    BY <2>1
  <2>3. ASSUME NEW c \in Blk, NEW j \in DOMAIN items[c], CurPos = <<c, items[c][j].off>>
        PROVE  items[c][j].key = req.key
    <3>1. c = b /\ items[b][i].off = items[b][j].off /\ j \in DOMAIN items[b]
      BY <2>2, <2>3
    <3>2. items[b] \in Seq(Entry)
      BY DEF KvInv, Typed
    <3>3. i \in Nat /\ j \in Nat /\ items[b][i] \in Entry
      BY <2>2, <3>1, <3>2
    <3>4. items[b][i].off \in Nat
      BY <3>3, SizeAssumption DEF Entry
    <3>5. i = j
      BY <2>2, <3>1, <3>3, <3>4 DEF CopyInv, FlashShape, Increasing
    <3> QED
      BY <2>2, <3>1, <3>5
  <2>4. req.key # k
    BY <1>3 DEF Replaced
  <2>5. ASSUME NEW c \in Blk, NEW e \in Blk, NEW j \in DOMAIN items[c], NEW n \in DOMAIN items[e],
               Real(items, c, j, k), Real(items, e, n, k), <<c, j>> # <<e, n>>
        PROVE  FALSE
    <3>1. Rivals(items, c, j, e, n)
      BY <2>5 DEF Real, Rivals
    <3>2. CurPos = <<c, items[c][j].off>> \/ CurPos = <<e, items[e][n].off>>
      BY <1>1, <3>1 DEF Replacing
    <3> QED
      BY <2>3, <2>4, <2>5, <3>2 DEF Real
  <2> QED
    BY <1>1, <2>5 DEF Replacing, OneIn
<1> QED
  BY <1>2, <1>3 DEF ViewInv, OldState

\* The abstract value of a key is what its copies are worth, wherever the code
\* is.
LEMMA ViewWorth ==
  ASSUME KvInv, CopyInv, ViewInv, NEW k, Plain(k)
  PROVE  Worth(items, k, View(k))
<1>0. items \in [Blk -> Seq(Entry)] /\ gcSrc \subseteq Blk /\ DstNotDone \subseteq Blk
  BY DEF KvInv, Typed, DstNotDone
<1>1. CASE Up
  <2>1. View(k) = FirstIn(items, CopiesIn(items, Blk, k))
    BY <1>1, RunningForm DEF View, Plain, Replaced
  <2>2. CASE pc = "gcCopy"
    <3>1. gc.src \in Blk /\ gc.dst \in Blk /\ gc.src # gc.dst
      BY <2>2, GcFacts DEF GcPcs
    <3>2. Copying(items, gc.src, gc.dst, gc.i)
      BY <2>2 DEF CopyInv, CopyState
    <3> QED
      BY <1>0, <2>1, <3>1, <3>2, ReadCopying
  <2>3. CASE pc = "discard"
    BY <1>0, <2>1, <2>3, OthersSingle, ReadSingle DEF Plain
  <2>4. CASE pc \in QuietPcs
    <3>1. Sound(items, Blk)
      BY <2>4 DEF CopyInv, CopyState
    <3> QED
      BY <1>0, <2>1, <3>1, SoundSingle, ReadSingle DEF Sound
  <2> QED
    BY <1>1, <2>2, <2>3, <2>4 DEF Up, QuietPcs, OpPcs, GcPcs
<1>2. CASE ~Up
  <2>1. View(k) = FirstIn(items, SurvivorsIn(items, gcSrc, DstNotDone, k))
    BY <1>2, RecoveredForm DEF View
  <2>2. CASE pc \in BootScan /\ gcSrc = {}
    BY <1>0, <2>1, <2>2, RecoverOne DEF Plain
  <2>3. CASE pc \in BootScan /\ gcSrc # {}
    <3>1. PICK s \in Blk, d \in Blk : s # d /\ gcSrc = {s} /\ (DstNotDone = {d} \/ DstNotDone = {})
      BY <2>3 DEF CopyInv, GcTags
    <3>2. Sound(items, Blk \ DstNotDone) /\ \A e \in DstNotDone : Mirrored(items, e, s)
      BY <2>3, <3>1 DEF CopyInv, CopyState
    <3>3. Worth(items, k, FirstIn(items, SurvivorsIn(items, {s}, DstNotDone, k)))
      BY <1>0, <3>1, <3>2, RecoverTagged
    <3> QED
      BY <2>1, <3>1, <3>3
  <2>4. CASE pc = "dstErase"
    <3>1. gc.src \in Blk /\ gc.dst \in Blk /\ gc.src # gc.dst
      BY <2>4, GcFacts DEF RedoPcs
    <3>2. gcSrc = {gc.src} /\ DstNotDone = {gc.dst}
      BY <2>4 DEF CopyInv, GcTags
    <3>3. Sound(items, Blk \ DstNotDone) /\ \A e \in DstNotDone : Mirrored(items, e, gc.src)
      BY <2>4, <3>2 DEF CopyInv, CopyState
    <3>4. Worth(items, k, FirstIn(items, SurvivorsIn(items, {gc.src}, DstNotDone, k)))
      BY <1>0, <3>1, <3>2, <3>3, RecoverTagged
    <3> QED
      BY <2>1, <3>2, <3>4
  <2>5. CASE pc \in {"gcDst", "dstMagic"}
    <3>1. gc.src \in Blk
      BY <2>5, GcFacts DEF RedoPcs, GcPcs
    <3>2. gcSrc = {gc.src} /\ DstNotDone = {}
      BY <2>5 DEF CopyInv, GcTags
    <3>3. Sound(items, Blk \ DstNotDone) /\ \A e \in DstNotDone : Mirrored(items, e, gc.src)
      BY <2>5, <3>2 DEF CopyInv, CopyState, QuietPcs
    <3>4. Worth(items, k, FirstIn(items, SurvivorsIn(items, {gc.src}, DstNotDone, k)))
      BY <1>0, <3>1, <3>2, <3>3, RecoverTagged
    <3> QED
      BY <2>1, <3>2, <3>4
  <2>6. CASE pc = "gcCopy"
    <3>1. gc.src \in Blk /\ gc.dst \in Blk /\ gc.src # gc.dst
      BY <2>6, GcFacts DEF GcPcs
    <3>2. gcSrc = {gc.src} /\ (DstNotDone = {gc.dst} \/ DstNotDone = {})
      BY <2>6 DEF CopyInv, GcTags
    <3>3. Copying(items, gc.src, gc.dst, gc.i)
      BY <2>6 DEF CopyInv, CopyState
    <3>4. CASE DstNotDone = {}
      <4>1. Worth(items, k, FirstIn(items, SurvivorsIn(items, {gc.src}, {}, k)))
        BY <1>0, <3>1, <3>3, RecoverCopying
      <4> QED
        BY <2>1, <3>2, <3>4, <4>1
    <3>5. CASE DstNotDone = {gc.dst}
      <4>1. Sound(items, Blk \ DstNotDone) /\ \A e \in DstNotDone : Mirrored(items, e, gc.src)
        BY <3>3, <3>5 DEF Copying, Mirrored
      <4>2. Worth(items, k, FirstIn(items, SurvivorsIn(items, {gc.src}, DstNotDone, k)))
        BY <1>0, <3>1, <3>5, <4>1, RecoverTagged
      <4> QED
        BY <2>1, <3>2, <4>2
    <3> QED
      BY <3>2, <3>4, <3>5
  <2>7. CASE pc \in {"locate", "relocate", "gcSrc", "gcMagic", "gcDone"}
    <3>1. gcSrc = {} /\ Sound(items, Blk)
      BY <2>7 DEF CopyInv, GcTags, CopyState, QuietPcs
    <3> QED
      BY <1>0, <2>1, <3>1, SoundSingle, RecoverOne
  <2> QED
    BY <1>2, <2>2, <2>3, <2>4, <2>5, <2>6, <2>7 DEF KvInv, Typed, Pcs, BootPcs, GcPcs, Up, BootScan
<1> QED
  BY <1>1, <1>2

\* The abstract value of every key that has one value on flash.
ViewSound == \A k : Plain(k) => Worth(items, k, View(k))

\* The invariants give every key the value that its intact copies are worth.
LEMMA ViewIsSound == KvInv /\ CopyInv /\ ViewInv => ViewSound
  BY ViewWorth DEF ViewSound

\* The same after a step.
LEMMA NextViewIsSound == KvInv' /\ CopyInv' /\ ViewInv' => ViewSound'
  BY ViewIsSound, PTL

----------------------------------------------------------------------------
(* The values on flash *)

\* A torn item brings no value.
LEMMA TornHolds ==
  ASSUME NEW old \in [Blk -> Seq(Entry)], NEW c \in Blk, NEW t \in Entry, ~(t.live /\ t.ok),
         NEW new, new = [old EXCEPT ![c] = Append(old[c], t)], NEW k
  PROVE  SameValues(old, new, k)
<1>1. /\ \A b \in Blk \ {c} : new[b] = old[b]
      /\ DOMAIN new[c] = DOMAIN old[c] \cup {Len(old[c]) + 1}
      /\ new[c][Len(old[c]) + 1] = t
      /\ \A i \in DOMAIN old[c] : new[c][i] = old[c][i]
  BY AppendAdds
<1>2. \A b \in Blk : \A i \in DOMAIN old[b] : i \in DOMAIN new[b] /\ new[b][i] = old[b][i]
  BY <1>1
<1>3. \A b \in Blk : \A i \in DOMAIN new[b] :
        Real(new, b, i, k) => i \in DOMAIN old[b] /\ new[b][i] = old[b][i]
  BY <1>1 DEF Real
<1>4. ASSUME NEW w, Held(old, k, w) PROVE Held(new, k, w)
  BY <1>2, <1>4 DEF Held, Real
<1>5. ASSUME NEW w, Held(new, k, w) PROVE Held(old, k, w)
  BY <1>3, <1>5 DEF Held, Real
<1> QED
  BY <1>4, <1>5 DEF SameValues

\* A copy that gc makes brings no new value.
LEMMA CopyHolds ==
  ASSUME NEW old \in [Blk -> Seq(Entry)], NEW s \in Blk, NEW d \in Blk, s # d,
         NEW n \in DOMAIN old[s], NEW e \in Entry, Twins(old[s][n], e), NEW new, new = [old EXCEPT ![d] = Append(old[d], e)], NEW k
  PROVE  SameValues(old, new, k)
<1>1. /\ \A b \in Blk \ {d} : new[b] = old[b]
      /\ DOMAIN new[d] = DOMAIN old[d] \cup {Len(old[d]) + 1}
      /\ new[d][Len(old[d]) + 1] = e
      /\ \A i \in DOMAIN old[d] : new[d][i] = old[d][i]
  BY AppendAdds
<1>2. \A b \in Blk : \A i \in DOMAIN old[b] : i \in DOMAIN new[b] /\ new[b][i] = old[b][i]
  BY <1>1
<1>5. ASSUME NEW w, Held(old, k, w) PROVE Held(new, k, w)
  BY <1>2, <1>5 DEF Held, Real
<1>6. ASSUME NEW w, NEW b \in Blk, NEW i \in DOMAIN new[b], Real(new, b, i, k), new[b][i].val = w
      PROVE  Held(old, k, w)
  <2>1. CASE i \in DOMAIN old[b] /\ new[b][i] = old[b][i]
    BY <1>6, <2>1 DEF Held, Real
  <2>2. CASE b = d /\ i = Len(old[d]) + 1
    <3>1. Real(old, s, n, k) /\ old[s][n].val = w
      BY <1>1, <1>6, <2>2 DEF Real, Twins
    <3> QED
      BY <3>1 DEF Held
  <2> QED
    BY <1>1, <2>1, <2>2
<1>7. ASSUME NEW w, Held(new, k, w) PROVE Held(old, k, w)
  <2>1. PICK b \in Blk : \E i \in DOMAIN new[b] : Real(new, b, i, k) /\ new[b][i].val = w
    BY <1>7 DEF Held
  <2> QED
    BY <1>6, <2>1
<1> QED
  BY <1>5, <1>7 DEF SameValues

\* The erase of a block whose items have twins in another loses no value.
LEMMA EraseHolds ==
  ASSUME NEW old \in [Blk -> Seq(Entry)], NEW c \in Blk, NEW s \in Blk, c # s,
         Mirrored(old, c, s), NEW new, new = [old EXCEPT ![c] = <<>>], NEW k
  PROVE  SameValues(old, new, k)
<1>1. /\ new[c] = <<>>
      /\ \A b \in Blk \ {c} : new[b] = old[b]
  BY EraseShrinks
<1>2. ASSUME NEW w, NEW b \in Blk, NEW i \in DOMAIN old[b], Real(old, b, i, k), old[b][i].val = w
      PROVE  Held(new, k, w)
  <2>1. CASE b = c
    <3>1. PICK j \in DOMAIN old[s] : Twins(old[s][j], old[b][i])
      BY <1>2, <2>1 DEF Mirrored, Real
    <3>2. new[s] = old[s] /\ Real(new, s, j, k) /\ new[s][j].val = w
      BY <1>1, <1>2, <3>1 DEF Twins, Real
    <3> QED
      BY <3>2 DEF Held
  <2>2. CASE b # c
    BY <1>1, <1>2, <2>2 DEF Held, Real
  <2> QED
    BY <2>1, <2>2
<1>3. ASSUME NEW w, NEW b \in Blk, NEW i \in DOMAIN new[b], Real(new, b, i, k), new[b][i].val = w
      PROVE  Held(old, k, w)
  <2>1. b # c
    BY <1>1, <1>3
  <2> QED
    BY <1>1, <1>3, <2>1 DEF Held, Real
<1>4. ASSUME NEW w, Held(old, k, w) PROVE Held(new, k, w)
  BY <1>2, <1>4 DEF Held
<1>5. ASSUME NEW w, Held(new, k, w) PROVE Held(old, k, w)
  BY <1>3, <1>5 DEF Held
<1> QED
  BY <1>4, <1>5 DEF SameValues

\* kv_do_gc leaves every value on flash, and brings none.
LEMMA GcHolds ==
  ASSUME KvInv, CopyInv, Gc \/ DstErase, NEW k
  PROVE  SameValues(items, items', k)
<1> USE DEF flashVars, tagVars, ramVars, callVars, Goto
<1>1. CASE GcCopy
  <2>1. /\ pc = "gcCopy" /\ gc.i <= Len(items[gc.src])
        /\ \/ items' = items
           \/ /\ items[gc.src][gc.i].live
              /\ items' = [items EXCEPT ![gc.dst] = Append(items[gc.dst], GcCopyOf(items[gc.src][gc.i]))]
    BY <1>1 DEF GcCopy, Append1
  <2>2. /\ gc \in GcJob /\ gc.src \in Blk /\ gc.dst \in Blk /\ gc.src # gc.dst
        /\ items \in [Blk -> Seq(Entry)]
    BY <2>1, GcFacts DEF GcPcs
  <2>3. gc.i \in DOMAIN items[gc.src]
    <3>1. gc.i \in Nat \ {0} /\ items[gc.src] \in Seq(Entry)
      BY <2>2 DEF GcJob
    <3> QED
      BY <2>1, <3>1
  <2>4. CASE items' = items
    BY <2>4 DEF SameValues
  <2>5. CASE items' # items
    <3>1. /\ items[gc.src][gc.i].live
          /\ items' = [items EXCEPT ![gc.dst] = Append(items[gc.dst], GcCopyOf(items[gc.src][gc.i]))]
      BY <2>1, <2>5
    <3>2. items[gc.src][gc.i] \in Entry /\ GcCopyOf(items[gc.src][gc.i]) \in Entry
      BY <3>1, <2>1, CopyFits
    <3>3. Intact(items, {gc.src})
      BY <2>1, <2>2 DEF CopyInv, CopyState, Copying, Sound, Intact
    <3>4. Twins(items[gc.src][gc.i], GcCopyOf(items[gc.src][gc.i]))
      BY <2>3, <3>1, <3>2, <3>3 DEF GcCopyOf, Entry, Twins, Intact
    <3> QED
      BY <2>2, <2>3, <3>1, <3>2, <3>4, CopyHolds
  <2> QED
    BY <2>4, <2>5
<1>2. CASE GcErase
  <2>1. /\ pc = "gcCopy" /\ gc.i > Len(items[gc.src])
        /\ items' = [items EXCEPT ![gc.src] = <<>>]
    BY <1>2 DEF GcErase, Erase
  <2>2. /\ gc \in GcJob /\ gc.src \in Blk /\ gc.dst \in Blk /\ gc.src # gc.dst
        /\ items \in [Blk -> Seq(Entry)]
    BY <2>1, GcFacts DEF GcPcs
  <2>3. gc.i \in Nat
    BY <2>2 DEF GcJob
  <2>4. Copying(items, gc.src, gc.dst, gc.i)
    BY <2>1 DEF CopyInv, CopyState
  <2>5. Mirrored(items, gc.src, gc.dst)
    BY <2>1, <2>2, <2>3, <2>4, CopyEnds
  <2> QED
    BY <2>1, <2>2, <2>5, EraseHolds
<1>3. CASE DstErase
  <2>1. pc = "dstErase" /\ items' = [items EXCEPT ![gc.dst] = <<>>]
    BY <1>3 DEF DstErase, Erase
  <2>2. /\ gc.src \in Blk /\ gc.dst \in Blk /\ gc.src # gc.dst
        /\ items \in [Blk -> Seq(Entry)]
    BY <2>1, GcFacts DEF RedoPcs
  <2>3. Mirrored(items, gc.dst, gc.src)
    BY <2>1 DEF CopyInv, CopyState
  <2> QED
    BY <2>1, <2>2, <2>3, EraseHolds
<1>4. CASE GcMarkSrc \/ GcMarkDst \/ GcMagic \/ GcMarkDone
  <2>1. items' = items
    BY <1>4 DEF GcMarkSrc, GcMarkDst, GcMagic, GcMarkDone
  <2> QED
    BY <2>1 DEF SameValues
<1> QED
  BY <1>1, <1>2, <1>3, <1>4 DEF Gc

\* The logs that a power loss leaves: a torn item more, at most.
LEMMA LossLogs ==
  ASSUME ItemsFit, KvInv, PowerLoss \/ Deinit
  PROVE  \/ items' = items
         \/ /\ pc \in {"save", "gcCopy"}
            /\ \E c \in Blk, t \in Entry :
                 ~(t.live /\ t.ok) /\ items' = [items EXCEPT ![c] = Append(items[c], t)]
<1> USE DEF flashVars, Append1
<1>1. SUFFICES ASSUME items' # items
               PROVE  /\ pc \in {"save", "gcCopy"}
                      /\ \E c \in Blk, t \in Entry :
                           ~(t.live /\ t.ok) /\ items' = [items EXCEPT ![c] = Append(items[c], t)]
  OBVIOUS
<1>2. items' \in TornLogs /\ pc \in {"save", "gcCopy"}
  BY <1>1 DEF PowerLoss, Deinit, TornLogs
<1>3. CASE pc = "save"
  <2>1. PICK t \in Torn(SavedItem) : items' = Append1(ws, t)
    BY <1>1, <1>2, <1>3 DEF TornLogs
  <2>2. ws \in Blk /\ SavedItem \in Entry
    BY <1>3, SavedItemFits
  <2>3. t \in Entry /\ ~(t.live /\ t.ok)
    BY <2>1, <2>2, TornItem, TornIsBad
  <2> QED
    BY <1>2, <2>1, <2>2, <2>3
<1>4. CASE pc = "gcCopy"
  <2>1. gc.dst \in Blk /\ gc.src \in Blk /\ items \in [Blk -> Seq(Entry)]
    BY <1>4, GcFacts DEF GcPcs
  <2>2. PICK t \in Torn(GcCopyOf(items[gc.src][gc.i])) :
          gc.i \in DOMAIN items[gc.src] /\ items' = Append1(gc.dst, t)
    BY <1>1, <1>2, <1>4 DEF TornLogs
  <2>3. gc.i <= Len(items[gc.src])
    <3>1. items[gc.src] \in Seq(Entry)
      BY <2>1
    <3> QED
      BY <2>2, <3>1
  <2>4. GcCopyOf(items[gc.src][gc.i]) \in Entry
    BY <1>4, <2>3, CopyFits
  <2>5. t \in Entry /\ ~(t.live /\ t.ok)
    BY <2>2, <2>4, TornItem, TornIsBad
  <2> QED
    BY <1>2, <2>1, <2>2, <2>5
<1> QED
  BY <1>2, <1>3, <1>4

\* A power loss changes no value on flash.
LEMMA LossHolds ==
  ASSUME ItemsFit, KvInv, PowerLoss \/ Deinit, NEW k
  PROVE  SameValues(items, items', k)
<1>1. CASE items' = items
  BY <1>1 DEF SameValues
<1>2. CASE items' # items
  <2>1. PICK c \in Blk, t \in Entry :
          ~(t.live /\ t.ok) /\ items' = [items EXCEPT ![c] = Append(items[c], t)]
    BY <1>2, LossLogs
  <2>2. items \in [Blk -> Seq(Entry)]
    BY DEF KvInv, Typed
  <2> QED
    BY <2>1, <2>2, TornHolds
<1> QED
  BY <1>1, <1>2

\* The logs have the same intact copies of k.
SameReal(old, new, k) ==
  \A b \in Blk :
    /\ DOMAIN new[b] = DOMAIN old[b]
    /\ \A i \in DOMAIN old[b] : Real(old, b, i, k) <=> Real(new, b, i, k)
    /\ \A i \in DOMAIN old[b] : Real(old, b, i, k) => new[b][i] = old[b][i]

\* No intact copy of k is at offset o of block c.
Misses(logs, c, o, k) == \A j \in DOMAIN logs[c] : logs[c][j].off = o => ~Real(logs, c, j, k)

\* The copies of k that a discard does not hit stay as they are.
LEMMA DiscardMisses ==
  ASSUME NEW old \in [Blk -> Seq(Entry)], NEW c \in Blk, NEW o,
         NEW new, new = [old EXCEPT ![c] = DiscardAt(old[c], o)], NEW k,
         Misses(old, c, o, k)
  PROVE  SameReal(old, new, k)
<1>0. Shrunk(old, new)
  BY DiscardShrinks
<1>1. ASSUME NEW b \in Blk PROVE DOMAIN new[b] = DOMAIN old[b]
  BY DEF DiscardAt
<1>4. ASSUME NEW b \in Blk, NEW i \in DOMAIN old[b], <<b, old[b][i].off>> # <<c, o>>
      PROVE  new[b][i] = old[b][i]
  BY <1>4 DEF DiscardAt
<1>2. ASSUME NEW b \in Blk, NEW i \in DOMAIN old[b], Real(old, b, i, k)
      PROVE  new[b][i] = old[b][i]
  <2>1. <<b, old[b][i].off>> # <<c, o>>
    BY <1>2 DEF Misses
  <2> QED
    BY <1>4, <2>1
<1>3. ASSUME NEW b \in Blk, NEW i \in DOMAIN old[b], Real(new, b, i, k)
      PROVE  new[b][i] = old[b][i]
  BY <1>0, <1>1, <1>3 DEF Shrunk, Real
<1> QED
  BY <1>1, <1>2, <1>3 DEF SameReal, Real

\* The same copies hold the same values.
LEMMA SameRealValues ==
  ASSUME NEW old, NEW new, NEW k, SameReal(old, new, k)
  PROVE  SameValues(old, new, k)
<1>1. ASSUME NEW w, Held(old, k, w) PROVE Held(new, k, w)
  <2>1. PICK b \in Blk : \E i \in DOMAIN old[b] : Real(old, b, i, k) /\ old[b][i].val = w
    BY <1>1 DEF Held
  <2> QED
    BY <2>1 DEF Held, SameReal
<1>2. ASSUME NEW w, Held(new, k, w) PROVE Held(old, k, w)
  <2>1. PICK b \in Blk : \E i \in DOMAIN new[b] : Real(new, b, i, k) /\ new[b][i].val = w
    BY <1>2 DEF Held
  <2>2. PICK i \in DOMAIN new[b] : Real(new, b, i, k) /\ new[b][i].val = w
    BY <2>1
  <2>3. i \in DOMAIN old[b] /\ Real(old, b, i, k) /\ old[b][i].val = w
    BY <2>2 DEF SameReal
  <2> QED
    BY <2>3 DEF Held
<1> QED
  BY <1>1, <1>2 DEF SameValues

\* Two copies that the scan has to decide on, in their order.
LEMMA OrderedPair ==
  ASSUME NEW logs \in [Blk -> Seq(Entry)], NEW k, ~OneIn(logs, Blk, k)
  PROVE  \E b, c \in Blk : \E i \in DOMAIN logs[b], j \in DOMAIN logs[c] :
           Real(logs, b, i, k) /\ Real(logs, c, j, k) /\ Before(<<b, i>>, <<c, j>>)
<1>1. PICK b \in Blk, c \in Blk : \E i \in DOMAIN logs[b], j \in DOMAIN logs[c] :
        Real(logs, b, i, k) /\ Real(logs, c, j, k) /\ <<b, i>> # <<c, j>>
  BY DEF OneIn
<1>2. PICK i \in DOMAIN logs[b], j \in DOMAIN logs[c] :
        Real(logs, b, i, k) /\ Real(logs, c, j, k) /\ <<b, i>> # <<c, j>>
  BY <1>1
<1>3. <<b, i>> \in CopiesIn(logs, Blk, k) /\ <<c, j>> \in CopiesIn(logs, Blk, k)
  BY <1>2, CopyOf DEF Real
<1>4. Before(<<b, i>>, <<c, j>>) \/ Before(<<c, j>>, <<b, i>>)
  BY <1>2, <1>3, BeforeTotal
<1> QED
  BY <1>2, <1>4

\* With no key in three copies, a pair is all there is of its key.
LEMMA PairIsAll ==
  ASSUME NEW logs, AtMostTwo(logs), NEW k,
         NEW b \in Blk, NEW i \in DOMAIN logs[b], NEW c \in Blk, NEW j \in DOMAIN logs[c],
         Real(logs, b, i, k), Real(logs, c, j, k), <<b, i>> # <<c, j>>,
         NEW e \in Blk, NEW n \in DOMAIN logs[e], Real(logs, e, n, k)
  PROVE  <<e, n>> = <<b, i>> \/ <<e, n>> = <<c, j>>
<1> SUFFICES ASSUME <<e, n>> # <<b, i>> PROVE <<e, n>> = <<c, j>>
  OBVIOUS
<1>1. Rivals(logs, b, i, c, j) /\ Rivals(logs, b, i, e, n)
  BY DEF Rivals, Real
<1> QED
  BY <1>1 DEF AtMostTwo, Real

\* The same copies are recovered in the same way.
LEMMA RecoverSame ==
  ASSUME NEW old \in [Blk -> Seq(Entry)], NEW new \in [Blk -> Seq(Entry)], NEW k,
         SameReal(old, new, k), AtMostTwo(old), NEW x, NEW y, Recoverable(old, x, y)
  PROVE  Recovered(new, k) = Recovered(old, k)
<1>1. CASE OneIn(old, Blk, k)
  <2>1. OneIn(new, Blk, k)
    BY <1>1 DEF OneIn, SameReal
  <2>2. Worth(old, k, Recovered(old, k))
    BY <1>1, RecoverOne DEF Recovered
  <2>3. Worth(new, k, Recovered(new, k))
    BY <2>1, RecoverOne DEF Recovered
  <2>4. Worth(new, k, Recovered(old, k))
    BY <2>2, SameRealValues, WorthKept
  <2> QED
    BY <2>3, <2>4, WorthOnce
<1>2. CASE ~OneIn(old, Blk, k)
  <2>1. PICK b \in Blk, c \in Blk : \E i \in DOMAIN old[b], j \in DOMAIN old[c] :
          Real(old, b, i, k) /\ Real(old, c, j, k) /\ Before(<<b, i>>, <<c, j>>)
    BY <1>2, OrderedPair
  <2>2. PICK i \in DOMAIN old[b], j \in DOMAIN old[c] :
          Real(old, b, i, k) /\ Real(old, c, j, k) /\ Before(<<b, i>>, <<c, j>>)
    BY <2>1
  <2>3. <<b, i>> # <<c, j>>
    <3>1. <<b, i>> \in CopiesIn(old, Blk, k) /\ <<c, j>> \in CopiesIn(old, Blk, k)
      BY <2>2, CopyOf DEF Real
    <3> QED
      BY <2>2, <3>1, BeforeTotal
  <2>4. OnlyPair(old, k, b, i, c, j)
    BY <2>2, <2>3, PairIsAll DEF OnlyPair
  <2>5. Updates(old, b, i, c, j) \/ Updates(old, c, j, b, i)
    <3>1. Rivals(old, b, i, c, j) /\ old[b][i].ok /\ old[c][j].ok
      BY <2>2, <2>3 DEF Rivals, Real
    <3> QED
      BY <3>1 DEF Recoverable
  <2>6. /\ i \in DOMAIN new[b] /\ j \in DOMAIN new[c]
        /\ Real(new, b, i, k) /\ Real(new, c, j, k)
        /\ new[b][i] = old[b][i] /\ new[c][j] = old[c][j]
    BY <2>2 DEF SameReal
  <2>7. OnlyPair(new, k, b, i, c, j)
    BY <2>4 DEF SameReal, OnlyPair
  <2>8. /\ Updates(new, b, i, c, j) <=> Updates(old, b, i, c, j)
        /\ Updates(new, c, j, b, i) <=> Updates(old, c, j, b, i)
    BY <2>6 DEF Updates
  <2>9. /\ Updates(old, b, i, c, j) => Recovered(old, k) = ValueAt(old, b, i)
        /\ ~Updates(old, b, i, c, j) => Recovered(old, k) = ValueAt(old, c, j)
    <3>1. PairOf(old, k, b, i, c, j)
      BY <2>2, <2>4, <2>5 DEF PairOf
    <3> QED
      BY <3>1, RecoverPair
  <2>10. /\ Updates(new, b, i, c, j) => Recovered(new, k) = ValueAt(new, b, i)
         /\ ~Updates(new, b, i, c, j) => Recovered(new, k) = ValueAt(new, c, j)
    <3>1. Updates(new, b, i, c, j) \/ Updates(new, c, j, b, i)
      BY <2>5, <2>8
    <3>2. PairOf(new, k, b, i, c, j)
      BY <2>2, <2>6, <2>7, <3>1 DEF PairOf
    <3> QED
      BY <3>2, RecoverPair
  <2> QED
    BY <2>6, <2>8, <2>9, <2>10 DEF ValueAt
<1> QED
  BY <1>1, <1>2

----------------------------------------------------------------------------
(* The pairs of copies that a scan decides on *)

\* Fewer live items make no new pairs.
LEMMA ShrunkTwo ==
  ASSUME NEW old, NEW new, Shrunk(old, new), AtMostTwo(old)
  PROVE  AtMostTwo(new)
<1> SUFFICES ASSUME NEW b \in Blk, NEW c \in Blk, NEW d \in Blk,
                    NEW i \in DOMAIN new[b], NEW j \in DOMAIN new[c], NEW n \in DOMAIN new[d],
                    Rivals(new, b, i, c, j), Rivals(new, b, i, d, n),
                    new[b][i].ok, new[c][j].ok, new[d][n].ok
             PROVE  <<c, j>> = <<d, n>>
  BY DEF AtMostTwo
<1>1. /\ i \in DOMAIN old[b] /\ new[b][i] = old[b][i]
      /\ j \in DOMAIN old[c] /\ new[c][j] = old[c][j]
      /\ n \in DOMAIN old[d] /\ new[d][n] = old[d][n]
  BY DEF Shrunk, Rivals
<1>2. Rivals(old, b, i, c, j) /\ Rivals(old, b, i, d, n)
  BY <1>1 DEF Rivals
<1> QED
  BY <1>1, <1>2 DEF AtMostTwo

\* Sound logs have no pairs, with or without a torn item.
LEMMA SoundTwo ==
  ASSUME NEW logs, Sound(logs, Blk)
  PROVE  AtMostTwo(logs)
  BY DEF Sound, Unique, AtMostTwo

\* Nor does a torn item make one: it is not intact.
LEMMA TornTwo ==
  ASSUME NEW old \in [Blk -> Seq(Entry)], Sound(old, Blk), NEW c \in Blk, NEW t \in Entry,
         ~(t.live /\ t.ok), NEW new, new = [old EXCEPT ![c] = Append(old[c], t)]
  PROVE  AtMostTwo(new)
<1>1. /\ \A b \in Blk \ {c} : new[b] = old[b]
      /\ DOMAIN new[c] = DOMAIN old[c] \cup {Len(old[c]) + 1}
      /\ new[c][Len(old[c]) + 1] = t
      /\ \A i \in DOMAIN old[c] : new[c][i] = old[c][i]
  BY AppendAdds
<1>2. ASSUME NEW b \in Blk, NEW i \in DOMAIN new[b], new[b][i].live, new[b][i].ok
      PROVE  i \in DOMAIN old[b] /\ new[b][i] = old[b][i]
  BY <1>1, <1>2
<1>3. ASSUME NEW b \in Blk, NEW d \in Blk, NEW i \in DOMAIN new[b], NEW j \in DOMAIN new[d],
             Rivals(new, b, i, d, j), new[b][i].ok, new[d][j].ok
      PROVE  FALSE
  <2>1. /\ i \in DOMAIN old[b] /\ new[b][i] = old[b][i]
        /\ j \in DOMAIN old[d] /\ new[d][j] = old[d][j]
    BY <1>2, <1>3 DEF Rivals
  <2> QED
    BY <1>3, <2>1 DEF Sound, Unique, Rivals
<1> QED
  BY <1>3 DEF AtMostTwo

\* A position names one item.
LEMMA OneAt ==
  ASSUME NEW logs \in [Blk -> Seq(Entry)], NEW b \in Blk, Increasing(logs[b]),
         NEW i \in DOMAIN logs[b], NEW j \in DOMAIN logs[b], logs[b][i].off = logs[b][j].off
  PROVE  i = j
<1>1. logs[b] \in Seq(Entry)
  OBVIOUS
<1>2. i \in Nat /\ j \in Nat /\ logs[b][i] \in Entry /\ logs[b][j] \in Entry
  BY <1>1
<1>3. logs[b][i].off \in Nat /\ logs[b][j].off \in Nat
  BY <1>2, SizeAssumption DEF Entry
<1> QED
  BY <1>2, <1>3 DEF Increasing

\* An update makes one pair.
LEMMA ReplacingTwo ==
  ASSUME NEW logs \in [Blk -> Seq(Entry)], \A b \in Blk : Increasing(logs[b]), NEW p,
         Replacing(logs, p)
  PROVE  AtMostTwo(logs)
<1> SUFFICES ASSUME NEW b \in Blk, NEW c \in Blk, NEW d \in Blk,
                    NEW i \in DOMAIN logs[b], NEW j \in DOMAIN logs[c], NEW n \in DOMAIN logs[d],
                    Rivals(logs, b, i, c, j), Rivals(logs, b, i, d, n), <<c, j>> # <<d, n>>
             PROVE  FALSE
  BY DEF AtMostTwo
<1>1. ASSUME NEW x \in Blk, NEW y \in Blk, NEW u \in DOMAIN logs[x], NEW v \in DOMAIN logs[y],
             p = <<x, logs[x][u].off>>, p = <<y, logs[y][v].off>>
      PROVE  <<x, u>> = <<y, v>>
  <2>1. x = y /\ logs[x][u].off = logs[x][v].off /\ v \in DOMAIN logs[x]
    BY <1>1
  <2>2. Increasing(logs[x])
    OBVIOUS
  <2> QED
    BY <2>1, <2>2, OneAt
<1>2. Rivals(logs, c, j, d, n)
  BY DEF Rivals
<1>3. p = <<b, logs[b][i].off>> \/ p = <<c, logs[c][j].off>>
  BY DEF Replacing
<1>4. p = <<b, logs[b][i].off>> \/ p = <<d, logs[d][n].off>>
  BY DEF Replacing
<1>5. p = <<c, logs[c][j].off>> \/ p = <<d, logs[d][n].off>>
  BY <1>2 DEF Replacing
<1>6. <<b, i>> # <<c, j>> /\ <<b, i>> # <<d, n>>
  BY DEF Rivals
<1> QED
  BY <1>1, <1>3, <1>4, <1>5, <1>6

\* A scan that has passed nothing has settled nothing.
LEMMA SettledStart ==
  ASSUME NEW logs \in [Blk -> Seq(Entry)]
  PROVE  Settled(logs, 1, 1)
<1>1. ASSUME NEW b \in Blk, NEW i \in DOMAIN logs[b] PROVE ~Passes(1, 1, b, i)
  <2>1. logs[b] \in Seq(Entry)
    OBVIOUS
  <2>2. b \in Nat /\ b >= 1 /\ i \in Nat /\ i >= 1
    BY <2>1, SizeAssumption DEF Blk
  <2> QED
    BY <2>2 DEF Passes
<1> QED
  BY <1>1 DEF Settled

\* The scan settles the item it stands at, and moves on.
LEMMA SettledItem ==
  ASSUME KvInv, FlashShape, ScanItem, Settled(items, at.blk, at.i)
  PROVE  Settled(items', at.blk, at.i + 1)
<1> DEFINE x == at.blk
           y == at.i
           new == items'
<1>1. x \in Blk /\ new \in [Blk -> Seq(Entry)] /\ y \in Nat /\ Shrunk(items, new)
  <2>1. KvInv'
    BY BuildStep
  <2> QED
    BY <2>1, ScanItemCases, ScanEffect DEF KvInv, Typed
<1>2. y \in DOMAIN new[x] => \A c \in Blk : \A j \in DOMAIN new[c] :
        Rivals(new, x, y, c, j) => ~Updates(new, x, y, c, j)
  BY ItemRepaired
<1>3. Settled(items, x, y)
  OBVIOUS
<1> HIDE DEF x, y, new
<1>4. ASSUME NEW b \in Blk, NEW c \in Blk, NEW i \in DOMAIN new[b], NEW j \in DOMAIN new[c],
             Rivals(new, b, i, c, j), new[b][i].ok, new[c][j].ok, Passes(x, y + 1, b, i)
      PROVE  ~Updates(new, b, i, c, j)
  <2>1. b \in Nat /\ x \in Nat /\ i \in Nat
    <3>1. new[b] \in Seq(Entry)
      BY <1>1
    <3> QED
      BY <1>1, <3>1 DEF Blk
  <2>2. Passes(x, y, b, i) \/ (b = x /\ i = y)
    BY <1>1, <1>4, <2>1 DEF Passes
  <2>3. CASE b = x /\ i = y
    BY <1>2, <1>4, <2>3
  <2>4. CASE Passes(x, y, b, i)
    <3>1. /\ i \in DOMAIN items[b] /\ new[b][i] = items[b][i]
          /\ j \in DOMAIN items[c] /\ new[c][j] = items[c][j]
      BY <1>1, <1>4 DEF Shrunk, Rivals
    <3>2. Rivals(items, b, i, c, j) /\ items[b][i].ok /\ items[c][j].ok
      BY <1>4, <3>1 DEF Rivals
    <3>3. ~Updates(items, b, i, c, j)
      BY <1>3, <2>4, <3>1, <3>2 DEF Settled
    <3> QED
      BY <3>1, <3>3 DEF Updates
  <2> QED
    BY <2>2, <2>3, <2>4
<1>5. Settled(new, x, y + 1)
  BY <1>4 DEF Settled
<1> QED
  BY <1>5 DEF x, y, new

\* The end of a block settles nothing new.
LEMMA SettledBlock ==
  ASSUME NEW logs \in [Blk -> Seq(Entry)], NEW x \in Blk, NEW y \in Nat, y > Len(logs[x]),
         Settled(logs, x, y)
  PROVE  Settled(logs, x + 1, 1)
<1>1. ASSUME NEW b \in Blk, NEW i \in DOMAIN logs[b], Passes(x + 1, 1, b, i)
      PROVE  Passes(x, y, b, i)
  <2>1. logs[b] \in Seq(Entry)
    OBVIOUS
  <2>2. b \in Nat /\ x \in Nat /\ i \in Nat /\ i >= 1 /\ i <= Len(logs[b]) /\ Len(logs[b]) \in Nat
    BY <2>1 DEF Blk
  <2>3. b < x \/ b = x
    BY <1>1, <2>2 DEF Passes
  <2>4. CASE b = x
    BY <2>2, <2>4 DEF Passes
  <2>5. CASE b < x
    BY <2>5 DEF Passes
  <2> QED
    BY <2>3, <2>4, <2>5
<1> QED
  BY <1>1 DEF Settled

\* ln_kv_init keeps what its scan relies on.
LEMMA BootScanState ==
  ASSUME KvInv, CopyInv, ScanState, Boot, ItemsFit
  PROVE  ScanState'
<1> USE DEF flashVars, tagVars, ramVars, callVars, Goto, CallGc
<1>0. items \in [Blk -> Seq(Entry)] /\ FlashShape
  BY DEF KvInv, Typed, CopyInv
<1>1. CASE PowerUp
  <2>1. /\ pc = "down" /\ pc' = "scan" /\ items' = items /\ gcSrc' = gcSrc
        /\ FrontBlk' = 1 /\ FrontItem' = 1
    BY <1>1 DEF PowerUp, FrontBlk, FrontItem, Start
  <2> QED
    BY <1>0, <2>1, SettledStart DEF ScanState, BootScan
<1>2. CASE ScanFormat \/ ScanSkip \/ ScanItem \/ ScanEnd
  <2>1. SUFFICES ASSUME gcSrc' = {} PROVE AtMostTwo(items') /\ Settled(items', FrontBlk', FrontItem')
    BY DEF ScanState
  <2>2. /\ pc = "scan" /\ at.blk \in Blk /\ at.i \in Nat \ {0}
        /\ UNCHANGED <<gcSrc, gcDst, gcDone>> /\ Shrunk(items, items')
        /\ \/ /\ FrontBlk' = at.blk + 1 /\ FrontItem' = 1 /\ items' = items
              /\ \/ at.blk \in gcSrc \cup DstNotDone
                 \/ at.i > Len(items[at.blk])
           \/ ScanItem /\ FrontBlk' = at.blk /\ FrontItem' = at.i + 1
    BY <1>0, <1>2, ScanEffect
  <2>3. AtMostTwo(items) /\ Settled(items, at.blk, at.i)
    BY <2>1, <2>2 DEF ScanState, BootScan, FrontBlk, FrontItem
  <2>4. gcSrc = {} /\ DstNotDone = {}
    BY <2>1, <2>2 DEF CopyInv, GcTags, BootScan
  <2>5. AtMostTwo(items')
    BY <2>2, <2>3, ShrunkTwo
  <2>6. CASE /\ FrontBlk' = at.blk + 1 /\ FrontItem' = 1 /\ items' = items
             /\ at.i > Len(items[at.blk])
    <3>1. Settled(items, at.blk + 1, 1)
      BY <1>0, <2>2, <2>3, <2>6, SettledBlock
    <3> QED
      BY <2>5, <2>6, <3>1
  <2>7. CASE ScanItem /\ FrontBlk' = at.blk /\ FrontItem' = at.i + 1
    BY <1>0, <2>3, <2>5, <2>7, SettledItem
  <2> QED
    BY <2>2, <2>4, <2>6, <2>7
<1>3. CASE ~(PowerUp \/ ScanFormat \/ ScanSkip \/ ScanItem \/ ScanEnd)
  <2>1. pc' \notin BootScan
    BY <1>3 DEF Boot, StatusError, NothingToRedo, RedoOnFresh, RedoOnDst, DstErase, DstMagic,
                LocateGc, Locate, BootScan
  <2> QED
    BY <2>1 DEF ScanState
<1> QED
  BY <1>1, <1>2, <1>3

\* A power loss leaves one pair of copies to decide on at most.
LEMMA LossScanState ==
  ASSUME ItemsFit, KvInv, CopyInv, ScanState, PowerLoss \/ Deinit
  PROVE  ScanState'
<1>1. /\ pc' = "down" /\ FrontBlk' = 1 /\ FrontItem' = 1 /\ gcSrc' = gcSrc
      /\ pc \in Pcs /\ pc # "down"
  BY DEF PowerLoss, Deinit, Halt, Goto, FrontBlk, FrontItem, KvInv, Typed, tagVars, flashVars
<1>2. items \in [Blk -> Seq(Entry)] /\ items' \in [Blk -> Seq(Entry)]
  <2>1. KvInv'
    BY LossStep
  <2> QED
    BY <2>1 DEF KvInv, Typed
<1>3. SUFFICES ASSUME gcSrc = {} PROVE AtMostTwo(items')
  BY <1>1, <1>2, SettledStart DEF ScanState
<1>4. pc \notin {"gcDst", "dstMagic", "gcCopy", "dstErase"}
  BY <1>3 DEF CopyInv, GcTags
<1>5. \/ items' = items
      \/ /\ pc = "save"
         /\ \E c \in Blk, t \in Entry :
              ~(t.live /\ t.ok) /\ items' = [items EXCEPT ![c] = Append(items[c], t)]
  BY <1>4, LossLogs
<1>6. CASE pc \in QuietPcs
  <2>1. Sound(items, Blk)
    BY <1>6 DEF CopyInv, CopyState
  <2>2. CASE items' = items
    BY <2>1, <2>2, SoundTwo
  <2>3. CASE items' # items
    BY <1>2, <1>5, <2>1, <2>3, TornTwo
  <2> QED
    BY <2>2, <2>3
<1>7. CASE pc = "discard"
  BY <1>2, <1>5, <1>7, ReplacingTwo DEF CopyInv, CopyState, FlashShape
<1>8. CASE pc \in BootScan
  BY <1>3, <1>5, <1>8 DEF ScanState, BootScan
<1> QED
  BY <1>1, <1>4, <1>6, <1>7, <1>8 DEF Pcs, BootPcs, GcPcs, OpPcs, QuietPcs, BootScan

\* Every step keeps what a scan relies on.
LEMMA ScanStateStep ==
  ASSUME ItemsFit, KvInv, CopyInv, ScanState, Next
  PROVE  ScanState'
<1>1. CASE Boot
  BY <1>1, BootScanState
<1>2. CASE PowerLoss \/ Deinit
  BY <1>2, LossScanState
<1>3. CASE Gc \/ Serve \/ \E r \in Requests : Call(r)
  <2>1. pc' \notin BootScan
    <3> USE DEF BootScan, Goto, Return, CallGc, Chosen, Refused
    <3>1. CASE Gc
      <4>1. pc = "gcDone" => gc.ret \in {"search", "locate", "relocate"}
        BY GcFacts DEF GcPcs, GcJob
      <4> QED
        BY <3>1, <4>1 DEF Gc, GcMarkSrc, GcMarkDst, GcCopy, GcErase, GcMagic, GcMarkDone
    <3>2. CASE \E r \in Requests : Call(r)
      BY <3>2 DEF Call
    <3>3. CASE FindSkip \/ FindMiss \/ FindHit \/ WalkNone
      BY <3>3 DEF FindSkip, FindMiss, FindHit, WalkNone, WalkSkip, WalkMiss
    <3>4. CASE \/ Enter \/ EnterRefused \/ SearchWorkspace \/ SearchInuse \/ SearchFull
               \/ SearchFresh \/ SearchGc
      BY <3>4 DEF Enter, EnterRefused, SearchWorkspace, SearchInuse, SearchFull, SearchFresh,
                  SearchGc
    <3>5. CASE FixSkip \/ FixMiss \/ FixHit \/ Save \/ Discard
      BY <3>5 DEF FixSkip, FixMiss, FixHit, Save, Discard, WalkSkip, WalkMiss
    <3> QED
      BY <1>3, <3>1, <3>2, <3>3, <3>4, <3>5 DEF Serve
  <2> QED
    BY <2>1 DEF ScanState
<1> QED
  BY <1>1, <1>2, <1>3 DEF Next

----------------------------------------------------------------------------
(* The item that a call replaces *)

\* Block b holds value v of k.
HeldIn(logs, b, k, v) ==
  \E i \in DOMAIN logs[b] : Real(logs, b, i, k) /\ logs[b][i].val = v

\* A step out of which nothing is replaced.
LEMMA OldVacuous ==
  ASSUME pc' \notin {"discard", "fix"}, ~Setting', Busy' <=> req' # NoRequest
  PROVE  OldState'
  BY DEF OldState

\* A call that returns has nothing left to discard.
LEMMA OldReturn ==
  ASSUME NEW code, NEW v, Return(code, v)
  PROVE  OldState'
<1>1. pc' = "idle" /\ req' = NoRequest
  BY DEF Return, Goto
<1> QED
  BY <1>1, OldVacuous DEF Setting, Busy, GcPcs, OpPcs

\* A set on its way to the write whose old value stays on flash.
LEMMA OldSetting ==
  ASSUME OldState, Setting, UNCHANGED <<req, cur>>, \A k : SameValues(items, items', k),
         pc' \in {"enter", "search", "save"} \/ (pc' \in GcPcs /\ gc'.ret = "search")
  PROVE  OldState'
<1>1. Busy /\ Busy' /\ Setting' /\ pc' \notin {"discard", "fix"}
  BY DEF Busy, Setting, OpPcs, GcPcs
<1>2. req' # NoRequest
  BY <1>1 DEF OldState
<1>3. cur' # NoItem => Held(items', req'.key, cur'.ent.val)
  BY DEF OldState, SameValues
<1> QED
  BY <1>1, <1>2, <1>3 DEF OldState

\* ln_kv_init has no call to keep anything for.
LEMMA BootOld ==
  ASSUME KvInv, OldState, Boot
  PROVE  OldState'
<1> USE DEF flashVars, tagVars, ramVars, callVars, Goto, CallGc
<1>1. /\ pc \in {"down"} \cup BootPcs /\ req' = req
      /\ pc' \in BootPcs \cup {"idle"} \/ (pc' \in GcPcs /\ gc'.ret # "search")
  <2>1. CASE PowerUp \/ ScanFormat \/ ScanSkip \/ ScanItem \/ ScanEnd
    BY <2>1 DEF PowerUp, ScanFormat, ScanSkip, ScanItem, ScanEnd, Indexing, NextScan, BootPcs
  <2>2. CASE StatusError \/ NothingToRedo \/ Locate
    BY <2>2 DEF StatusError, NothingToRedo, Locate, BootPcs
  <2>3. CASE RedoOnFresh \/ RedoOnDst \/ LocateGc
    BY <2>3 DEF RedoOnFresh, RedoOnDst, LocateGc, BootPcs, GcPcs
  <2>4. CASE DstErase
    BY <2>4 DEF DstErase, BootPcs
  <2>5. CASE DstMagic
    BY <2>5 DEF DstMagic, KvInv, GcState, RedoPcs, BootPcs, GcPcs
  <2> QED
    BY <2>1, <2>2, <2>3, <2>4, <2>5 DEF Boot
<1>2. ~Busy /\ ~Busy' /\ ~Setting' /\ pc' \notin {"discard", "fix"}
  BY <1>1 DEF Busy, Setting, BootPcs, OpPcs, GcPcs
<1> QED
  BY <1>1, <1>2, OldVacuous DEF OldState

\* A gc inside a call keeps the value that the call replaces.
LEMMA GcOld ==
  ASSUME KvInv, CopyInv, OldState, Gc
  PROVE  OldState'
<1> USE DEF flashVars, tagVars, ramVars, callVars, Goto
<1>1. /\ pc \in GcPcs /\ UNCHANGED <<req, cur>>
      /\ (pc' \in GcPcs /\ gc'.ret = gc.ret) \/ pc' = gc.ret
  <2>1. CASE GcMarkSrc \/ GcMarkDst \/ GcErase \/ GcMagic
    BY <2>1 DEF GcMarkSrc, GcMarkDst, GcErase, GcMagic, GcPcs
  <2>2. CASE GcCopy
    <3>1. /\ pc = "gcCopy" /\ pc' = pc /\ UNCHANGED <<req, cur>>
          /\ gc' = [gc EXCEPT !.i = gc.i + 1]
      BY <2>2 DEF GcCopy
    <3>2. gc \in GcJob
      BY <3>1, GcFacts DEF GcPcs
    <3> QED
      BY <3>1, <3>2 DEF GcPcs, GcJob
  <2>3. CASE GcMarkDone
    BY <2>3 DEF GcMarkDone, GcPcs
  <2> QED
    BY <2>1, <2>2, <2>3 DEF Gc
<1>2. gc.ret \in {"search", "locate", "relocate"}
  BY <1>1, GcFacts DEF GcJob
<1>3. CASE gc.ret = "search"
  <2>1. \A k : SameValues(items, items', k)
    BY GcHolds
  <2> QED
    BY <1>1, <1>3, <2>1, OldSetting DEF Setting
<1>4. CASE gc.ret # "search"
  <2>1. ~Busy /\ ~Busy' /\ ~Setting' /\ pc' \notin {"discard", "fix"}
    BY <1>1, <1>2, <1>4 DEF Busy, Setting, OpPcs, GcPcs
  <2> QED
    BY <1>1, <2>1, OldVacuous DEF OldState
<1> QED
  BY <1>3, <1>4

\* kv_item_find returns an intact item.
LEMMA FindOld ==
  ASSUME KvInv, CopyInv, OldState, FindSkip \/ FindMiss \/ FindHit \/ WalkNone
  PROVE  OldState'
<1> USE DEF flashVars, tagVars, ramVars, callVars, Goto
<1>1. CASE FindSkip \/ FindMiss
  <2>1. pc = "find" /\ pc' = "find" /\ req' = req
    <3>1. CASE FindSkip
      BY <3>1 DEF FindSkip, WalkSkip
    <3>2. CASE FindMiss
      BY <3>2 DEF FindMiss, WalkMiss
    <3> QED
      BY <1>1, <3>1, <3>2
  <2> QED
    BY <2>1, OldVacuous DEF OldState, Setting, Busy, OpPcs, GcPcs
<1>2. CASE FindHit
  <2>1. PICK i \in Matches(at.blk, HasKey) :
          LET e == items[at.blk][i] IN
            \/ Return("ok", e.val)
            \/ Return("ok", Absent)
            \/ /\ req.type \in {"set", "del"}
               /\ cur' = [blk |-> at.blk, ent |-> e]
               /\ pc' = IF req.type = "set" THEN "enter" ELSE "discard"
               /\ UNCHANGED <<req, res>>
    BY <1>2 DEF FindHit
  <2>2. /\ at.blk \in Blk /\ i \in DOMAIN items[at.blk] /\ items[at.blk][i].live
        /\ items[at.blk][i].key = req.key /\ pc = "find" /\ items' = items
    BY <1>2, <2>1 DEF FindHit, Matches, HasKey, WalkHit
  <2>3. Sound(items, Blk)
    BY <2>2 DEF CopyInv, CopyState, QuietPcs, OpPcs
  <2>4. Real(items, at.blk, i, req.key)
    BY <2>2, <2>3 DEF Sound, Intact, Real
  <2>5. CASE Return("ok", items[at.blk][i].val) \/ Return("ok", Absent)
    BY <2>5, OldReturn
  <2>6. CASE /\ req.type \in {"set", "del"}
             /\ cur' = [blk |-> at.blk, ent |-> items[at.blk][i]]
             /\ pc' = IF req.type = "set" THEN "enter" ELSE "discard"
             /\ UNCHANGED <<req, res>>
    <3>1. cur'.ent = items[at.blk][i] /\ CurPos' = <<at.blk, items[at.blk][i].off>>
      <4>1. at.blk # 0
        BY <2>2 DEF Blk
      <4>2. cur' # NoItem /\ cur'.blk = at.blk /\ cur'.ent = items[at.blk][i]
        BY <2>6, <4>1 DEF NoItem
      <4> QED
        BY <4>2 DEF CurPos
    <3>2. Busy' /\ req' # NoRequest
      BY <2>2, <2>6 DEF Busy, OldState, OpPcs
    <3>3. CASE req.type = "set"
      <4>1. Held(items', req'.key, cur'.ent.val)
        BY <2>2, <2>4, <2>6, <3>1 DEF Held
      <4> QED
        BY <2>6, <3>2, <3>3, <4>1 DEF OldState
    <3>4. CASE req.type = "del"
      <4>1. HeldAt(items', CurPos', req'.key, cur'.ent.val)
        BY <2>2, <2>4, <2>6, <3>1 DEF HeldAt
      <4>2. Unique(items', Blk)
        BY <2>2, <2>3 DEF Sound
      <4> QED
        BY <2>6, <3>2, <3>4, <4>1, <4>2 DEF OldState, Setting, GcPcs
    <3> QED
      BY <2>6, <3>3, <3>4
  <2> QED
    BY <2>1, <2>5, <2>6
<1>3. CASE WalkNone
  <2>1. CASE pc = "find" /\ req.type = "set"
    <3>1. pc' = "enter" /\ UNCHANGED <<req, cur, items>> /\ cur = NoItem
      BY <1>3, <2>1 DEF WalkNone, CopyInv, FoundState, Setting, GcPcs
    <3>2. Busy /\ Busy'
      BY <2>1, <3>1 DEF Busy, OpPcs
    <3> QED
      BY <3>1, <3>2 DEF OldState
  <2>2. CASE ~(pc = "find" /\ req.type = "set")
    BY <1>3, <2>2, OldReturn DEF WalkNone
  <2> QED
    BY <2>1, <2>2
<1> QED
  BY <1>1, <1>2, <1>3

\* kv_item_fix looks for the value in every item.
LEMMA NoMatchNoSame ==
  ASSUME items \in [Blk -> Seq(Entry)], NEW b \in Blk, Matches(b, SameItem) = {}
  PROVE  ~HeldIn(items, b, req.key, cur.ent.val)
<1> DEFINE S == {i \in DOMAIN items[b] :
                   items[b][i].live /\ items[b][i].key = req.key /\ items[b][i].val = cur.ent.val}
<1>1. items[b] \in Seq(Entry) /\ S \subseteq Nat
  <2>1. items[b] \in Seq(Entry)
    OBVIOUS
  <2> QED
    BY <2>1
<1>2. ASSUME S # {} PROVE FALSE
  <2>1. PICK i \in S : \A j \in S : i <= j
    BY <1>1, <1>2, LeastNumber
  <2>2. /\ i \in DOMAIN items[b] /\ i \in Nat /\ items[b][i].live
        /\ items[b][i].key = req.key /\ items[b][i].val = cur.ent.val
    BY <1>1, <2>1
  <2>3. ASSUME NEW j \in 1 .. i - 1, items[b][j].live, items[b][j].key = req.key,
               items[b][j].val = cur.ent.val
        PROVE  FALSE
    <3>1. j \in DOMAIN items[b]
      BY <1>1, <2>2
    <3> QED
      BY <2>1, <2>2, <2>3, <3>1
  <2>4. i \in Matches(b, SameItem)
    BY <2>2, <2>3 DEF Matches, SameItem
  <2> QED
    BY <2>4
<1> QED
  BY <1>2 DEF HeldIn, Real

\* A set has the value it replaces on flash up to its write.
LEMMA SearchOld ==
  ASSUME KvInv, CopyInv, OldState,
         \/ Enter \/ EnterRefused \/ SearchWorkspace \/ SearchInuse \/ SearchFull \/ SearchFresh
         \/ SearchGc \/ FixSkip \/ FixMiss \/ FixHit \/ Discard
  PROVE  OldState'
<1> USE DEF flashVars, tagVars, ramVars, callVars, Goto
<1>0. /\ items \in [Blk -> Seq(Entry)] /\ cur \in [blk : Blk, ent : Entry] \cup {NoItem}
      /\ at \in [blk : 1 .. NBlk + 1, i : Nat \ {0}]
  BY DEF KvInv, Typed
<1>1. ASSUME items' = items PROVE \A k : SameValues(items, items', k)
  BY <1>1 DEF SameValues
<1>2. CASE Enter
  BY <1>1, <1>2, OldSetting DEF Enter, Setting
<1>3. CASE SearchGc
  <2>1. /\ pc = "search" /\ UNCHANGED <<items, req, cur>> /\ pc' = "gcSrc" /\ gc'.ret = "search"
    BY <1>3 DEF SearchGc, NoRoom, CallGc
  <2> QED
    BY <1>1, <2>1, OldSetting DEF Setting, GcPcs
<1>4. ASSUME pc \in {"search", "fix"}, pc' = "fix", UNCHANGED <<items, req, cur>>,
             \E b \in Blk : b >= at'.blk /\ HeldIn(items, b, req.key, cur.ent.val)
      PROVE  OldState'
  <2>1. Setting /\ Busy /\ Busy' /\ Setting'
    BY <1>4 DEF Setting, Busy, OpPcs
  <2>2. req' # NoRequest
    BY <1>4, <2>1 DEF OldState
  <2>3. cur' # NoItem => Held(items', req'.key, cur'.ent.val)
    BY <1>4, <2>1 DEF OldState
  <2>4. \E b \in Blk : b >= at'.blk /\ \E i \in DOMAIN items'[b] :
                     Real(items', b, i, req'.key) /\ items'[b][i].val = cur'.ent.val
    BY <1>4 DEF HeldIn
  <2> QED
    BY <1>4, <2>1, <2>2, <2>3, <2>4 DEF OldState
<1>5. ASSUME pc = "search", Chosen, items' = items PROVE OldState'
  <2>1. UNCHANGED <<req, cur, at>> /\ pc' = IF CurMoved THEN "fix" ELSE "save"
    BY <1>5 DEF Chosen
  <2>2. CASE CurMoved
    <3>1. Held(items, req.key, cur.ent.val)
      BY <1>5, <2>2 DEF OldState, Setting, CurMoved
    <3>2. at'.blk = 1
      BY <1>5, <2>1 DEF CopyInv, FoundState
    <3>3. \A b \in Blk : b >= 1
      BY SizeAssumption DEF Blk
    <3>4. \E b \in Blk : b >= at'.blk /\ HeldIn(items, b, req.key, cur.ent.val)
      BY <3>1, <3>2, <3>3 DEF Held, HeldIn
    <3> QED
      BY <1>4, <1>5, <2>1, <2>2, <3>4
  <2>3. CASE ~CurMoved
    BY <1>1, <1>5, <2>1, <2>3, OldSetting DEF Setting
  <2> QED
    BY <2>2, <2>3
<1>6. CASE SearchWorkspace \/ SearchInuse
  BY <1>5, <1>6 DEF SearchWorkspace, SearchInuse
<1>7. CASE SearchFresh
  <2>1. pc = "search" /\ items' = items /\ (Refused \/ Chosen)
    BY <1>7 DEF SearchFresh, NoRoom
  <2> QED
    BY <1>5, <2>1, OldReturn DEF Refused
<1>8. CASE SearchFull \/ EnterRefused \/ Discard
  BY <1>8, OldReturn DEF SearchFull, EnterRefused, Refused, Discard
<1>9. CASE FixSkip \/ FixMiss
  <2>1. /\ pc = "fix" /\ pc' = "fix" /\ at' = [blk |-> at.blk + 1, i |-> 1]
        /\ at.blk \in idx.fresh \/ (at.blk \in Blk /\ Matches(at.blk, SameItem) = {})
        /\ UNCHANGED <<items, req, cur>>
    <3>1. CASE FixSkip
      BY <3>1 DEF FixSkip, WalkSkip, NextBlk
    <3>2. CASE FixMiss
      <4>1. pc = "fix" /\ at.blk \in Blk \ idx.fresh /\ NextBlk /\ UNCHANGED <<pc, items, req, cur>>
        BY <3>2 DEF FixMiss, WalkMiss
      <4>2. Matches(at.blk, SameItem) = {}
        BY <3>2 DEF FixMiss, WalkMiss
      <4> QED
        BY <4>1, <4>2 DEF NextBlk
    <3> QED
      BY <1>9, <3>1, <3>2
  <2>2. at.blk \in Blk /\ ~HeldIn(items, at.blk, req.key, cur.ent.val)
    <3>1. CASE at.blk \in idx.fresh
      <4>0. gc = NoGc
        BY <2>1 DEF KvInv, GcState, GcPcs, RedoPcs
      <4>1. at.blk \in Blk /\ items[at.blk] = <<>>
        BY <3>1, <4>0, FreshRoom
      <4> QED
        BY <4>1 DEF HeldIn
    <3>2. CASE at.blk \in Blk /\ Matches(at.blk, SameItem) = {}
      BY <1>0, <3>2, NoMatchNoSame
    <3> QED
      BY <2>1, <3>1, <3>2
  <2>3. PICK b \in Blk : b >= at.blk /\ HeldIn(items, b, req.key, cur.ent.val)
    BY <2>1 DEF OldState, HeldIn
  <2>4. b >= at'.blk
    <3>1. b # at.blk
      BY <2>2, <2>3
    <3> QED
      BY <1>0, <2>1, <2>3, <3>1, SizeAssumption DEF Blk
  <2> QED
    BY <1>4, <2>1, <2>3, <2>4
<1>10. CASE FixHit
  <2>1. PICK i \in Matches(at.blk, SameItem) :
          cur' = [blk |-> at.blk, ent |-> [cur.ent EXCEPT !.off = items[at.blk][i].off]]
    BY <1>10 DEF FixHit
  <2>2. /\ pc = "fix" /\ pc' = "save" /\ req' = req /\ items' = items
    BY <1>10 DEF FixHit, WalkHit
  <2>3. cur # NoItem /\ cur.ent \in Entry
    <3>1. cur # NoItem
      BY <2>2 DEF KvInv, CallState
    <3> QED
      BY <1>0, <3>1
  <2>4. cur'.ent.val = cur.ent.val
    BY <2>1, <2>3 DEF Entry
  <2>5. Held(items, req.key, cur.ent.val)
    BY <2>2, <2>3 DEF OldState, Setting
  <2>6. Busy /\ Busy'
    BY <2>2 DEF Busy, OpPcs
  <2> QED
    BY <2>2, <2>4, <2>5, <2>6 DEF OldState
<1> QED
  BY <1>2, <1>3, <1>6, <1>7, <1>8, <1>9, <1>10

\* An update is written behind the item that the call found, which has the
\* value the call found.
LEMMA SaveOld ==
  ASSUME ItemsFit, KvInv, CopyInv, OldState, Save
  PROVE  OldState'
<1> USE DEF tagVars, callVars, Goto
<1>1. CASE cur = NoItem
  BY <1>1, OldReturn DEF Save
<1>2. CASE cur # NoItem
  <2>1. /\ pc = "save" /\ pc' = "discard" /\ UNCHANGED <<cur, req>>
        /\ items' = [items EXCEPT ![ws] = Append(items[ws], SavedItem)]
    BY <1>2 DEF Save, Append1
  <2>2. /\ items \in [Blk -> Seq(Entry)] /\ ws \in Blk /\ SavedItem \in Entry /\ req.type = "set"
        /\ Sound(items, Blk)
    BY <2>1, SavedItemFits DEF KvInv, Typed, CallState, CopyInv, CopyState, QuietPcs, OpPcs
  <2>3. /\ \A b \in Blk \ {ws} : items'[b] = items[b]
        /\ DOMAIN items'[ws] = DOMAIN items[ws] \cup {Len(items[ws]) + 1}
        /\ Len(items[ws]) + 1 \notin DOMAIN items[ws]
        /\ items'[ws][Len(items[ws]) + 1] = SavedItem
        /\ \A i \in DOMAIN items[ws] : items'[ws][i] = items[ws][i]
    BY <2>1, <2>2, AppendAdds
  <2>4. PICK b \in Blk : \E i \in DOMAIN items[b] :
          CurPos = <<b, items[b][i].off>> /\ items[b][i].live /\ items[b][i].key = req.key
    BY <1>2, <2>1 DEF CopyInv, FoundState, HasAt
  <2>5. PICK i \in DOMAIN items[b] :
          CurPos = <<b, items[b][i].off>> /\ items[b][i].live /\ items[b][i].key = req.key
    BY <2>4
  <2>6. Held(items, req.key, cur.ent.val)
    BY <1>2, <2>1 DEF OldState, Setting
  <2>7. Real(items, b, i, req.key) /\ items[b][i].val = cur.ent.val
    <3>1. Real(items, b, i, req.key)
      BY <2>2, <2>5 DEF Real, Sound, Intact
    <3>2. PICK c \in Blk : \E j \in DOMAIN items[c] :
            Real(items, c, j, req.key) /\ items[c][j].val = cur.ent.val
      BY <2>6 DEF Held
    <3>3. PICK j \in DOMAIN items[c] : Real(items, c, j, req.key) /\ items[c][j].val = cur.ent.val
      BY <3>2
    <3>4. OneIn(items, Blk, req.key)
      BY <2>2, SoundSingle
    <3>5. <<b, i>> = <<c, j>>
      BY <3>1, <3>3, <3>4 DEF OneIn
    <3> QED
      BY <3>1, <3>3, <3>5
  <2>8. i \in DOMAIN items'[b] /\ items'[b][i] = items[b][i] /\ <<b, i>> # <<ws, Len(items[ws]) + 1>>
    BY <2>3, <2>5
  <2>9. CurPos' = CurPos
    BY <2>1 DEF CurPos
  <2>10. HeldAt(items', CurPos', req'.key, cur'.ent.val)
    BY <2>1, <2>5, <2>7, <2>8, <2>9 DEF HeldAt, Real
  <2>11. SavedItem.live /\ SavedItem.ok /\ SavedItem.key = req.key /\ SavedItem.val = req.val
    BY DEF SavedItem, NewItem
  <2>12. <<ws, SavedItem.off>> # CurPos
    <3>1. SUFFICES ASSUME <<ws, SavedItem.off>> = CurPos PROVE FALSE
      OBVIOUS
    <3>2. b = ws /\ items'[ws][i].off = items'[ws][Len(items[ws]) + 1].off
      BY <2>3, <2>5, <2>8, <3>1
    <3>3. FlashShape' /\ items' \in [Blk -> Seq(Entry)]
      <4>1. Next
        BY DEF Next, Serve
      <4>2. KvInv'
        BY <4>1, KvStep
      <4> QED
        BY <4>1, <4>2, ShapeStep DEF CopyInv, KvInv, Typed
    <3>4. Increasing(items'[ws])
      BY <2>2, <3>3 DEF FlashShape
    <3>5. i \in DOMAIN items'[ws] /\ Len(items[ws]) + 1 \in DOMAIN items'[ws]
      BY <2>3, <2>8, <3>2
    <3>6. i = Len(items[ws]) + 1
      BY <2>2, <3>2, <3>3, <3>4, <3>5, OneAt
    <3> QED
      BY <2>8, <3>2, <3>6
  <2>13. \E c \in Blk : \E j \in DOMAIN items'[c] :
         /\ Real(items', c, j, req'.key) /\ items'[c][j].val = req'.val
         /\ <<c, items'[c][j].off>> # CurPos'
    <3>1. Len(items[ws]) + 1 \in DOMAIN items'[ws]
      BY <2>3
    <3>2. Real(items', ws, Len(items[ws]) + 1, req'.key)
      BY <2>1, <2>3, <2>11 DEF Real
    <3> QED
      BY <2>1, <2>2, <2>3, <2>9, <2>11, <2>12, <3>1, <3>2
  <2>14. Busy /\ Busy'
    BY <2>1 DEF Busy, OpPcs
  <2> QED
    BY <2>1, <2>2, <2>10, <2>13, <2>14 DEF OldState, Setting, GcPcs
<1> QED
  BY <1>1, <1>2

\* Every step keeps what a call has to discard.
LEMMA OldStateStep ==
  ASSUME ItemsFit, KvInv, CopyInv, OldState, Next
  PROVE  OldState'
<1>1. CASE Boot
  BY <1>1, BootOld
<1>2. CASE Gc
  BY <1>2, GcOld
<1>3. CASE Serve
  BY <1>3, FindOld, SearchOld, SaveOld DEF Serve
<1>4. CASE \E r \in Requests : Call(r)
  <2>1. PICK r \in Requests : Call(r)
    BY <1>4
  <2>2. pc' = "find" /\ req' # NoRequest
    BY <2>1 DEF Call, Goto, Requests, NoRequest
  <2> QED
    BY <2>2, OldVacuous DEF Setting, Busy, OpPcs, GcPcs
<1>5. CASE PowerLoss \/ Deinit
  <2>1. pc' = "down" /\ req' = NoRequest
    BY <1>5 DEF PowerLoss, Deinit, Halt, Goto
  <2> QED
    BY <2>1, OldVacuous DEF Setting, Busy, OpPcs, GcPcs
<1> QED
  BY <1>1, <1>2, <1>3, <1>4, <1>5 DEF Next

\* An erased chip has nothing to decide on and no call under way.
LEMMA ViewInit == Init => ViewInv
<1> SUFFICES ASSUME Init PROVE ViewInv
  OBVIOUS
<1>1. /\ pc = "down" /\ gcSrc = {} /\ req = NoRequest /\ \A b \in Blk : DOMAIN items[b] = {}
  BY DEF Init
<1>2. ScanState
  BY <1>1 DEF ScanState, AtMostTwo, Settled
<1>3. OldState
  BY <1>1 DEF OldState, Busy, Setting, OpPcs, GcPcs
<1> QED
  BY <1>2, <1>3 DEF ViewInv

\* Every step keeps what a scan relies on and what a call has to discard.
LEMMA ViewInvStep ==
  ASSUME ItemsFit, KvInv, CopyInv, ViewInv, [Next]_vars
  PROVE  ViewInv'
<1>1. CASE Next
  BY <1>1, ScanStateStep, OldStateStep DEF ViewInv
<1>2. CASE UNCHANGED vars
  <2> USE <1>2 DEF vars
  <2>1. /\ FrontBlk' = FrontBlk /\ FrontItem' = FrontItem /\ CurPos' = CurPos
        /\ Setting' = Setting /\ Busy' = Busy
    BY DEF FrontBlk, FrontItem, CurPos, Setting, Busy
  <2>2. ScanState'
    BY <2>1 DEF ViewInv, ScanState
  <2>3. OldState'
    BY <2>1 DEF ViewInv, OldState
  <2> QED
    BY <2>2, <2>3 DEF ViewInv
<1> QED
  BY <1>1, <1>2

----------------------------------------------------------------------------
(* The value of a key, from step to step *)

\* The invariants together.
StoreInv == KvInv /\ CopyInv /\ ViewInv

\* The inductive invariant of the refinement: every step keeps all of it.
LEMMA StoreInvStep ==
  ASSUME ItemsFit, ~AnyLoss, StoreInv, [Next]_vars
  PROVE  StoreInv'
  BY KvStep, CopyInvStep, ViewInvStep DEF StoreInv

\* A value on flash is the value.
LEMMA HeldIsValue ==
  ASSUME NEW logs, NEW k, NEW v, Worth(logs, k, v)
  PROVE  /\ \A w : Held(logs, k, w) => w = v
         /\ (\A w : ~Held(logs, k, w)) => v = Absent
  BY DEF Worth

\* A step that leaves the values of a key on flash leaves its value.
LEMMA PlainStep ==
  ASSUME StoreInv, StoreInv', NEW k, Plain(k), Plain(k)', SameValues(items, items', k)
  PROVE  View(k)' = View(k)
<1>1. ViewSound /\ ViewSound'
  BY ViewIsSound, NextViewIsSound DEF StoreInv
<1>2. Worth(items, k, View(k))
  BY <1>1 DEF ViewSound
<1>3. Worth(items', k, View(k)')
  BY <1>1 DEF ViewSound
<1>4. Worth(items', k, View(k))
  BY <1>2, WorthKept
<1> QED
  BY <1>3, <1>4, WorthOnce

\* So does one of ln_kv_init that leaves the flash.
LEMMA SameFlash ==
  ASSUME NEW k, ~Up, ~Up', UNCHANGED <<gcSrc, gcDst, gcDone, items>>
  PROVE  View(k)' = View(k)
<1>1. DstNotDone' = DstNotDone
  BY DEF DstNotDone
<1> QED
  BY <1>1, RecoveredForm DEF View

\* Before ln_kv_init has redone a gc, or with none to redo, it recovers the
\* survivors of the copies.
LEMMA ScanForm ==
  ASSUME KvInv, CopyInv, pc \in BootScan, gcSrc = {}, NEW k
  PROVE  View(k) = Recovered(items, k)
<1>1. ~Up
  BY DEF Up, BootScan, OpPcs, GcPcs
<1>2. DstNotDone = {}
  BY DEF CopyInv, GcTags
<1> QED
  BY <1>1, <1>2, RecoveredForm DEF View, Recovered

\* An item that a scan discards because of the item it stands at is the older
\* one of two with the same key.
LEMMA SupersededRival ==
  ASSUME KvInv, FlashShape, NEW x \in Blk, NEW y \in DOMAIN items[x], items[x][y].live,
         Supersedes(x, items[x][y], items[x][y].prev),
         NEW c \in Blk, NEW j \in DOMAIN items[c],
         items[x][y].prev[1] = c, items[x][y].prev[2] = items[c][j].off
  PROVE  Rivals(items, x, y, c, j) /\ Updates(items, x, y, c, j)
<1> DEFINE e == items[x][y]
<1>1. items \in [Blk -> Seq(Entry)] /\ Increasing(items[c])
  BY DEF KvInv, Typed, FlashShape
<1>2. e \in Entry
  <2>1. items[x] \in Seq(Entry)
    BY <1>1
  <2> QED
    BY <2>1
<1>3. e.prev = <<c, items[c][j].off>>
  <2>1. e.prev \in Positions /\ e.prev # NoPos
    BY <1>2 DEF Entry, Supersedes
  <2>2. e.prev = <<e.prev[1], e.prev[2]>>
    BY <2>1 DEF Positions
  <2> QED
    BY <2>2
<1>4. PICK m \in DOMAIN items[c] :
        items[c][m].off = items[c][j].off /\ items[c][m].live /\ items[c][m].key = e.key
  BY <1>3 DEF Supersedes, ItemsAt
<1>5. m = j
  BY <1>1, <1>4, OneAt
<1>6. <<x, y>> # <<c, j>>
  BY <1>3 DEF Supersedes
<1> QED
  BY <1>3, <1>4, <1>5, <1>6 DEF Rivals, Updates

\* Offsets grow along every log.
Ordered(logs) == \A b \in Blk : Increasing(logs[b])

\* A scan stands at item y of x, which is the update of item j of c, both intact
\* copies of k.
Superseding(logs, k, x, y, c, j) ==
  /\ logs \in [Blk -> Seq(Entry)] /\ Ordered(logs) /\ AtMostTwo(logs) /\ Settled(logs, x, y)
  /\ x \in Blk /\ y \in DOMAIN logs[x] /\ c \in Blk /\ j \in DOMAIN logs[c]
  /\ Real(logs, x, y, k) /\ Real(logs, c, j, k)
  /\ Rivals(logs, x, y, c, j) /\ Updates(logs, x, y, c, j)

\* The scan decides on a pair as ln_kv_init would from the start: the newer
\* copy stays.
LEMMA DecidePair ==
  ASSUME NEW old, NEW new, NEW k, NEW x, NEW y, NEW c, NEW j, Superseding(old, k, x, y, c, j),
         new \in [Blk -> Seq(Entry)], new = [old EXCEPT ![c] = DiscardAt(old[c], old[c][j].off)]
  PROVE  Recovered(new, k) = Recovered(old, k)
<1> DEFINE e == old[x][y]
<1>0. /\ old \in [Blk -> Seq(Entry)] /\ Ordered(old) /\ AtMostTwo(old) /\ Settled(old, x, y)
      /\ x \in Blk /\ y \in DOMAIN old[x] /\ c \in Blk /\ j \in DOMAIN old[c]
      /\ Real(old, x, y, k) /\ Real(old, c, j, k)
      /\ Rivals(old, x, y, c, j) /\ Updates(old, x, y, c, j)
  BY DEF Superseding
<1>1. <<x, y>> # <<c, j>>
  BY <1>0 DEF Rivals
<1>2. OnlyPair(old, k, x, y, c, j) /\ OnlyPair(old, k, c, j, x, y)
  <2>1. ASSUME NEW b \in Blk, NEW n \in DOMAIN old[b], Real(old, b, n, k)
        PROVE  <<b, n>> = <<x, y>> \/ <<b, n>> = <<c, j>>
    BY <1>0, <1>1, <2>1, PairIsAll
  <2> QED
    BY <2>1 DEF OnlyPair
<1>3. Before(<<x, y>>, <<c, j>>) \/ Before(<<c, j>>, <<x, y>>)
  <2>1. <<x, y>> \in CopiesIn(old, Blk, k) /\ <<c, j>> \in CopiesIn(old, Blk, k)
    BY <1>0, CopyOf DEF Real
  <2> QED
    BY <1>0, <1>1, <2>1, BeforeTotal
<1>4. Recovered(old, k) = e.val
  <2>1. CASE Before(<<x, y>>, <<c, j>>)
    <3>1. PairOf(old, k, x, y, c, j)
      BY <1>0, <1>2, <2>1 DEF PairOf
    <3> QED
      BY <1>0, <3>1, RecoverPair DEF ValueAt
  <2>2. CASE Before(<<c, j>>, <<x, y>>)
    <3>1. Passes(x, y, c, j)
      BY <2>2 DEF Before, Passes
    <3>2. Rivals(old, c, j, x, y) /\ old[c][j].ok /\ old[x][y].ok
      BY <1>0 DEF Rivals, Real
    <3>3. ~Updates(old, c, j, x, y)
      BY <1>0, <3>1, <3>2 DEF Settled
    <3>4. PairOf(old, k, c, j, x, y)
      BY <1>0, <1>2, <2>2 DEF PairOf
    <3>5. ~Updates(old, c, j, x, y) =>
            Recovered(old, k) = old[x][y].val
      BY <3>4, RecoverPair DEF ValueAt
    <3> QED
      BY <3>3, <3>5
  <2> QED
    BY <1>3, <2>1, <2>2
<1>5. <<x, e.off>> # <<c, old[c][j].off>>
  <2>1. SUFFICES ASSUME x = c, old[x][y].off = old[x][j].off PROVE FALSE
    OBVIOUS
  <2>2. y = j
    BY <1>0, <2>1, OneAt DEF Ordered
  <2> QED
    BY <1>1, <2>1, <2>2
<1>6. /\ \A b \in Blk : \A i \in DOMAIN new[b] : i \in DOMAIN old[b]
      /\ \A b \in Blk : \A i \in DOMAIN new[b] : new[b][i].live => new[b][i] = old[b][i]
  <2>1. Shrunk(old, new)
    BY <1>0, DiscardShrinks
  <2> QED
    BY <2>1 DEF Shrunk
<1>7. y \in DOMAIN new[x] /\ new[x][y] = e
  BY <1>0, <1>5 DEF DiscardAt
<1>8. j \in DOMAIN new[c] => ~new[c][j].live
  BY <1>0 DEF DiscardAt, DeadItem
<1>9. Real(new, x, y, k)
  BY <1>0, <1>7 DEF Real
<1>10. ASSUME NEW b \in Blk, NEW n \in DOMAIN new[b], Real(new, b, n, k) PROVE <<b, n>> = <<x, y>>
  <2>1. n \in DOMAIN old[b] /\ Real(old, b, n, k)
    BY <1>6, <1>10 DEF Real
  <2>2. <<b, n>> # <<c, j>>
    BY <1>8, <1>10 DEF Real
  <2> QED
    BY <1>2, <2>1, <2>2 DEF OnlyPair
<1>11. OneIn(new, Blk, k)
  BY <1>10 DEF OneIn
<1>12. Worth(new, k, Recovered(new, k))
  BY <1>11, RecoverOne DEF Recovered
<1>13. Held(new, k, e.val)
  BY <1>0, <1>7, <1>9 DEF Held
<1> QED
  BY <1>4, <1>12, <1>13, HeldIsValue

\* kv_item_do_recovery changes nothing that ln_kv_init would recover.
LEMMA ScanItemView ==
  ASSUME StoreInv, StoreInv', ScanItem, NEW k
  PROVE  View(k)' = View(k)
<1> DEFINE x == at.blk
           y == at.i
           e == items[x][y]
<1>0. KvInv /\ CopyInv /\ FlashShape /\ KvInv' /\ CopyInv'
  BY DEF StoreInv, CopyInv
<1>1. /\ x \in Blk \ (gcSrc \cup DstNotDone) /\ y \in DOMAIN items[x]
      /\ \/ items' = items
         \/ e.live /\ ~e.ok /\ items' = [items EXCEPT ![x] = DiscardAt(items[x], e.off)]
         \/ /\ e.live /\ e.ok /\ Supersedes(x, e, e.prev) /\ e.prev[1] \in Blk
            /\ items' = [items EXCEPT ![e.prev[1]] = DiscardAt(items[e.prev[1]], e.prev[2])]
  BY <1>0, ScanItemCases
<1>2. /\ pc = "scan" /\ pc' = "scan" /\ UNCHANGED <<gcSrc, gcDst, gcDone>> /\ ~Up /\ ~Up'
  BY DEF ScanItem, Indexing, tagVars, Up, OpPcs, GcPcs
<1>3. /\ items \in [Blk -> Seq(Entry)] /\ items' \in [Blk -> Seq(Entry)]
      /\ \A b \in Blk : Increasing(items[b])
  BY <1>0 DEF KvInv, Typed, FlashShape
<1>4. FrontBlk = x /\ FrontItem = y
  BY <1>2 DEF FrontBlk, FrontItem
<1> HIDE DEF x, y
<1>5. CASE items' = items
  BY <1>2, <1>5, SameFlash
<1>6. ASSUME gcSrc # {} PROVE View(k)' = View(k)
  <2>1. /\ Sound(items, Blk \ DstNotDone)
        /\ \A s \in gcSrc, d \in DstNotDone : Mirrored(items, d, s)
    BY <1>0, <1>2, <1>6 DEF CopyInv, CopyState, BootScan
  <2>2. x \in Blk \ DstNotDone /\ (e.live => e.ok)
    BY <1>1, <2>1 DEF Sound, Intact
  <2>3. PICK s \in gcSrc : s \in Blk \ DstNotDone
    BY <1>0, <1>2, <1>6 DEF CopyInv, GcTags, BootScan
  <2>4. SUFFICES ASSUME items' # items PROVE View(k)' = View(k)
    BY <1>5
  <2>5. /\ e.live /\ e.ok /\ Supersedes(x, e, e.prev) /\ e.prev[1] \in Blk
        /\ items' = [items EXCEPT ![e.prev[1]] = DiscardAt(items[e.prev[1]], e.prev[2])]
    BY <1>1, <2>2, <2>4
  <2> DEFINE c == e.prev[1]
  <2>6. ASSUME NEW j \in DOMAIN items[c], items[c][j].off = e.prev[2], Real(items, c, j, k)
        PROVE  FALSE
    <3>1. Rivals(items, x, y, c, j)
      BY <1>0, <1>1, <2>5, <2>6, SupersededRival
    <3>2. CASE c \in Blk \ DstNotDone
      BY <1>1, <2>1, <2>2, <2>6, <3>1, <3>2 DEF Sound, Unique
    <3>3. CASE c \in DstNotDone
      <4>1. PICK i \in DOMAIN items[s] : Twins(items[s][i], items[c][j])
        BY <2>1, <2>3, <2>6, <3>3 DEF Mirrored, Real
      <4>2. Rivals(items, x, y, s, i)
        BY <1>1, <2>3, <3>1, <4>1 DEF Rivals, Twins
      <4> QED
        BY <1>1, <2>1, <2>2, <2>3, <4>2 DEF Sound, Unique
    <3> QED
      BY <2>5, <3>2, <3>3
  <2>7. Misses(items, c, e.prev[2], k)
    BY <2>6 DEF Misses
  <2>8. c \in Blk /\ items' = [items EXCEPT ![c] = DiscardAt(items[c], e.prev[2])]
    BY <2>5
  <2> HIDE DEF c
  <2>9. SameReal(items, items', k)
    BY <1>3, <2>7, <2>8, DiscardMisses
  <2>10. SameValues(items, items', k)
    BY <2>9, SameRealValues
  <2>11. Plain(k) /\ Plain(k)'
    BY <1>2, <1>6 DEF Plain, Replaced
  <2> QED
    BY <2>10, <2>11, PlainStep
<1>7. ASSUME gcSrc = {} PROVE View(k)' = View(k)
  <2>1. /\ View(k) = Recovered(items, k)
        /\ AtMostTwo(items) /\ Settled(items, x, y) /\ Recoverable(items, x, y)
    BY <1>0, <1>2, <1>4, <1>7, ScanForm
       DEF StoreInv, ViewInv, ScanState, CopyInv, CopyState, BootScan
  <2>2. View(k)' = Recovered(items', k)
    <3>1. gcSrc' = {} /\ DstNotDone' = {}
      BY <1>0, <1>2, <1>7 DEF CopyInv, GcTags, BootScan
    <3> QED
      BY <1>2, <3>1, RecoveredForm DEF View, Recovered
  <2>3. ASSUME SameReal(items, items', k) PROVE View(k)' = View(k)
    BY <1>3, <2>1, <2>2, <2>3, RecoverSame
  <2>4. CASE e.live /\ ~e.ok /\ items' = [items EXCEPT ![x] = DiscardAt(items[x], e.off)]
    <3>1. ASSUME NEW j \in DOMAIN items[x], items[x][j].off = e.off, Real(items, x, j, k)
          PROVE  FALSE
      <4>1. j = y
        BY <1>1, <1>3, <3>1, OneAt
      <4> QED
        BY <2>4, <3>1, <4>1 DEF Real
    <3>2. Misses(items, x, e.off, k)
      BY <3>1 DEF Misses
    <3>3. SameReal(items, items', k)
      BY <1>1, <1>3, <2>4, <3>2, DiscardMisses
    <3> QED
      BY <2>3, <3>3
  <2>5. CASE /\ e.live /\ e.ok /\ Supersedes(x, e, e.prev) /\ e.prev[1] \in Blk
             /\ items' = [items EXCEPT ![e.prev[1]] = DiscardAt(items[e.prev[1]], e.prev[2])]
    <3> DEFINE c == e.prev[1]
    <3>1. c \in Blk /\ items' = [items EXCEPT ![c] = DiscardAt(items[c], e.prev[2])]
      BY <2>5
    <3>2. CASE Misses(items, c, e.prev[2], k)
      <4> HIDE DEF c
      <4>1. SameReal(items, items', k)
        BY <1>3, <3>1, <3>2, DiscardMisses
      <4> QED
        BY <2>3, <4>1
    <3>3. CASE ~Misses(items, c, e.prev[2], k)
      <4>1. PICK j \in DOMAIN items[c] : items[c][j].off = e.prev[2] /\ Real(items, c, j, k)
        BY <3>3 DEF Misses
      <4>2. Rivals(items, x, y, c, j) /\ Updates(items, x, y, c, j)
        BY <1>0, <1>1, <2>5, <4>1, SupersededRival
      <4>3. Real(items, x, y, k)
        BY <2>5, <4>1, <4>2 DEF Rivals, Real
      <4>4. items' = [items EXCEPT ![c] = DiscardAt(items[c], items[c][j].off)]
        BY <3>1, <4>1
      <4> HIDE DEF c
      <4>5. x \in Blk /\ y \in DOMAIN items[x] /\ c \in Blk /\ Real(items, c, j, k) /\ Ordered(items)
        BY <1>1, <1>3, <3>1, <4>1 DEF Ordered
      <4>7. AtMostTwo(items) /\ Settled(items, x, y)
        BY <2>1
      <4>8. items \in [Blk -> Seq(Entry)] /\ items' \in [Blk -> Seq(Entry)]
        BY <1>3
      <4>6. Recovered(items', k) = Recovered(items, k)
        <5>1. Superseding(items, k, x, y, c, j)
          BY <4>2, <4>3, <4>5, <4>7, <4>8 DEF Superseding
        <5> QED
          BY <4>4, <4>8, <5>1, DecidePair
      <4> QED
        BY <2>1, <2>2, <4>6
    <3> QED
      BY <3>2, <3>3
  <2> QED
    BY <1>1, <1>5, <2>4, <2>5
<1> QED
  BY <1>6, <1>7

\* A step outside a scan and an update that writes nothing leaves every value.
LEMMA QuietStep ==
  ASSUME StoreInv, StoreInv', items' = items, pc \notin BootScan, pc' \notin BootScan,
         NEW k, ~Replaced(k), ~Replaced(k)'
  PROVE  View(k)' = View(k)
<1>1. Plain(k) /\ Plain(k)'
  BY DEF Plain
<1>2. SameValues(items, items', k)
  BY DEF SameValues
<1> QED
  BY <1>1, <1>2, PlainStep

\* ln_kv_init changes no value, whatever it finds.
LEMMA BootView ==
  ASSUME StoreInv, StoreInv', Boot, NEW k
  PROVE  View(k)' = View(k)
<1> USE DEF flashVars, tagVars, ramVars, callVars, Goto, CallGc
<1>0. KvInv /\ CopyInv /\ FlashShape /\ GcTags
  BY DEF StoreInv, CopyInv
<1>1. CASE PowerUp
  <2>1. ~Up /\ ~Up' /\ UNCHANGED <<gcSrc, gcDst, gcDone, items>>
    BY <1>1 DEF PowerUp, Up, OpPcs, GcPcs
  <2> QED
    BY <2>1, SameFlash
<1>2. CASE ScanItem
  BY <1>2, ScanItemView
<1>3. CASE ScanFormat \/ ScanSkip \/ ScanEnd
  <2>1. /\ pc = "scan" /\ pc' \in {"scan", "incomplete"} /\ UNCHANGED <<gcSrc, gcDst, gcDone>>
        /\ items' = items \/ ScanItem
    BY <1>0, <1>3, ScanEffect
  <2>2. ~Up /\ ~Up'
    BY <2>1 DEF Up, OpPcs, GcPcs
  <2> QED
    BY <1>2, <2>1, <2>2, SameFlash
<1>4. CASE NothingToRedo
  <2>1. pc = "incomplete" /\ pc' = "locate" /\ gcSrc = {} /\ items' = items
    BY <1>4 DEF NothingToRedo, PendingSrc
  <2>2. Recoverable(items, NBlk + 1, 1)
    BY <1>0, <2>1 DEF CopyInv, CopyState, BootScan, FrontBlk, FrontItem
  <2>3. OneIn(items, Blk, k)
    BY <2>2, ScanComplete, SoundSingle
  <2>4. Plain(k) /\ Plain(k)' /\ SameValues(items, items', k)
    BY <2>1, <2>3 DEF Plain, Replaced, BootScan, SameValues
  <2> QED
    BY <2>4, PlainStep
<1>5. CASE RedoOnFresh \/ RedoOnDst
  <2>1. pc = "incomplete" /\ pc' \in {"gcDst", "dstErase"} /\ gcSrc # {} /\ items' = items
    BY <1>5 DEF RedoOnFresh, RedoOnDst, PendingSrc
  <2>2. Plain(k) /\ Plain(k)' /\ SameValues(items, items', k)
    BY <2>1 DEF Plain, Replaced, BootScan, SameValues
  <2> QED
    BY <2>2, PlainStep
<1>6. CASE DstErase
  <2>1. pc = "dstErase" /\ pc' = "dstMagic"
    BY <1>6 DEF DstErase
  <2>2. Plain(k) /\ Plain(k)'
    BY <2>1 DEF Plain, Replaced, BootScan
  <2>3. SameValues(items, items', k)
    BY <1>0, <1>6, GcHolds
  <2> QED
    BY <2>2, <2>3, PlainStep
<1>7. CASE DstMagic \/ LocateGc \/ Locate
  <2>1. /\ pc \in {"dstMagic", "locate", "relocate"} /\ pc' \in {"gcDst", "gcSrc", "idle"}
        /\ items' = items
    BY <1>7 DEF DstMagic, LocateGc, Locate
  <2> QED
    BY <2>1, QuietStep DEF Replaced, BootScan
<1>8. CASE StatusError
  BY <1>0, <1>8, BootTags
<1> QED
  BY <1>1, <1>2, <1>3, <1>4, <1>5, <1>6, <1>7, <1>8 DEF Boot

\* Nor does gc.
LEMMA GcView ==
  ASSUME StoreInv, StoreInv', Gc, NEW k
  PROVE  View(k)' = View(k)
<1> USE DEF Goto
<1>1. pc \in GcPcs /\ (pc' \in GcPcs \/ pc' = gc.ret)
  BY DEF Gc, GcMarkSrc, GcMarkDst, GcCopy, GcErase, GcMagic, GcMarkDone, GcPcs
<1>2. gc.ret \in {"search", "locate", "relocate"}
  BY <1>1, GcFacts DEF StoreInv, GcJob
<1>3. Plain(k) /\ Plain(k)'
  BY <1>1, <1>2 DEF Plain, Replaced, BootScan, GcPcs
<1>4. SameValues(items, items', k)
  BY GcHolds DEF StoreInv
<1> QED
  BY <1>3, <1>4, PlainStep

\* The copies of other keys do not mind a write.
LEMMA WriteOther ==
  ASSUME NEW old \in [Blk -> Seq(Entry)], NEW c \in Blk, NEW e \in Entry, NEW k, e.key # k,
         NEW new, new = [old EXCEPT ![c] = Append(old[c], e)]
  PROVE  SameValues(old, new, k)
<1>1. /\ \A b \in Blk \ {c} : new[b] = old[b]
      /\ DOMAIN new[c] = DOMAIN old[c] \cup {Len(old[c]) + 1}
      /\ new[c][Len(old[c]) + 1] = e
      /\ \A i \in DOMAIN old[c] : new[c][i] = old[c][i]
  BY AppendAdds
<1>2. \A b \in Blk : \A i \in DOMAIN old[b] : i \in DOMAIN new[b] /\ new[b][i] = old[b][i]
  BY <1>1
<1>3. \A b \in Blk : \A i \in DOMAIN new[b] :
        Real(new, b, i, k) => i \in DOMAIN old[b] /\ new[b][i] = old[b][i]
  BY <1>1 DEF Real
<1>4. ASSUME NEW w, Held(old, k, w) PROVE Held(new, k, w)
  BY <1>2, <1>4 DEF Held, Real
<1>5. ASSUME NEW w, Held(new, k, w) PROVE Held(old, k, w)
  BY <1>3, <1>5 DEF Held, Real
<1> QED
  BY <1>4, <1>5 DEF SameValues

\* The write of a set: a new key has its value at once, the value of a key that
\* is updated stays for now, as do all others.
LEMMA SaveView ==
  ASSUME ItemsFit, StoreInv, StoreInv', Save, NEW k
  PROVE  View(k)' = IF cur = NoItem /\ k = req.key THEN req.val ELSE View(k)
<1> USE DEF tagVars, callVars, Goto
<1>0. KvInv /\ CopyInv /\ OldState
  BY DEF StoreInv, ViewInv
<1>1. /\ pc = "save" /\ items' = [items EXCEPT ![ws] = Append(items[ws], SavedItem)]
      /\ cur = NoItem => pc' = "idle"
      /\ cur # NoItem => pc' = "discard" /\ UNCHANGED <<req, cur>>
  BY DEF Save, Append1, Return
<1>2. /\ items \in [Blk -> Seq(Entry)] /\ ws \in Blk /\ SavedItem \in Entry /\ req.type = "set"
  BY <1>0, <1>1, SavedItemFits DEF KvInv, Typed, CallState
<1>3. SavedItem.live /\ SavedItem.ok /\ SavedItem.key = req.key /\ SavedItem.val = req.val
  BY DEF SavedItem, NewItem
<1>4. Plain(k)
  BY <1>1 DEF Plain, Replaced, BootScan
<1>5. ViewSound /\ ViewSound'
  BY ViewIsSound, NextViewIsSound DEF StoreInv
<1>6. CASE k # req.key
  <2>1. Plain(k)'
    BY <1>1, <1>6 DEF Plain, Replaced, BootScan
  <2>2. SameValues(items, items', k)
    BY <1>1, <1>2, <1>3, <1>6, WriteOther
  <2> QED
    BY <1>4, <1>6, <2>1, <2>2, PlainStep
<1>7. CASE k = req.key /\ cur = NoItem
  <2>1. Plain(k)'
    BY <1>1, <1>7 DEF Plain, Replaced, BootScan
  <2>2. Worth(items', k, View(k)')
    BY <1>5, <2>1 DEF ViewSound
  <2>3. /\ Len(items[ws]) + 1 \in DOMAIN items'[ws]
        /\ items'[ws][Len(items[ws]) + 1] = SavedItem
    <3>1. /\ DOMAIN items'[ws] = DOMAIN items[ws] \cup {Len(items[ws]) + 1}
          /\ items'[ws][Len(items[ws]) + 1] = SavedItem
      BY <1>1, <1>2, AppendAdds
    <3> QED
      BY <3>1
  <2>4. Held(items', k, req.val)
    BY <1>2, <1>3, <1>7, <2>3 DEF Held, Real
  <2> QED
    BY <1>7, <2>2, <2>4, HeldIsValue
<1>8. CASE k = req.key /\ cur # NoItem
  <2>1. Held(items, k, cur.ent.val)
    BY <1>0, <1>1, <1>8 DEF OldState, Setting
  <2>2. Worth(items, k, View(k))
    BY <1>4, <1>5 DEF ViewSound
  <2>3. View(k) = cur.ent.val
    BY <2>1, <2>2, HeldIsValue
  <2>4. Up' /\ pc' = "discard" /\ req'.type = "set" /\ req'.key = k /\ cur'.ent.val = cur.ent.val
    BY <1>1, <1>2, <1>8 DEF Up, OpPcs
  <2>5. View(k)' = cur'.ent.val
    BY <2>4 DEF View, RunningVal
  <2> QED
    BY <1>8, <2>3, <2>4, <2>5
<1> QED
  BY <1>6, <1>7, <1>8

\* The discard ends an update or a delete: the key has its new value, or none.
LEMMA DiscardView ==
  ASSUME ItemsFit, StoreInv, StoreInv', Discard, NEW k
  PROVE  /\ k # req.key => View(k)' = View(k)
         /\ k = req.key /\ req.type = "set" => View(k)' = req.val
         /\ k = req.key /\ req.type = "del" => View(k)' = Absent /\ View(k) = cur.ent.val
<1> USE DEF tagVars, callVars, Goto
<1>0. KvInv /\ CopyInv /\ OldState /\ FlashShape
  BY DEF StoreInv, ViewInv, CopyInv
<1>1. pc = "discard" /\ pc' = "idle" /\ items' = Discarded(CurPos)
  BY DEF Discard, Return
<1>2. items \in [Blk -> Seq(Entry)]
  BY <1>0 DEF KvInv, Typed
<1>3. PICK b \in Blk : \E i \in DOMAIN items[b] :
        CurPos = <<b, items[b][i].off>> /\ Real(items, b, i, req.key) /\ items[b][i].val = cur.ent.val
  BY <1>0, <1>1 DEF OldState, HeldAt
<1>4. PICK i \in DOMAIN items[b] :
        CurPos = <<b, items[b][i].off>> /\ Real(items, b, i, req.key) /\ items[b][i].val = cur.ent.val
  BY <1>3
<1> DEFINE o == items[b][i].off
<1>5. items' = [items EXCEPT ![b] = DiscardAt(items[b], o)]
  BY <1>1, <1>4 DEF Discarded
<1>6. \A j \in DOMAIN items[b] : items[b][j].off = o => j = i
  BY <1>0, <1>2, OneAt DEF FlashShape
<1>7. Shrunk(items, items') /\ \A j \in DOMAIN items[b] : items[b][j].off = o => ~items'[b][j].live
  BY <1>2, <1>5, DiscardShrinks
<1>8. Plain(k)'
  BY <1>1 DEF Plain, Replaced, BootScan
<1>9. ViewSound /\ ViewSound'
  BY ViewIsSound, NextViewIsSound DEF StoreInv
<1>10. Worth(items', k, View(k)')
  BY <1>8, <1>9 DEF ViewSound
<1>11. ASSUME k # req.key PROVE View(k)' = View(k)
  <2>1. Misses(items, b, o, k)
    BY <1>4, <1>6, <1>11 DEF Misses, Real
  <2> HIDE DEF o
  <2>2. SameReal(items, items', k)
    BY <1>2, <1>5, <2>1, DiscardMisses
  <2>3. Plain(k)
    BY <1>1, <1>11 DEF Plain, Replaced, BootScan
  <2> QED
    BY <1>8, <2>2, <2>3, SameRealValues, PlainStep
<1>12. ASSUME k = req.key, req.type = "set" PROVE View(k)' = req.val
  <2>1. PICK c \in Blk : \E j \in DOMAIN items[c] :
          /\ Real(items, c, j, req.key) /\ items[c][j].val = req.val
          /\ <<c, items[c][j].off>> # CurPos
    BY <1>0, <1>1, <1>12 DEF OldState
  <2>2. PICK j \in DOMAIN items[c] :
          /\ Real(items, c, j, req.key) /\ items[c][j].val = req.val
          /\ <<c, items[c][j].off>> # CurPos
    BY <2>1
  <2>3. j \in DOMAIN items'[c] /\ items'[c][j] = items[c][j]
    <3>1. ~(c = b /\ items[c][j].off = o)
      BY <1>4, <2>2
    <3> QED
      BY <1>2, <1>5, <2>2, <3>1 DEF DiscardAt
  <2>4. Held(items', k, req.val)
    BY <1>12, <2>2, <2>3 DEF Held, Real
  <2> QED
    BY <1>10, <2>4, HeldIsValue
<1>13. ASSUME k = req.key, req.type = "del" PROVE View(k)' = Absent /\ View(k) = cur.ent.val
  <2>1. Unique(items, Blk)
    BY <1>0, <1>1, <1>13 DEF OldState
  <2>2. ASSUME NEW c \in Blk, NEW j \in DOMAIN items'[c], Real(items', c, j, k) PROVE FALSE
    <3>1. j \in DOMAIN items[c] /\ items'[c][j] = items[c][j]
      BY <1>7, <2>2 DEF Shrunk, Real
    <3>2. ~Rivals(items, c, j, b, i)
      BY <2>1, <3>1 DEF Unique
    <3>3. c = b /\ j = i
      BY <1>4, <1>13, <2>2, <3>1, <3>2 DEF Rivals, Real
    <3> QED
      BY <1>7, <2>2, <3>3 DEF Real
  <2>3. \A w : ~Held(items', k, w)
    BY <2>2 DEF Held
  <2>4. Plain(k)
    BY <1>1, <1>13 DEF Plain, Replaced, BootScan
  <2>5. Worth(items, k, View(k))
    BY <1>9, <2>4 DEF ViewSound
  <2>6. Held(items, k, cur.ent.val)
    BY <1>4, <1>13 DEF Held
  <2> QED
    BY <1>10, <2>3, <2>5, <2>6, HeldIsValue
<1> QED
  BY <1>11, <1>12, <1>13

\* A torn item adds no copy.
LEMMA TornSingle ==
  ASSUME NEW old \in [Blk -> Seq(Entry)], NEW c \in Blk, NEW t \in Entry, ~(t.live /\ t.ok),
         NEW new, new = [old EXCEPT ![c] = Append(old[c], t)], NEW k, OneIn(old, Blk, k)
  PROVE  OneIn(new, Blk, k)
<1>1. /\ \A b \in Blk \ {c} : new[b] = old[b]
      /\ DOMAIN new[c] = DOMAIN old[c] \cup {Len(old[c]) + 1}
      /\ new[c][Len(old[c]) + 1] = t
      /\ \A i \in DOMAIN old[c] : new[c][i] = old[c][i]
  BY AppendAdds
<1>2. ASSUME NEW b \in Blk, NEW i \in DOMAIN new[b], Real(new, b, i, k)
      PROVE  i \in DOMAIN old[b] /\ Real(old, b, i, k)
  BY <1>1, <1>2 DEF Real
<1> QED
  BY <1>2 DEF OneIn

\* A power loss leaves every value but that of the key being replaced, which
\* has the old or the new one.
LEMMA LossView ==
  ASSUME ItemsFit, StoreInv, StoreInv', PowerLoss \/ Deinit, NEW k
  PROVE  /\ ~Replaced(k) => View(k)' = View(k)
         /\ Replaced(k) => View(k)' \in {View(k), req.val}
<1>0. KvInv /\ CopyInv /\ ScanState /\ OldState /\ FlashShape /\ KvInv'
  BY DEF StoreInv, ViewInv, CopyInv
<1>1. /\ pc' = "down" /\ UNCHANGED <<gcSrc, gcDst, gcDone>> /\ pc \in Pcs /\ ~Up'
  BY <1>0 DEF PowerLoss, Deinit, Halt, Goto, KvInv, Typed, tagVars, flashVars, Up, OpPcs, GcPcs
<1>2. items \in [Blk -> Seq(Entry)]
  BY <1>0 DEF KvInv, Typed
<1>3. SameValues(items, items', k)
  BY <1>0, LossHolds
<1>4. /\ \/ items' = items
         \/ /\ pc \in {"save", "gcCopy"}
            /\ \E c \in Blk, t \in Entry :
                 ~(t.live /\ t.ok) /\ items' = [items EXCEPT ![c] = Append(items[c], t)]
  BY <1>0, LossLogs
<1>5. ASSUME OneIn(items, Blk, k) PROVE OneIn(items', Blk, k)
  <2>1. CASE items' = items
    BY <1>5, <2>1
  <2>2. CASE items' # items
    BY <1>2, <1>4, <1>5, <2>2, TornSingle
  <2> QED
    BY <2>1, <2>2
<1>6. CASE pc \in BootScan
  <2>1. ~Up /\ items' = items /\ ~Replaced(k)
    BY <1>4, <1>6 DEF Up, BootScan, OpPcs, GcPcs, Replaced
  <2> QED
    BY <1>1, <2>1, SameFlash
<1>7. CASE pc \notin BootScan \cup {"discard"}
  <2>1. Plain(k) /\ ~Replaced(k)
    BY <1>7 DEF Plain, Replaced
  <2>2. gcSrc = {} => OneIn(items', Blk, k)
    <3>1. SUFFICES ASSUME gcSrc = {} PROVE OneIn(items, Blk, k)
      BY <1>5
    <3>2. pc \notin {"gcDst", "dstMagic", "gcCopy", "dstErase"}
      BY <1>0, <3>1 DEF CopyInv, GcTags
    <3>3. pc \in QuietPcs
      BY <1>1, <1>7, <3>2 DEF Pcs, BootPcs, GcPcs, OpPcs, QuietPcs, BootScan
    <3> QED
      BY <1>0, <3>3, SoundSingle DEF CopyInv, CopyState
  <2>3. Plain(k)'
    BY <1>1, <2>2 DEF Plain, Replaced
  <2> QED
    BY <1>3, <2>1, <2>3, PlainStep
<1>8. CASE pc = "discard"
  <2>1. items' = items /\ gcSrc = {} /\ DstNotDone = {}
    BY <1>0, <1>4, <1>8 DEF CopyInv, GcTags, OpPcs
  <2>2. ASSUME ~Replaced(k) PROVE View(k)' = View(k)
    <3>1. OneIn(items, Blk, k)
      BY <1>8, <2>2, OthersSingle DEF StoreInv
    <3>2. Plain(k) /\ Plain(k)'
      BY <1>1, <1>8, <2>1, <2>2, <3>1 DEF Plain, Replaced, BootScan
    <3> QED
      BY <1>3, <3>2, PlainStep
  <2>3. ASSUME Replaced(k) PROVE View(k)' \in {View(k), req.val}
    <3>1. View(k) = cur.ent.val /\ req.type = "set" /\ req.key = k
      BY <2>3 DEF View, RunningVal, Replaced, Up, OpPcs
    <3>2. View(k)' = Recovered(items, k)
      <4>1. gcSrc' = {} /\ DstNotDone' = {}
        BY <1>1, <2>1 DEF DstNotDone
      <4> QED
        BY <1>1, <2>1, <4>1, RecoveredForm DEF View, Recovered
    <3>3. PICK b \in Blk : \E i \in DOMAIN items[b] :
            /\ CurPos = <<b, items[b][i].off>> /\ Real(items, b, i, k)
            /\ items[b][i].val = cur.ent.val
      BY <1>0, <1>8, <3>1 DEF OldState, HeldAt
    <3>4. PICK i \in DOMAIN items[b] :
            /\ CurPos = <<b, items[b][i].off>> /\ Real(items, b, i, k)
            /\ items[b][i].val = cur.ent.val
      BY <3>3
    <3>5. PICK c \in Blk : \E j \in DOMAIN items[c] :
            /\ Real(items, c, j, k) /\ items[c][j].val = req.val
            /\ <<c, items[c][j].off>> # CurPos
      BY <1>0, <1>8, <3>1 DEF OldState
    <3>6. PICK j \in DOMAIN items[c] :
            /\ Real(items, c, j, k) /\ items[c][j].val = req.val
            /\ <<c, items[c][j].off>> # CurPos
      BY <3>5
    <3>7. <<b, i>> # <<c, j>>
      BY <3>4, <3>6
    <3>8. Replacing(items, CurPos) /\ \A x \in Blk : Increasing(items[x])
      BY <1>0, <1>8 DEF CopyInv, CopyState, FlashShape
    <3>9. AtMostTwo(items)
      BY <1>2, <3>8, ReplacingTwo
    <3>10. Rivals(items, b, i, c, j)
      BY <3>4, <3>6, <3>7 DEF Rivals, Real
    <3>11. Updates(items, b, i, c, j) \/ Updates(items, c, j, b, i)
      BY <3>4, <3>6, <3>8, <3>10 DEF Replacing
    <3>12. OnlyPair(items, k, b, i, c, j) /\ OnlyPair(items, k, c, j, b, i)
      <4>1. ASSUME NEW e \in Blk, NEW n \in DOMAIN items[e], Real(items, e, n, k)
            PROVE  <<e, n>> = <<b, i>> \/ <<e, n>> = <<c, j>>
        BY <3>4, <3>6, <3>7, <3>9, <4>1, PairIsAll
      <4> QED
        BY <4>1 DEF OnlyPair
    <3>13. Before(<<b, i>>, <<c, j>>) \/ Before(<<c, j>>, <<b, i>>)
      <4>1. <<b, i>> \in CopiesIn(items, Blk, k) /\ <<c, j>> \in CopiesIn(items, Blk, k)
        BY <3>4, <3>6, CopyOf DEF Real
      <4> QED
        BY <1>2, <3>7, <4>1, BeforeTotal
    <3>14. PairOf(items, k, b, i, c, j) \/ PairOf(items, k, c, j, b, i)
      BY <1>2, <3>4, <3>6, <3>11, <3>12, <3>13 DEF PairOf
    <3>15. Recovered(items, k) \in {ValueAt(items, b, i), ValueAt(items, c, j)}
      <4>1. CASE PairOf(items, k, b, i, c, j)
        BY <4>1, RecoverPair
      <4>2. CASE PairOf(items, k, c, j, b, i)
        BY <4>2, RecoverPair
      <4> QED
        BY <3>14, <4>1, <4>2
    <3> QED
      BY <3>1, <3>2, <3>4, <3>6, <3>15 DEF ValueAt
  <2> QED
    BY <2>2, <2>3
<1> QED
  BY <1>6, <1>7, <1>8

----------------------------------------------------------------------------
(* The durable map *)

\* StoreView is the function of the values.
LEMMA StoreViewIs == StoreView = [k \in Keys |-> View(k)] /\ StoreView' = [k \in Keys |-> View(k)']
  BY DEF StoreView, View

\* A step that changes no value, no request and no result is a stutter.
LEMMA Stutter ==
  ASSUME \A k \in Keys : View(k)' = View(k), Up' <=> Up, UNCHANGED <<req, res>>
  PROVE  UNCHANGED abstract!storeVars
<1>1. StoreView' = StoreView
  BY StoreViewIs
<1>2. Up' = Up
  BY DEF Up
<1> QED
  BY <1>1, <1>2 DEF abstract!storeVars

\* ln_kv_init is a stutter up to its last step, which is the map's Boot.
LEMMA BootRefines ==
  ASSUME StoreInv, StoreInv', Boot
  PROVE  abstract!Boot \/ UNCHANGED abstract!storeVars
<1> USE DEF flashVars, tagVars, ramVars, callVars, Goto, CallGc
<1>0. KvInv /\ FlashShape /\ GcTags
  BY DEF StoreInv, CopyInv
<1>1. \A k \in Keys : View(k)' = View(k)
  BY BootView
<1>2. ~StatusError
  BY <1>0, BootTags
<1>3. CASE Locate
  <2>1. ~Up /\ Up' /\ UNCHANGED <<req, res>>
    BY <1>3 DEF Locate, Up, OpPcs, GcPcs
  <2>2. StoreView' = StoreView
    BY <1>1, StoreViewIs
  <2> QED
    BY <2>1, <2>2 DEF abstract!Boot
<1>4. CASE ~Locate
  <2>1. /\ pc \in {"down"} \cup BootPcs /\ UNCHANGED <<req, res>>
        /\ pc' \in BootPcs \/ (pc' \in GcPcs /\ gc'.ret # "search")
    <3>1. CASE PowerUp \/ ScanFormat \/ ScanSkip \/ ScanItem \/ ScanEnd
      BY <3>1 DEF PowerUp, ScanFormat, ScanSkip, ScanItem, ScanEnd, Indexing, NextScan, BootPcs
    <3>2. CASE NothingToRedo
      BY <3>2 DEF NothingToRedo, BootPcs
    <3>3. CASE RedoOnFresh \/ RedoOnDst \/ LocateGc
      BY <3>3 DEF RedoOnFresh, RedoOnDst, LocateGc, BootPcs, GcPcs
    <3>4. CASE DstErase
      BY <3>4 DEF DstErase, BootPcs
    <3>5. CASE DstMagic
      BY <1>0, <3>5 DEF DstMagic, KvInv, GcState, RedoPcs, BootPcs, GcPcs
    <3> QED
      BY <1>2, <1>4, <3>1, <3>2, <3>3, <3>4, <3>5 DEF Boot
  <2>2. ~Up /\ ~Up'
    BY <2>1 DEF Up, OpPcs, GcPcs, BootPcs
  <2> QED
    BY <1>1, <2>1, <2>2, Stutter
<1> QED
  BY <1>3, <1>4

\* kv_do_gc is a stutter of the map.
LEMMA GcRefines ==
  ASSUME StoreInv, StoreInv', Gc
  PROVE  UNCHANGED abstract!storeVars
<1> USE DEF flashVars, tagVars, ramVars, callVars, Goto
<1>1. \A k \in Keys : View(k)' = View(k)
  BY GcView
<1>2. /\ pc \in GcPcs /\ UNCHANGED <<req, res>>
      /\ (pc' \in GcPcs /\ gc'.ret = gc.ret) \/ pc' = gc.ret
  <2>1. CASE GcMarkSrc \/ GcMarkDst \/ GcErase \/ GcMagic
    BY <2>1 DEF GcMarkSrc, GcMarkDst, GcErase, GcMagic, GcPcs
  <2>2. CASE GcCopy
    <3>1. /\ pc = "gcCopy" /\ pc' = pc /\ UNCHANGED <<req, res>>
          /\ gc' = [gc EXCEPT !.i = gc.i + 1]
      BY <2>2 DEF GcCopy
    <3>2. gc \in GcJob
      BY <3>1, GcFacts DEF GcPcs, StoreInv
    <3> QED
      BY <3>1, <3>2 DEF GcPcs, GcJob
  <2>3. CASE GcMarkDone
    BY <2>3 DEF GcMarkDone, GcPcs
  <2> QED
    BY <2>1, <2>2, <2>3 DEF Gc
<1>3. gc.ret \in {"search", "locate", "relocate"}
  BY <1>2, GcFacts DEF StoreInv, GcJob
<1>4. Up' <=> Up
  BY <1>2, <1>3 DEF Up, OpPcs, GcPcs
<1> QED
  BY <1>1, <1>2, <1>4, Stutter

\* The request under way.
LEMMA RequestKind ==
  ASSUME StoreInv, pc \in OpPcs \ {"idle"}
  PROVE  /\ req \in Requests /\ req.key \in Keys
         /\ \/ req.type = "set" /\ req.val \in Values
            \/ req.type \in {"del", "get"} /\ req.val = Absent
<1>1. req \in Requests
  BY DEF StoreInv, ViewInv, OldState, Busy, KvInv, Typed
<1> QED
  BY <1>1 DEF Requests

\* A call that returns with every value as it was.
LEMMA ReturnKeeps ==
  ASSUME StoreInv, StoreInv', pc \in OpPcs, \A k \in Keys : View(k)' = View(k),
         NEW code, NEW v, Return(code, v)
  PROVE  /\ StoreView' = StoreView /\ Up /\ Up' /\ req' = NoRequest
         /\ res' = [code |-> code, val |-> v]
<1>1. pc' = "idle" /\ req' = NoRequest /\ res' = [code |-> code, val |-> v]
  BY DEF Return, Goto
<1>2. StoreView' = StoreView
  BY StoreViewIs
<1> QED
  BY <1>1, <1>2 DEF Up, OpPcs

\* A lookup that writes nothing changes no value.
LEMMA LookupView ==
  ASSUME StoreInv, StoreInv', items' = items, pc \in OpPcs \ {"discard"},
         pc' \in OpPcs \cup GcPcs, pc' = "discard" => req'.type # "set"
  PROVE  \A k \in Keys : View(k)' = View(k)
<1>1. pc \notin BootScan /\ pc' \notin BootScan /\ \A k : ~Replaced(k) /\ ~Replaced(k)'
  BY DEF BootScan, OpPcs, GcPcs, Replaced
<1> QED
  BY <1>1, QuietStep

\* kv_item_find answers a get, a set of the same value and an absent key; it goes on
\* otherwise.
LEMMA FindRefines ==
  ASSUME StoreInv, StoreInv', FindSkip \/ FindMiss \/ FindHit \/ WalkNone
  PROVE  \/ abstract!Fetched \/ abstract!Succeed \/ abstract!NotExist
         \/ UNCHANGED abstract!storeVars
<1> USE DEF flashVars, tagVars, ramVars, callVars, Goto
<1>0. KvInv /\ CopyInv /\ OldState /\ items \in [Blk -> Seq(Entry)]
  BY DEF StoreInv, ViewInv, KvInv, Typed
<1>1. CASE FindSkip \/ FindMiss
  <2>1. pc = "find" /\ pc' = "find" /\ UNCHANGED <<req, res, items>>
    <3>1. CASE FindSkip
      BY <3>1 DEF FindSkip, WalkSkip
    <3>2. CASE FindMiss
      BY <3>2 DEF FindMiss, WalkMiss
    <3> QED
      BY <1>1, <3>1, <3>2
  <2>2. \A k \in Keys : View(k)' = View(k)
    BY <2>1, LookupView DEF OpPcs
  <2>3. Up' <=> Up
    BY <2>1 DEF Up, OpPcs
  <2> QED
    BY <2>1, <2>2, <2>3, Stutter
<1>2. CASE FindHit
  <2>1. PICK i \in Matches(at.blk, HasKey) :
          LET e == items[at.blk][i] IN
            \/ req.type = "get" /\ Return("ok", e.val)
            \/ req.type = "set" /\ e.val = req.val /\ Return("ok", Absent)
            \/ /\ req.type \in {"set", "del"}
               /\ pc' = IF req.type = "set" THEN "enter" ELSE "discard"
               /\ UNCHANGED <<req, res>>
    BY <1>2 DEF FindHit
  <2>2. /\ at.blk \in Blk /\ i \in DOMAIN items[at.blk] /\ items[at.blk][i].live
        /\ items[at.blk][i].key = req.key /\ pc = "find" /\ items' = items
    BY <1>2, <2>1 DEF FindHit, Matches, HasKey, WalkHit
  <2>3. Sound(items, Blk)
    BY <1>0, <2>2 DEF CopyInv, CopyState, QuietPcs, OpPcs
  <2>4. Held(items, req.key, items[at.blk][i].val)
    BY <2>2, <2>3 DEF Sound, Intact, Real, Held
  <2>5. pc' \in {"idle", "enter"} \/ (pc' = "discard" /\ req'.type # "set")
    BY <2>1 DEF Return
  <2>6. \A k \in Keys : View(k)' = View(k)
    BY <2>2, <2>5, LookupView DEF OpPcs
  <2>7. req.key \in Keys
    BY <2>2, RequestKind DEF OpPcs
  <2>8. View(req.key) = items[at.blk][i].val
    <3>1. ViewSound
      BY ViewIsSound DEF StoreInv
    <3>2. Worth(items, req.key, View(req.key))
      BY <2>2, <3>1 DEF ViewSound, Plain, Replaced, BootScan
    <3> QED
      BY <2>4, <3>2, HeldIsValue
  <2>9. StoreView[req.key] = items[at.blk][i].val
    BY <2>7, <2>8, StoreViewIs
  <2>10. items[at.blk][i].val # Absent
    <3>1. items[at.blk] \in Seq(Entry)
      BY <1>0, <2>2
    <3>2. items[at.blk][i] \in Entry
      BY <2>2, <3>1
    <3> QED
      BY <3>2, ItemAssumption DEF Entry
  <2>11. CASE req.type = "get" /\ Return("ok", items[at.blk][i].val)
    <3>1. /\ StoreView' = StoreView /\ Up /\ Up' /\ req' = NoRequest
          /\ res' = [code |-> "ok", val |-> items[at.blk][i].val]
      BY <2>2, <2>6, <2>11, ReturnKeeps DEF OpPcs
    <3>2. Up' = Up
      BY <3>1 DEF Up
    <3>3. abstract!Finish("ok", StoreView[req.key])
      BY <2>9, <3>1, <3>2 DEF abstract!Finish, abstract!NoRequest, NoRequest
    <3> QED
      BY <2>9, <2>10, <2>11, <3>1, <3>3 DEF abstract!Fetched
  <2>12. CASE req.type = "set" /\ items[at.blk][i].val = req.val /\ Return("ok", Absent)
    <3>1. /\ StoreView' = StoreView /\ Up /\ Up' /\ req' = NoRequest
          /\ res' = [code |-> "ok", val |-> Absent]
      BY <2>2, <2>6, <2>12, ReturnKeeps DEF OpPcs
    <3>2. Up' = Up
      BY <3>1 DEF Up
    <3>3. abstract!Finish("ok", Absent)
      BY <3>1, <3>2 DEF abstract!Finish, abstract!NoRequest, NoRequest
    <3>4. [StoreView EXCEPT ![req.key] = req.val] = StoreView
      BY <2>7, <2>9, <2>12, StoreViewIs
    <3>5. abstract!Applied(req) = StoreView
      BY <2>12, <3>4 DEF abstract!Applied
    <3> QED
      BY <2>12, <3>1, <3>3, <3>5 DEF abstract!Succeed
  <2>13. CASE /\ req.type \in {"set", "del"}
              /\ pc' = IF req.type = "set" THEN "enter" ELSE "discard"
              /\ UNCHANGED <<req, res>>
    <3>1. Up' <=> Up
      BY <2>2, <2>13 DEF Up, OpPcs
    <3> QED
      BY <2>6, <2>13, <3>1, Stutter
  <2> QED
    BY <2>1, <2>11, <2>12, <2>13
<1>3. CASE WalkNone
  <2>1. /\ pc \in {"find", "fix"} /\ at.blk > NBlk /\ items' = items
        /\ pc = "find" /\ req.type = "set" => pc' = "enter" /\ UNCHANGED <<req, res>>
        /\ ~(pc = "find" /\ req.type = "set") =>
             Return(IF pc = "fix" THEN "fixFailed" ELSE "absent", Absent)
    BY <1>3 DEF WalkNone
  <2>2. \A b \in Blk : b < at.blk
    BY <1>0, <2>1, SizeAssumption DEF Blk, KvInv, Typed
  <2>3. pc = "find"
    <3>1. SUFFICES ASSUME pc = "fix" PROVE FALSE
      BY <2>1
    <3>2. PICK b \in Blk : b >= at.blk
      BY <1>0, <3>1 DEF OldState
    <3> QED
      BY <1>0, <2>2, <3>2, SizeAssumption DEF Blk, KvInv, Typed
  <2>4. pc' \in {"idle", "enter"}
    BY <2>1 DEF Return
  <2>5. \A k \in Keys : View(k)' = View(k)
    BY <2>1, <2>3, <2>4, LookupView DEF OpPcs
  <2>6. CASE req.type = "set"
    <3>1. Up' <=> Up
      BY <2>1, <2>3, <2>6 DEF Up, OpPcs
    <3> QED
      BY <2>1, <2>3, <2>5, <2>6, <3>1, Stutter
  <2>7. CASE req.type # "set"
    <3>1. Return("absent", Absent)
      BY <2>1, <2>3, <2>7
    <3>2. /\ StoreView' = StoreView /\ Up /\ Up' /\ req' = NoRequest
          /\ res' = [code |-> "absent", val |-> Absent]
      BY <2>3, <2>5, <3>1, ReturnKeeps DEF OpPcs
    <3>3. Up' = Up
      BY <3>2 DEF Up
    <3>4. abstract!Finish("absent", Absent)
      BY <3>2, <3>3 DEF abstract!Finish, abstract!NoRequest, NoRequest
    <3>5. req.key \in Keys /\ req.type \in {"del", "get"}
      BY <2>3, <2>7, RequestKind DEF OpPcs
    <3>6. View(req.key) = Absent
      <4>1. \A b \in Blk : NoneIn(items, b, req.key)
        BY <1>0, <2>2, <2>3 DEF CopyInv, FoundState
      <4>2. \A w : ~Held(items, req.key, w)
        BY <4>1 DEF Held, NoneIn, Real
      <4>3. ViewSound
        BY ViewIsSound DEF StoreInv
      <4>4. Worth(items, req.key, View(req.key))
        BY <2>3, <4>3 DEF ViewSound, Plain, Replaced, BootScan
      <4> QED
        BY <4>2, <4>4, HeldIsValue
    <3>7. StoreView[req.key] = Absent
      BY <3>5, <3>6, StoreViewIs
    <3> QED
      BY <3>2, <3>4, <3>5, <3>7 DEF abstract!NotExist
  <2> QED
    BY <2>6, <2>7
<1> QED
  BY <1>1, <1>2, <1>3

\* The search for a block and kv_item_fix refuse the call or change nothing.
LEMMA SearchRefines ==
  ASSUME StoreInv, StoreInv',
         \/ Enter \/ EnterRefused \/ SearchWorkspace \/ SearchInuse \/ SearchFull \/ SearchFresh
         \/ SearchGc \/ FixSkip \/ FixMiss \/ FixHit
  PROVE  abstract!NoSpace \/ UNCHANGED abstract!storeVars
<1> USE DEF flashVars, tagVars, ramVars, callVars, Goto
<1>1. /\ pc \in {"enter", "search", "fix"} /\ items' = items
      /\ \/ Return("full", Absent)
         \/ /\ pc' \in {"search", "fix", "save"} \/ (pc' \in GcPcs /\ gc'.ret = "search")
            /\ UNCHANGED <<req, res>>
  <2>1. CASE Enter \/ EnterRefused
    BY <2>1 DEF Enter, EnterRefused
  <2>2. CASE SearchWorkspace \/ SearchInuse \/ SearchFull \/ SearchFresh
    BY <2>2 DEF SearchWorkspace, SearchInuse, SearchFull, SearchFresh, NoRoom, Chosen, Refused
  <2>3. CASE SearchGc
    BY <2>3 DEF SearchGc, NoRoom, CallGc, GcPcs
  <2>4. CASE FixSkip \/ FixMiss
    BY <2>4 DEF FixSkip, FixMiss, WalkSkip, WalkMiss
  <2>5. CASE FixHit
    BY <2>5 DEF FixHit, WalkHit
  <2> QED
    BY <2>1, <2>2, <2>3, <2>4, <2>5
<1>2. pc' \in OpPcs \cup GcPcs /\ pc' # "discard"
  BY <1>1 DEF Return, OpPcs, GcPcs
<1>3. \A k \in Keys : View(k)' = View(k)
  BY <1>1, <1>2, LookupView DEF OpPcs
<1>4. CASE UNCHANGED <<req, res>> /\ (pc' \in {"search", "fix", "save"} \/ (pc' \in GcPcs /\ gc'.ret = "search"))
  <2>1. Up' <=> Up
    BY <1>1, <1>4 DEF Up, OpPcs
  <2> QED
    BY <1>3, <1>4, <2>1, Stutter
<1>5. CASE Return("full", Absent)
  <2>1. /\ StoreView' = StoreView /\ Up /\ Up' /\ req' = NoRequest
        /\ res' = [code |-> "full", val |-> Absent]
    BY <1>1, <1>3, <1>5, ReturnKeeps DEF OpPcs
  <2>2. Up' = Up
    BY <2>1 DEF Up
  <2>3. abstract!Finish("full", Absent)
    BY <2>1, <2>2 DEF abstract!Finish, abstract!NoRequest, NoRequest
  <2>4. req.type = "set"
    BY <1>1 DEF StoreInv, KvInv, CallState
  <2> QED
    BY <2>1, <2>3, <2>4 DEF abstract!NoSpace
<1> QED
  BY <1>1, <1>4, <1>5

\* A call that returns with its request applied.
LEMMA ReturnApplies ==
  ASSUME StoreInv, StoreInv', pc \in OpPcs \ {"idle"}, req.type \in {"set", "del"},
         \A k \in Keys : View(k)' = IF k = req.key THEN req.val ELSE View(k),
         req.type = "del" => View(req.key) # Absent, Return("ok", Absent)
  PROVE  abstract!Succeed
<1>1. pc' = "idle" /\ req' = NoRequest /\ res' = [code |-> "ok", val |-> Absent]
  BY DEF Return, Goto
<1>2. Up /\ Up'
  BY <1>1 DEF Up, OpPcs
<1>3. Up' = Up
  BY <1>2 DEF Up
<1>4. abstract!Finish("ok", Absent)
  BY <1>1, <1>3 DEF abstract!Finish, abstract!NoRequest, NoRequest
<1>5. req.key \in Keys /\ (req.type = "del" => req.val = Absent)
  BY RequestKind
<1>6. StoreView' = [StoreView EXCEPT ![req.key] = req.val]
  BY <1>5, StoreViewIs
<1>7. StoreView' = abstract!Applied(req)
  BY <1>5, <1>6 DEF abstract!Applied
<1>8. req.type = "del" => StoreView[req.key] # Absent
  BY <1>5, StoreViewIs
<1> QED
  BY <1>4, <1>7, <1>8 DEF abstract!Succeed

\* kv_item_save applies the set of a new key; that of an old one is a stutter.
LEMMA SaveRefines ==
  ASSUME ItemsFit, StoreInv, StoreInv', Save
  PROVE  abstract!Succeed \/ UNCHANGED abstract!storeVars
<1> USE DEF tagVars, callVars, Goto
<1>1. pc = "save" /\ req.type = "set"
  BY DEF Save, StoreInv, KvInv, CallState
<1>2. \A k : View(k)' = IF cur = NoItem /\ k = req.key THEN req.val ELSE View(k)
  BY SaveView
<1>3. CASE cur = NoItem
  <2>1. Return("ok", Absent)
    BY <1>3 DEF Save
  <2> QED
    BY <1>1, <1>2, <1>3, <2>1, ReturnApplies DEF OpPcs
<1>4. CASE cur # NoItem
  <2>1. pc' = "discard" /\ UNCHANGED <<req, res>>
    BY <1>4 DEF Save
  <2>2. Up' <=> Up
    BY <1>1, <2>1 DEF Up, OpPcs
  <2> QED
    BY <1>2, <1>4, <2>1, <2>2, Stutter
<1> QED
  BY <1>3, <1>4

\* The discard of the old item applies the update or the delete.
LEMMA DiscardRefines ==
  ASSUME ItemsFit, StoreInv, StoreInv', Discard
  PROVE  abstract!Succeed
<1>1. pc = "discard" /\ Return("ok", Absent)
  BY DEF Discard
<1>2. /\ req.type \in {"set", "del"} /\ (req.type = "del" => req.val = Absent)
  BY <1>1, RequestKind DEF StoreInv, ViewInv, OldState, OpPcs
<1>3. \A k : /\ k # req.key => View(k)' = View(k)
             /\ k = req.key /\ req.type = "set" => View(k)' = req.val
             /\ k = req.key /\ req.type = "del" => View(k)' = Absent /\ View(k) = cur.ent.val
  BY DiscardView
<1>4. cur.ent.val # Absent
  <2>1. cur # NoItem /\ cur.ent \in Entry
    BY <1>1 DEF StoreInv, KvInv, CallState, Typed
  <2> QED
    BY <2>1, ItemAssumption DEF Entry
<1>5. \A k \in Keys : View(k)' = IF k = req.key THEN req.val ELSE View(k)
  BY <1>2, <1>3
<1> QED
  BY <1>1, <1>2, <1>3, <1>4, <1>5, ReturnApplies DEF OpPcs

\* A call of the code is a call of the map.
LEMMA CallRefines ==
  ASSUME StoreInv, StoreInv', NEW r \in Requests, Call(r)
  PROVE  abstract!Call(r)
<1> USE DEF flashVars, tagVars, ramVars, Goto
<1>1. pc = "idle" /\ pc' = "find" /\ req' = r /\ res' = NoResult /\ items' = items
  BY DEF Call
<1>2. req = NoRequest
  BY <1>1 DEF StoreInv, ViewInv, OldState, Busy, GcPcs
<1>3. \A k \in Keys : View(k)' = View(k)
  BY <1>1, LookupView DEF OpPcs
<1>4. StoreView' = StoreView
  BY <1>3, StoreViewIs
<1>5. Up /\ Up'
  BY <1>1 DEF Up, OpPcs
<1>6. Up' = Up
  BY <1>5 DEF Up
<1> QED
  BY <1>1, <1>2, <1>4, <1>5, <1>6
     DEF abstract!Call, abstract!NoRequest, NoRequest, abstract!NoResult, NoResult

\* A power loss leaves the map as it was or with the request applied.
LEMMA LossRefines ==
  ASSUME ItemsFit, StoreInv, StoreInv', PowerLoss \/ Deinit
  PROVE  abstract!PowerLoss
<1>1. pc' = "down" /\ req' = NoRequest /\ res' = NoResult
  BY DEF PowerLoss, Deinit, Halt, Goto
<1>2. ~Up'
  BY <1>1 DEF Up, OpPcs, GcPcs
<1>3. Up' = FALSE
  BY <1>2
<1>4. \A k : /\ ~Replaced(k) => View(k)' = View(k)
             /\ Replaced(k) => View(k)' \in {View(k), req.val}
  BY LossView
<1>5. StoreView' = StoreView \/ StoreView' = abstract!Applied(req)
  <2>1. CASE \A k \in Keys : View(k)' = View(k)
    BY <2>1, StoreViewIs
  <2>2. CASE ~\A k \in Keys : View(k)' = View(k)
    <3>1. PICK k \in Keys : View(k)' # View(k)
      BY <2>2
    <3>2. Replaced(k) /\ View(k)' = req.val
      BY <1>4, <3>1
    <3>3. req.type = "set" /\ req.key = k /\ \A n : Replaced(n) <=> n = k
      BY <3>2 DEF Replaced
    <3>4. StoreView' = [StoreView EXCEPT ![req.key] = req.val]
      BY <1>4, <3>1, <3>2, <3>3, StoreViewIs
    <3> QED
      BY <3>3, <3>4 DEF abstract!Applied
  <2> QED
    BY <2>1, <2>2
<1> QED
  BY <1>1, <1>3, <1>5
     DEF abstract!PowerLoss, abstract!NoRequest, NoRequest, abstract!NoResult, NoResult

\* An erased chip is the empty map.
LEMMA InitRefines ==
  ASSUME Init
  PROVE  abstract!Init
<1>1. /\ pc = "down" /\ req = NoRequest /\ res = NoResult /\ gcSrc = {}
      /\ \A b \in Blk : DOMAIN items[b] = {}
  BY DEF Init
<1>2. StoreInv
  BY KvInit, CopyInit, ViewInit DEF StoreInv
<1>3. ~Up
  BY <1>1 DEF Up, OpPcs, GcPcs
<1>4. Up = FALSE
  BY <1>3
<1>5. ASSUME NEW k PROVE View(k) = Absent
  <2>1. Plain(k)
    BY <1>1 DEF Plain, Replaced, OneIn
  <2>2. Worth(items, k, View(k))
    BY <1>2, <2>1, ViewIsSound DEF StoreInv, ViewSound
  <2>3. \A w : ~Held(items, k, w)
    BY <1>1 DEF Held
  <2> QED
    BY <2>2, <2>3, HeldIsValue
<1>6. StoreView = [k \in Keys |-> Absent]
  BY <1>5, StoreViewIs
<1> QED
  BY <1>1, <1>4, <1>6
     DEF abstract!Init, abstract!NoRequest, NoRequest, abstract!NoResult, NoResult

\* Every step of the code is a step of the map or a stutter.
LEMMA StepRefines ==
  ASSUME ItemsFit, ~AnyLoss, StoreInv, [Next]_vars
  PROVE  [abstract!Next]_(abstract!storeVars)
<1>0. StoreInv'
  BY StoreInvStep
<1>1. CASE UNCHANGED vars
  <2> USE <1>1 DEF vars
  <2>1. StoreView' = StoreView
    BY DEF StoreView, RunningVal, RecoveredVal, FirstVal, Copies, BootBlks, PendingDst, DstNotDone, Up
  <2>2. Up' = Up
    BY DEF Up
  <2> QED
    BY <2>1, <2>2 DEF abstract!storeVars
<1>2. CASE Boot
  BY <1>0, <1>2, BootRefines DEF abstract!Next
<1>3. CASE Gc
  BY <1>0, <1>3, GcRefines
<1>4. CASE FindSkip \/ FindMiss \/ FindHit \/ WalkNone
  BY <1>0, <1>4, FindRefines DEF abstract!Next
<1>5. CASE \/ Enter \/ EnterRefused \/ SearchWorkspace \/ SearchInuse \/ SearchFull \/ SearchFresh
           \/ SearchGc \/ FixSkip \/ FixMiss \/ FixHit
  BY <1>0, <1>5, SearchRefines DEF abstract!Next
<1>6. CASE Save
  BY <1>0, <1>6, SaveRefines DEF abstract!Next
<1>7. CASE Discard
  BY <1>0, <1>7, DiscardRefines DEF abstract!Next
<1>8. CASE \E r \in Requests : Call(r)
  <2>1. PICK r \in Requests : Call(r)
    BY <1>8
  <2>2. abstract!Call(r) /\ r \in abstract!Requests
    BY <1>0, <2>1, CallRefines DEF abstract!Requests, Requests
  <2> QED
    BY <2>2 DEF abstract!Next
<1>9. CASE PowerLoss \/ Deinit
  BY <1>0, <1>9, LossRefines DEF abstract!Next
<1> QED
  BY <1>1, <1>2, <1>3, <1>4, <1>5, <1>6, <1>7, <1>8, <1>9 DEF Next, Serve

\* The store is a durable map, through gc, torn writes and every power loss
\* outside GcInDoubt: ln_kv_set, ln_kv_get and ln_kv_del take effect at once or
\* not at all, and ln_kv_init brings back every value that was there.
THEOREM KvDurableMap == ItemsFit /\ ~AnyLoss => (Spec => DurableMap)
<1> SUFFICES ASSUME ItemsFit, ~AnyLoss PROVE Spec => DurableMap
  OBVIOUS
<1>1. Init => StoreInv
  BY KvInit, CopyInit, ViewInit DEF StoreInv
<1>2. StoreInv /\ [Next]_vars => StoreInv'
  BY StoreInvStep
<1>3. Init => abstract!Init
  BY InitRefines
<1>4. StoreInv /\ [Next]_vars => [abstract!Next]_(abstract!storeVars)
  BY StepRefines
<1> QED
  BY <1>1, <1>2, <1>3, <1>4, PTL DEF Spec, DurableMap, abstract!Spec

=============================================================================
