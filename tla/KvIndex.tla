------------------------------ MODULE KvIndex ------------------------------
(***************************************************************************)
(* The RAM index of the key/value store (kv_blk_info_t and the inline      *)
(* functions of components/fs/kv/kv/ln_kv.h).  The flag byte of every      *)
(* block is kept as three sets of blocks; num_fresh and num_inuse are kept *)
(* apart from the flags, as in the code, because the code trusts them.     *)
(* KV_BLK_FLAG_BAD is left out: the flash port never reports an error.     *)
(* KV_BLK_FLAG_HANGING needs a failing malloc, which is not modelled.      *)
(***************************************************************************)
EXTENDS Integers, FiniteSets

CONSTANTS
  NBlk,      \* KV_MGR_BLK_NUM_TOTAL
  Cap,       \* KV_BLK_FRESH_SIZE: the room for items in a block
  Hdr        \* KV_ITEM_HDR_SIZE

ASSUME SizeAssumption ==
  /\ NBlk \in Nat \ {0}
  /\ Hdr \in Nat \ {0}
  /\ Cap \in Nat
  /\ Hdr < Cap

\* The blocks, in the order of KV_BLK_FOR_EACH.
Blk == 1 .. NBlk

Index == [fresh : SUBSET Blk, inuse : SUBSET Blk, dirty : SUBSET Blk,
          free : [Blk -> 0 .. Cap], numFresh : Nat, numInuse : Nat]

\* kv_ctl after the memset of ln_kv_init.
ZeroIndex ==
  [fresh |-> {}, inuse |-> {}, dirty |-> {},
   free |-> [b \in Blk |-> 0], numFresh |-> 0, numInuse |-> 0]

SetFree(ix, b, n) == [ix EXCEPT !.free[b] = n]

ReduceFree(ix, b, n) == [ix EXCEPT !.free[b] = @ - n]

IsFull(ix, b) == ix.free[b] <= Hdr

\* Mutant of SetFresh: the free size is not set back.
SetFreshStaleSize(ix, b) ==
  [ix EXCEPT !.fresh = @ \cup {b}, !.inuse = @ \ {b}, !.dirty = @ \ {b},
             !.numFresh = IF b \in ix.fresh THEN @ ELSE @ + 1]

\* kv_blk_set_fresh overwrites the whole flag byte.
SetFresh(ix, b) ==
  [fresh    |-> ix.fresh \cup {b},
   inuse    |-> ix.inuse \ {b},
   dirty    |-> ix.dirty \ {b},
   free     |-> [ix.free EXCEPT ![b] = Cap],
   numFresh |-> IF b \in ix.fresh THEN ix.numFresh ELSE ix.numFresh + 1,
   numInuse |-> ix.numInuse]

SetInuse(ix, b) ==
  [ix EXCEPT !.inuse = @ \cup {b},
             !.numInuse = IF b \in ix.inuse THEN @ ELSE @ + 1]

SetDirty(ix, b) == [ix EXCEPT !.dirty = @ \cup {b}]

\* Mutant of ResetFresh: num_fresh is not decremented.
ResetFreshUncounted(ix, b) == [ix EXCEPT !.fresh = @ \ {b}]

ResetFresh(ix, b) ==
  [ix EXCEPT !.fresh = @ \ {b},
             !.numFresh = IF b \in ix.fresh THEN @ - 1 ELSE @]

ResetInuse(ix, b) ==
  [ix EXCEPT !.inuse = @ \ {b},
             !.numInuse = IF b \in ix.inuse THEN @ - 1 ELSE @]

\* A block that has just lost its fresh flag: in use unless it is full.
LeaveFresh(ix, b) ==
  IF IsFull(ix, b) THEN ResetFresh(ix, b) ELSE SetInuse(ResetFresh(ix, b), b)

\* What kv_item_walkthru records after a walk over the whole block: end is
\* the offset it stopped at.
WalkEnd(ix, b, end) ==
  IF end = 0 THEN SetFresh(ix, b)
  ELSE IF end + Hdr < Cap THEN SetInuse(SetFree(ix, b, Cap - end), b)
  ELSE ResetInuse(SetFree(ix, b, 0), b)

NoWriteable(ix) == ix.numInuse = 0 /\ ix.numFresh = 0

\* The first block of S in the order of KV_BLK_FOR_EACH, as a set.
Firsts(S) == {b \in S : \A c \in S : b <= c}

\* The last one.
Lasts(S) == {b \in S : \A c \in S : c <= b}

\* How many steps of KV_BLK_NEXT lead from w to b.
RingDistance(w, b) == IF w < b THEN b - w ELSE b - w + NBlk

\* The first block of S behind w on the ring, w itself left out
\* (KV_BLK_FOR_EACH_FROM), as a set.
NextOnRing(S, w) ==
  {b \in S \ {w} : \A c \in S \ {w} : RingDistance(w, b) <= RingDistance(w, c)}

=============================================================================
