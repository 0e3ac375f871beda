------------------------------- MODULE LnKv --------------------------------
(***************************************************************************)
(* The log-structured key/value store of components/fs/kv/kv/ln_kv.c.      *)
(*                                                                         *)
(* Flash is a ring of blocks.  A block has a header (the format magic and  *)
(* the three gc tags) and a log of items.  An item is appended once; later *)
(* only its discarded flag is written.  An update appends the new item and *)
(* then discards the old one; gc copies the live items of a dirty block to *)
(* a fresh one and formats the dirty one.                                  *)
(*                                                                         *)
(* Every action makes at most one write to flash, so that a power loss can *)
(* hit between any two writes; a write of an item can also be torn.  The   *)
(* operations run under kv_lock, so there is one request at a time.        *)
(***************************************************************************)
EXTENDS KvIndex, Sequences

CONSTANTS
  Keys, Values,
  Absent,        \* "no value stored"
  Garbage,       \* the body of an item whose write was torn
  BodySize,      \* BodySize[v]: aligned key plus value length of an item
  CountBound,    \* bound on num_inuse between calls, see CountersSound
  AnyLoss        \* may the power also fail where gc cannot be redone?

ASSUME ItemAssumption ==
  /\ BodySize \in [Values -> Nat \ {0}]
  /\ Absent \notin Values \cup Keys
  /\ Garbage \notin Values \cup Keys \cup {Absent}
  /\ CountBound \in Nat
  /\ AnyLoss \in BOOLEAN

VARIABLES
  magic, gcSrc, gcDst, gcDone,  \* flash: the blocks with each header tag set
  items,                        \* flash: the log of every block
  idx,                          \* kv_ctl.mgr_ctl.blk_info
  ws,                           \* kv_ctl.mgr_ctl.workspace
  pc,                           \* where the code is
  req, res,                     \* the call in progress and the last result
  at,                           \* cursor of the block and item loops
  cur,                          \* the item found for the key of req
  gc                            \* arguments of kv_do_gc and its caller

flashVars == <<magic, gcSrc, gcDst, gcDone, items>>
tagVars == <<magic, gcSrc, gcDst, gcDone>>
ramVars == <<idx, ws>>
callVars == <<req, res, cur>>
vars == <<magic, gcSrc, gcDst, gcDone, items, idx, ws, pc, req, res, at, cur, gc>>

----------------------------------------------------------------------------
(* Items and positions *)

ItemSize(v) == Hdr + BodySize[v]

\* A caller keeps within this limit or ln_kv_set leaves the block.
ItemsFit == \A v \in Values : ItemSize(v) <= Cap

NoPos == <<0, 0>>
Positions == (Blk \X (0 .. Cap)) \cup {NoPos}

\* A dead item is discarded, or its header was torn before its magic was
\* written; the code passes over both and reads nothing of them but the size
\* (KV_ITEM_HDR_SIZE for a torn header), so nothing else is kept.  ok: the
\* checksum matches the body.
Entry == [off : 0 .. Cap, size : Hdr .. Cap, live : BOOLEAN, ok : BOOLEAN,
          key : Keys \cup {Absent}, val : Values \cup {Garbage},
          prev : Positions]

NewItem(off, k, v, prev) ==
  [off |-> off, size |-> ItemSize(v), live |-> TRUE, ok |-> TRUE,
   key |-> k, val |-> v, prev |-> prev]

DeadItem(off, size) ==
  [off |-> off, size |-> size, live |-> FALSE, ok |-> FALSE,
   key |-> Absent, val |-> Garbage, prev |-> NoPos]

\* What an interrupted write of item e may leave behind: a header without
\* its magic, or a header and a body that is missing in part, the key
\* included or not.
Torn(e) ==
  {DeadItem(e.off, Hdr)}
  \cup {[e EXCEPT !.ok = FALSE, !.key = k, !.val = Garbage] :
          k \in {e.key, Absent}}

\* The offset behind the last item of a log.
EndOf(log) ==
  IF log = <<>> THEN 0 ELSE log[Len(log)].off + log[Len(log)].size

LogEnd(b) == EndOf(items[b])

\* A walk over items 1 .. n of block b: a discarded or a torn one makes the
\* block dirty.
Passed(ix, b, n) ==
  IF \E i \in 1 .. n : ~items[b][i].live THEN SetDirty(ix, b) ELSE ix

\* The headers that a read at position p finds: none in the middle of an item.
ItemsAt(p) ==
  IF p[1] \in Blk
  THEN {items[p[1]][i] : i \in {j \in DOMAIN items[p[1]] : items[p[1]][j].off = p[2]}}
  ELSE {}

Append1(b, e) == [items EXCEPT ![b] = Append(@, e)]

\* kv_item_do_delete: program the discarded flag of the item at an offset.
DiscardAt(log, off) ==
  [i \in DOMAIN log |->
     IF log[i].off = off THEN DeadItem(off, log[i].size) ELSE log[i]]

Discarded(p) == [items EXCEPT ![p[1]] = DiscardAt(@, p[2])]

\* A walk over the whole block.
Walked(ix, b) == WalkEnd(Passed(ix, b, Len(items[b])), b, LogEnd(b))

----------------------------------------------------------------------------
(* Requests and control *)

NoRequest == [type |-> "none", key |-> Absent, val |-> Absent]
Requests == [type : {"set"}, key : Keys, val : Values]
              \cup [type : {"del", "get"}, key : Keys, val : {Absent}]
NoResult == [code |-> "none", val |-> Absent]
NoItem == [blk |-> 0, ent |-> [off |-> 0]]
NoGc == [src |-> 0, dst |-> 0, i |-> 1, ret |-> "none"]
Start == [blk |-> 1, i |-> 1]
KV_BLK_INVALID == -1

GcPcs == {"gcSrc", "gcDst", "gcCopy", "gcMagic", "gcDone"}
BootPcs == {"scan", "incomplete", "dstErase", "dstMagic", "locate", "relocate"}
OpPcs == {"idle", "find", "enter", "search", "fix", "save", "discard"}

\* ln_kv_init has returned.
Up == pc \in OpPcs \/ (pc \in GcPcs /\ gc.ret = "search")

CurPos == IF cur = NoItem THEN NoPos ELSE <<cur.blk, cur.ent.off>>

Init ==
  /\ magic = {} /\ gcSrc = {} /\ gcDst = {} /\ gcDone = {}
  /\ items = [b \in Blk |-> <<>>]
  /\ idx = ZeroIndex /\ ws = 0
  /\ pc = "down"
  /\ req = NoRequest /\ res = NoResult
  /\ at = Start /\ cur = NoItem /\ gc = NoGc

Goto(l) == pc' = l

Return(code, val) ==
  /\ Goto("idle")
  /\ req' = NoRequest
  /\ res' = [code |-> code, val |-> val]
  /\ cur' = NoItem
  /\ at' = Start

----------------------------------------------------------------------------
(* Erasing a block clears its header and its log *)

Erase(b) ==
  /\ magic' = magic \ {b}
  /\ gcSrc' = gcSrc \ {b}
  /\ gcDst' = gcDst \ {b}
  /\ gcDone' = gcDone \ {b}
  /\ items' = [items EXCEPT ![b] = <<>>]

----------------------------------------------------------------------------
(* kv_do_gc(src, dst): five tags and writes, one per action *)

CallGc(src, dst, first, ret) ==
  /\ Goto(first)
  /\ gc' = [src |-> src, dst |-> dst, i |-> 1, ret |-> ret]

GcMarkSrc ==
  /\ pc = "gcSrc"
  /\ gcSrc' = gcSrc \cup {gc.src}
  /\ Goto("gcDst")
  /\ UNCHANGED <<magic, gcDst, gcDone, items, ramVars, callVars, at, gc>>

GcMarkDst ==
  /\ pc = "gcDst"
  /\ gcDst' = gcDst \cup {gc.dst}
  /\ Goto("gcCopy")
  /\ UNCHANGED <<magic, gcSrc, gcDone, items, ramVars, callVars, at, gc>>

\* The item kv_item_do_gc appends to the destination: everything but the
\* discarded flag is copied, prev_pos included, and the checksum is not
\* verified.
GcCopyOf(e) == [e EXCEPT !.off = Cap - idx.free[gc.dst]]

\* Mutant of GcCopy: the free size of the destination is not reduced.
GcCopyUncounted ==
  /\ pc = "gcCopy"
  /\ gc.i <= Len(items[gc.src])
  /\ LET e == items[gc.src][gc.i] IN
       IF e.live
       THEN items' = Append1(gc.dst, GcCopyOf(e)) /\ UNCHANGED idx
       ELSE idx' = SetDirty(idx, gc.src) /\ UNCHANGED items
  /\ gc' = [gc EXCEPT !.i = @ + 1]
  /\ UNCHANGED <<tagVars, ws, pc, callVars, at>>

GcCopy ==
  /\ pc = "gcCopy"
  /\ gc.i <= Len(items[gc.src])
  /\ LET e == items[gc.src][gc.i] IN
       IF e.live
       THEN /\ items' = Append1(gc.dst, GcCopyOf(e))
            /\ idx' = ReduceFree(idx, gc.dst, e.size)
       ELSE /\ idx' = SetDirty(idx, gc.src)
            /\ UNCHANGED items
  /\ gc' = [gc EXCEPT !.i = @ + 1]
  /\ UNCHANGED <<tagVars, ws, pc, callVars, at>>

\* Mutant of GcErase: the copy walk stops one item early.
GcEraseEarly ==
  /\ pc = "gcCopy"
  /\ gc.i >= Len(items[gc.src])
  /\ idx' = ResetInuse(Walked(idx, gc.src), gc.src)
  /\ Erase(gc.src)
  /\ Goto("gcMagic")
  /\ UNCHANGED <<ws, callVars, at, gc>>

\* The end of the copy walk and the erase of kv_blk_format(src).
GcErase ==
  /\ pc = "gcCopy"
  /\ gc.i > Len(items[gc.src])
  /\ idx' = ResetInuse(Walked(idx, gc.src), gc.src)
  /\ Erase(gc.src)
  /\ Goto("gcMagic")
  /\ UNCHANGED <<ws, callVars, at, gc>>

GcMagic ==
  /\ pc = "gcMagic"
  /\ magic' = magic \cup {gc.src}
  /\ idx' = SetFresh(idx, gc.src)
  /\ Goto("gcDone")
  /\ UNCHANGED <<gcSrc, gcDst, gcDone, items, ws, callVars, at, gc>>

GcMarkDone ==
  /\ pc = "gcDone"
  /\ gcDone' = gcDone \cup {gc.dst}
  /\ idx' = LeaveFresh(idx, gc.dst)
  /\ ws' = IF gc.ret = "search" THEN gc.dst ELSE ws
  /\ Goto(gc.ret)
  /\ gc' = NoGc
  /\ UNCHANGED <<magic, gcSrc, gcDst, items, callVars, at>>

----------------------------------------------------------------------------
(* ln_kv_init *)

PowerUp ==
  /\ pc = "down"
  /\ idx' = ZeroIndex
  /\ ws' = 0
  /\ at' = Start
  /\ Goto("scan")
  /\ UNCHANGED <<flashVars, callVars, gc>>

\* The next turn of KV_BLK_FOR_EACH in kv_mgr_ctl_build.
NextScan ==
  IF at.blk = NBlk
  THEN Goto("incomplete") /\ at' = Start
  ELSE at' = [blk |-> at.blk + 1, i |-> 1] /\ UNCHANGED pc

\* A gc destination whose gc never reached its last step.
DstNotDone == gcDst \ gcDone

\* A block without its magic is formatted.  Such a block is blank already, so
\* the erase before the write of the magic is not a step of its own.
ScanFormat ==
  /\ pc = "scan"
  /\ at.blk \notin magic
  /\ magic' = magic \cup {at.blk}
  /\ items' = [items EXCEPT ![at.blk] = <<>>]
  /\ idx' = SetFresh(idx, at.blk)
  /\ NextScan
  /\ UNCHANGED <<gcSrc, gcDst, gcDone, ws, callVars, gc>>

ScanSkip ==
  /\ pc = "scan"
  /\ at.blk \in magic /\ at.blk \in gcSrc \cup DstNotDone
  /\ NextScan
  /\ UNCHANGED <<flashVars, ramVars, callVars, gc>>

Indexing == pc = "scan" /\ at.blk \in magic \ (gcSrc \cup DstNotDone)

\* kv_item_is_updated_one and the conditions of kv_item_try_delete: the item
\* at prev_pos is live and has the same key.
Supersedes(b, e, p) ==
  /\ e.prev = p
  /\ p # NoPos
  /\ p # <<b, e.off>>
  /\ \E old \in ItemsAt(p) : old.live /\ old.key = e.key

\* Mutant of ScanItem: the checksum of a live item is not verified.
ScanItemUnverified ==
  /\ Indexing
  /\ at.i <= Len(items[at.blk])
  /\ LET e == items[at.blk][at.i] IN
       IF e.live /\ Supersedes(at.blk, e, e.prev)
       THEN items' = Discarded(e.prev) /\ idx' = SetDirty(idx, e.prev[1])
       ELSE idx' = (IF e.live THEN idx ELSE SetDirty(idx, at.blk)) /\ UNCHANGED items
  /\ at' = [at EXCEPT !.i = @ + 1]
  /\ UNCHANGED <<tagVars, ws, pc, callVars, gc>>

\* One item of kv_item_walkthru with kv_item_do_recovery.
ScanItem ==
  /\ Indexing
  /\ at.i <= Len(items[at.blk])
  /\ LET b == at.blk
         e == items[b][at.i]
     IN  \/ /\ ~e.live
            /\ idx' = SetDirty(idx, b)
            /\ UNCHANGED items
         \/ /\ e.live /\ ~e.ok
            /\ items' = Discarded(<<b, e.off>>)
            /\ idx' = SetDirty(idx, b)
         \/ /\ e.live /\ e.ok
            /\ IF Supersedes(b, e, e.prev)
               THEN /\ items' = Discarded(e.prev)
                    /\ idx' = SetDirty(idx, e.prev[1])
               ELSE UNCHANGED <<items, idx>>
  /\ at' = [at EXCEPT !.i = @ + 1]
  /\ UNCHANGED <<tagVars, ws, pc, callVars, gc>>

\* The walk marked discarded items as it passed them, so only the end counts.
ScanEnd ==
  /\ Indexing
  /\ at.i > Len(items[at.blk])
  /\ idx' = WalkEnd(idx, at.blk, LogEnd(at.blk))
  /\ NextScan
  /\ UNCHANGED <<flashVars, ws, callVars, gc>>

\* kv_handle_incomplete_gc.  A block with the gc_src tag is only a source.
PendingSrc == gcSrc
PendingDst == DstNotDone \ gcSrc

\* KV_ERR_BLK_STATUS_ERROR: ln_kv_init gives up without a workspace.  Its
\* callers log the error and go on to use the store.
StatusError ==
  /\ pc = "incomplete"
  /\ \/ Cardinality(PendingSrc) > 1
     \/ Cardinality(PendingDst) > 1
     \/ PendingSrc # {} /\ PendingDst = {} /\ idx.fresh = {}
  /\ Goto("idle")
  /\ UNCHANGED <<flashVars, ramVars, callVars, at, gc>>

\* Mutant of NothingToRedo: only a destination counts as an unfinished gc.
NothingToRedoWithoutDst ==
  /\ pc = "incomplete"
  /\ PendingDst = {}
  /\ Goto("locate")
  /\ UNCHANGED <<flashVars, ramVars, callVars, at, gc>>

NothingToRedo ==
  /\ pc = "incomplete"
  /\ Cardinality(PendingDst) <= 1
  /\ PendingSrc = {}
  /\ Goto("locate")
  /\ UNCHANGED <<flashVars, ramVars, callVars, at, gc>>

\* gc stopped before its destination was tagged: take the last fresh block.
RedoOnFresh ==
  /\ pc = "incomplete"
  /\ PendingDst = {}
  /\ \E src \in PendingSrc, dst \in Lasts(idx.fresh) :
       /\ PendingSrc = {src}
       /\ CallGc(src, dst, "gcDst", "locate")
  /\ UNCHANGED <<flashVars, ramVars, callVars, at>>

\* gc stopped later: format the destination and start over.
RedoOnDst ==
  /\ pc = "incomplete"
  /\ \E src \in PendingSrc, dst \in PendingDst :
       /\ PendingSrc = {src} /\ PendingDst = {dst}
       /\ CallGc(src, dst, "dstErase", "locate")
  /\ UNCHANGED <<flashVars, ramVars, callVars, at>>

DstErase ==
  /\ pc = "dstErase"
  /\ Erase(gc.dst)
  /\ Goto("dstMagic")
  /\ UNCHANGED <<ramVars, callVars, at, gc>>

DstMagic ==
  /\ pc = "dstMagic"
  /\ magic' = magic \cup {gc.dst}
  /\ idx' = SetFresh(idx, gc.dst)
  /\ Goto("gcDst")
  /\ UNCHANGED <<gcSrc, gcDst, gcDone, items, ws, callVars, at, gc>>

\* kv_mgr_workspace_locate: with a single fresh block left, try a gc first.
Rescue == idx.numInuse = 0 /\ idx.numFresh = 1

LocateGc ==
  /\ pc = "locate"
  /\ Rescue
  /\ \E src \in Firsts(idx.dirty), dst \in Firsts(idx.fresh) :
       CallGc(src, dst, "gcSrc", "relocate")
  /\ UNCHANGED <<flashVars, ramVars, callVars, at>>

\* With no writeable block ln_kv_init reports an error and leaves workspace
\* zero; the store serves requests all the same.
Locate ==
  /\ \/ pc = "relocate"
     \/ pc = "locate" /\ ~(Rescue /\ idx.dirty # {} /\ idx.fresh # {})
  /\ LET S == IF idx.numInuse = 0 THEN idx.fresh ELSE idx.inuse IN
       \/ S = {} /\ UNCHANGED ws
       \/ ws' \in Firsts(S)
  /\ Goto("idle")
  /\ UNCHANGED <<flashVars, idx, callVars, at, gc>>

----------------------------------------------------------------------------
(* ln_kv_set, ln_kv_get, ln_kv_has_key, ln_kv_del *)

Call(r) ==
  /\ pc = "idle"
  /\ idx.numInuse <= CountBound
  /\ req' = r
  /\ res' = NoResult
  /\ Goto("find")
  /\ UNCHANGED <<flashVars, ramVars, cur, at, gc>>

NextBlk == at' = [blk |-> at.blk + 1, i |-> 1]

\* The first item of block b that a walker of kv_item_find would return.
Matches(b, P(_)) ==
  {i \in DOMAIN items[b] :
     /\ items[b][i].live /\ P(items[b][i])
     /\ \A j \in 1 .. i - 1 : ~(items[b][j].live /\ P(items[b][j]))}

HasKey(e) == e.key = req.key
SameItem(e) == e.key = req.key /\ e.val = cur.ent.val

\* kv_item_find passes over fresh blocks without reading them.
WalkSkip(l) ==
  /\ pc = l
  /\ at.blk \in idx.fresh
  /\ NextBlk
  /\ UNCHANGED <<flashVars, ramVars, pc, callVars, gc>>

WalkMiss(l, P(_)) ==
  /\ pc = l
  /\ at.blk \in Blk \ idx.fresh
  /\ Matches(at.blk, P) = {}
  /\ idx' = Walked(idx, at.blk)
  /\ NextBlk
  /\ UNCHANGED <<flashVars, ws, pc, callVars, gc>>

WalkHit(i) ==
  /\ idx' = Passed(idx, at.blk, i - 1)
  /\ UNCHANGED <<flashVars, ws, gc>>

FindSkip == WalkSkip("find")

FindMiss == WalkMiss("find", HasKey)

FindHit ==
  /\ pc = "find"
  /\ at.blk \in Blk \ idx.fresh
  /\ \E i \in Matches(at.blk, HasKey) :
       /\ WalkHit(i)
       /\ LET e == items[at.blk][i] IN
            \/ /\ req.type = "get"
               /\ Return("ok", e.val)
            \/ /\ req.type = "set" /\ e.val = req.val
               /\ Return("ok", Absent)
            \/ /\ \/ req.type = "set" /\ e.val # req.val
                  \/ req.type = "del"
               /\ cur' = [blk |-> at.blk, ent |-> e]
               /\ at' = Start
               /\ Goto(IF req.type = "set" THEN "enter" ELSE "discard")
               /\ UNCHANGED <<req, res>>

\* No block holds the item: a new key for set, KV_ERR_NOT_EXIST for the
\* others, KV_ERR_POS_FIX_FAILED for kv_item_fix.
WalkNone ==
  /\ pc \in {"find", "fix"}
  /\ at.blk > NBlk
  /\ IF pc = "find" /\ req.type = "set"
     THEN Goto("enter") /\ at' = Start /\ UNCHANGED callVars
     ELSE Return(IF pc = "fix" THEN "fixFailed" ELSE "absent", Absent)
  /\ UNCHANGED <<flashVars, ramVars, gc>>

----------------------------------------------------------------------------
(* kv_item_save: kv_blk_search_suitable, kv_item_fix, kv_item_do_save *)

Enter ==
  /\ pc = "enter"
  /\ ~NoWriteable(idx) /\ ws # KV_BLK_INVALID
  /\ Goto("search")
  /\ UNCHANGED <<flashVars, ramVars, callVars, at, gc>>

EnterRefused ==
  /\ pc = "enter"
  /\ NoWriteable(idx) \/ ws = KV_BLK_INVALID
  /\ Return("full", Absent)
  /\ UNCHANGED <<flashVars, ramVars, gc>>

Size == ItemSize(req.val)
NextFresh == NextOnRing(idx.fresh, ws)
Roomy == {b \in idx.inuse : idx.free[b] >= Size}

\* kv_item_is_moved: the item is no longer at the position it was found at.
CurMoved == cur # NoItem /\ cur.ent \notin ItemsAt(CurPos)

\* kv_blk_search_suitable returns the workspace.
Chosen == Goto(IF CurMoved THEN "fix" ELSE "save") /\ UNCHANGED <<callVars, at>>

\* It returns KV_BLK_INVALID and the set fails.
Refused == Return("full", Absent)

\* Neither the workspace nor a block in use has room.
NoRoom == /\ pc = "search" /\ ws \in Blk
          /\ idx.free[ws] < Size
          /\ NextOnRing(Roomy, ws) = {}

SearchWorkspace ==
  /\ pc = "search" /\ ws \in Blk
  /\ idx.free[ws] >= Size
  /\ Chosen
  /\ UNCHANGED <<flashVars, ramVars, gc>>

SearchInuse ==
  /\ pc = "search" /\ ws \in Blk
  /\ idx.free[ws] < Size
  /\ ws' \in NextOnRing(Roomy, ws)
  /\ Chosen
  /\ UNCHANGED <<flashVars, idx, gc>>

\* Mutant of SearchFull: the error is lost on the way to the caller.
SearchFullSilent ==
  /\ NoRoom
  /\ idx.numFresh < 1
  /\ Return("ok", Absent)
  /\ UNCHANGED <<flashVars, ramVars, gc>>

SearchFull ==
  /\ NoRoom
  /\ idx.numFresh < 1
  /\ Refused
  /\ UNCHANGED <<flashVars, ramVars, gc>>

\* A fresh block is given out: there are several, or gc has nothing to do.
\* If the only fresh block is the workspace itself there is none to give and
\* the workspace is lost until the next ln_kv_init.
SearchFresh ==
  /\ NoRoom
  /\ \/ idx.numFresh > 1
     \/ idx.numFresh = 1 /\ (idx.dirty = {} \/ NextFresh = {})
  /\ IF NextFresh = {}
     THEN ws' = KV_BLK_INVALID /\ Refused
     ELSE ws' \in NextFresh /\ Chosen
  /\ UNCHANGED <<flashVars, idx, gc>>

\* Mutant of SearchGc: a block is collected whether it is dirty or not.
SearchGcAny ==
  /\ NoRoom
  /\ idx.numFresh = 1
  /\ \E src \in Firsts(Blk \ idx.fresh), dst \in NextFresh :
       CallGc(src, dst, "gcSrc", "search")
  /\ UNCHANGED <<flashVars, ramVars, callVars, at>>

\* kv_gc: the first dirty block is collected into the last fresh one.
SearchGc ==
  /\ NoRoom
  /\ idx.numFresh = 1
  /\ \E src \in Firsts(idx.dirty), dst \in NextFresh :
       CallGc(src, dst, "gcSrc", "search")
  /\ UNCHANGED <<flashVars, ramVars, callVars, at>>

FixSkip == WalkSkip("fix")

FixMiss == WalkMiss("fix", SameItem)

FixHit ==
  /\ pc = "fix"
  /\ at.blk \in Blk \ idx.fresh
  /\ \E i \in Matches(at.blk, SameItem) :
       /\ WalkHit(i)
       /\ cur' = [blk |-> at.blk,
                  ent |-> [cur.ent EXCEPT !.off = items[at.blk][i].off]]
       /\ at' = Start
       /\ Goto("save")
       /\ UNCHANGED <<req, res>>

\* Mutant of SavedItem: prev_pos is not set.
SavedItemUnlinked == NewItem(Cap - idx.free[ws], req.key, req.val, NoPos)

\* The item ln_kv_set appends at KV_BLK_USABLE_ADDR of the workspace.
SavedItem == NewItem(Cap - idx.free[ws], req.key, req.val, CurPos)

Saved(ix) ==
  IF ws \in ix.fresh THEN LeaveFresh(ix, ws)
  ELSE IF IsFull(ix, ws) THEN ResetInuse(ix, ws)
  ELSE ix

Save ==
  /\ pc = "save"
  /\ items' = Append1(ws, SavedItem)
  /\ idx' = Saved(ReduceFree(idx, ws, Size))
  /\ IF cur = NoItem
     THEN Return("ok", Absent)
     ELSE Goto("discard") /\ UNCHANGED <<callVars, at>>
  /\ UNCHANGED <<tagVars, ws, gc>>

\* kv_item_delete: the last step of an update and of ln_kv_del.
Discard ==
  /\ pc = "discard"
  /\ items' = Discarded(CurPos)
  /\ idx' = SetDirty(idx, cur.blk)
  /\ Return("ok", Absent)
  /\ UNCHANGED <<tagVars, ws, gc>>

----------------------------------------------------------------------------
(* Power loss and ln_kv_deinit *)

\* The logs a power loss may leave: the item being written may be torn.
TornLogs ==
  {items}
  \cup IF pc = "save" THEN {Append1(ws, t) : t \in Torn(SavedItem)}
  ELSE IF pc = "gcCopy"
       THEN {Append1(gc.dst, t) : t \in UNION
              {Torn(GcCopyOf(items[gc.src][i])) :
                 i \in {j \in DOMAIN items[gc.src] : j = gc.i /\ items[gc.src][j].live}}}
  ELSE {}

Halt ==
  /\ idx' = ZeroIndex /\ ws' = 0
  /\ req' = NoRequest /\ res' = NoResult
  /\ at' = Start /\ cur' = NoItem /\ gc' = NoGc
  /\ Goto("down")

\* The two places where ln_kv_init does not recognise an interrupted gc: the
\* source is erased and the destination not yet tagged gc_done, or copies go
\* to a destination that still has the gc_done tag of an earlier gc.
GcInDoubt ==
  \/ pc \in {"gcMagic", "gcDone"}
  \/ pc = "gcCopy" /\ gc.dst \in gcDone

PowerLoss ==
  /\ pc # "down"
  /\ GcInDoubt => AnyLoss
  /\ items' \in TornLogs
  /\ Halt
  /\ UNCHANGED tagVars

Deinit ==
  /\ pc = "idle"
  /\ Halt
  /\ UNCHANGED flashVars

----------------------------------------------------------------------------
Boot ==
  \/ PowerUp
  \/ ScanFormat \/ ScanSkip \/ ScanItem \/ ScanEnd
  \/ StatusError \/ NothingToRedo \/ RedoOnFresh \/ RedoOnDst
  \/ DstErase \/ DstMagic
  \/ LocateGc \/ Locate

Gc ==
  \/ GcMarkSrc \/ GcMarkDst \/ GcCopy \/ GcErase \/ GcMagic \/ GcMarkDone

Serve ==
  \/ FindSkip \/ FindMiss \/ FindHit \/ WalkNone
  \/ Enter \/ EnterRefused
  \/ SearchWorkspace \/ SearchInuse \/ SearchFull \/ SearchFresh
  \/ SearchGc
  \/ FixSkip \/ FixMiss \/ FixHit
  \/ Save \/ Discard

Next ==
  \/ Boot
  \/ Gc
  \/ Serve
  \/ \E r \in Requests : Call(r)
  \/ PowerLoss
  \/ Deinit

Spec == Init /\ [][Next]_vars

----------------------------------------------------------------------------
(* Properties *)

Pcs == {"down"} \cup BootPcs \cup GcPcs \cup OpPcs

\* Every variable keeps its type through every path of the code: in
\* particular no offset leaves a block, no free size wraps below zero, and no
\* counter is decremented at zero (they are unsigned in the code).
TypeOK ==
  /\ magic \subseteq Blk
  /\ gcSrc \subseteq Blk /\ gcDst \subseteq Blk /\ gcDone \subseteq Blk
  /\ items \in [Blk -> Seq(Entry)]
  /\ idx \in Index
  /\ ws \in Blk \cup {0, KV_BLK_INVALID}
  /\ pc \in Pcs
  /\ req \in Requests \cup {NoRequest}
  /\ at \in [blk : 1 .. NBlk + 1, i : Nat \ {0}]
  /\ cur \in [blk : Blk, ent : Entry] \cup {NoItem}
  /\ gc \in [src : Blk, dst : Blk, i : Nat \ {0},
             ret : {"search", "locate", "relocate"}] \cup {NoGc}

\* The live copies of key k in the blocks of S, as <<block, item number>>.
Copies(S, k) ==
  UNION {{<<b, i>> : i \in {j \in DOMAIN items[b] :
                             items[b][j].live /\ items[b][j].key = k}} : b \in S}

Before(c, d) == c[1] < d[1] \/ (c[1] = d[1] /\ c[2] < d[2])

FirstVal(C) ==
  IF C = {} THEN Absent
  ELSE LET c == CHOOSE x \in C : \A y \in C : x = y \/ Before(x, y)
       IN  items[c[1]][c[2]].val

\* What a running store holds for k: the item kv_item_find returns, the old
\* one while an update still has to discard it.
RunningVal(k) ==
  IF pc = "discard" /\ req.type = "set" /\ req.key = k
  THEN cur.ent.val
  ELSE FirstVal(Copies(Blk, k))

\* What ln_kv_init will make of the flash: the destination of an unfinished
\* gc is formatted, items with a bad checksum are discarded, and an item
\* discards the one it supersedes.
BootBlks == IF gcSrc = {} THEN Blk ELSE Blk \ PendingDst

RecoveredVal(k) ==
  LET C == {c \in Copies(BootBlks, k) : items[c[1]][c[2]].ok}
      Kills(c, d) == /\ c[1] \notin gcSrc \cup DstNotDone
                     /\ items[c[1]][c[2]].prev = <<d[1], items[d[1]][d[2]].off>>
                     /\ c # d
  IN  FirstVal({c \in C : \A d \in C :
                  Kills(d, c) => (Kills(c, d) /\ Before(c, d))})

StoreView == [k \in Keys |-> IF Up THEN RunningVal(k) ELSE RecoveredVal(k)]

abstract == INSTANCE KvStore
              WITH store <- StoreView, up <- Up

\* The store is a durable map, through gc, torn writes and power loss: a
\* request takes effect at once or not at all, a power loss leaves every key
\* as it was except that of the pending request, which is old or new, and
\* gets return what is stored.
DurableMap == abstract!Spec

\* The index agrees with the flash: the free size of a block that can be
\* written to is what its log leaves over, so that the next item lands on
\* erased flash right behind the last one; a fresh block is blank.
IndexAgrees ==
  /\ \A b \in idx.fresh \cup idx.inuse : idx.free[b] = Cap - LogEnd(b)
  /\ \A b \in idx.fresh : items[b] # <<>> => gc.dst = b
  /\ idx.fresh \cap (idx.inuse \cup idx.dirty) = {}

\* The log of a block is gapless and stays inside the block.
GoodLog(log) ==
  /\ EndOf(log) <= Cap
  /\ \A i \in DOMAIN log :
       log[i].off = IF i = 1 THEN 0 ELSE log[i - 1].off + log[i - 1].size

LogsContiguous == \A b \in Blk : GoodLog(items[b])

\* kv_blk_search_suitable decides by the counters alone whether to give out a
\* fresh block, to collect, or to give up: num_fresh counts the fresh flags,
\* and num_inuse is never below the number of blocks in use, so that a store
\* with a writeable block is never declared full.
CountersSound ==
  /\ idx.numFresh = Cardinality(idx.fresh)
  /\ idx.numInuse >= Cardinality(idx.inuse)

\* Between calls a key has at most one live item, and it is intact: no get
\* can return a torn value, and a delete cannot uncover an older one.
OneIntactCopy ==
  pc = "idle" => \A k \in Keys :
    /\ Cardinality(Copies(Blk, k)) <= 1
    /\ \A c \in Copies(Blk, k) : items[c[1]][c[2]].ok

\* A block is erased only when every live, intact item in it has a copy in
\* another block.
EraseKeepsData ==
  [][\A b \in Blk : (items[b] # <<>> /\ items'[b] = <<>>) =>
       \A i \in DOMAIN items[b] : items[b][i].live /\ items[b][i].ok =>
         \E c \in Blk \ {b} : \E j \in DOMAIN items[c] :
           /\ items[c][j].live /\ items[c][j].ok
           /\ items[c][j].key = items[b][i].key
           /\ items[c][j].val = items[b][i].val]_vars

\* "we should fix all incomplete gc when kv bootup": a running store between
\* calls has no gc tag left over from an unfinished gc.
IncompleteGcFixed == pc = "idle" => gcSrc = {} /\ DstNotDone = {}

----------------------------------------------------------------------------
(* The inductive invariant behind TypeOK, IndexAgrees, LogsContiguous and   *)
(* CountersSound                                                            *)

\* The blocks whose header is written, and the tags in it.
Formatted ==
  /\ gcSrc \cup gcDst \cup gcDone \subseteq magic
  /\ pc = "scan" => at.blk \in Blk /\ \A b \in Blk : b < at.blk => b \in magic
  /\ pc \notin {"down", "scan"} =>
       \A b \in Blk \ magic :
         \/ pc = "dstMagic" /\ b = gc.dst
         \/ pc = "gcMagic" /\ b = gc.src

\* ln_kv_init leaves the blocks of an unfinished gc out of the index.
BootState ==
  pc \in {"scan", "incomplete"} =>
    (gcSrc \cup DstNotDone) \cap (idx.fresh \cup idx.inuse) = {}

RedoPcs == {"dstErase", "dstMagic"}

\* The blocks of a running gc: what has been copied is not longer than what
\* has been read.
GcState ==
  /\ gc = NoGc <=> pc \notin GcPcs \cup RedoPcs
  /\ gc # NoGc => gc.src # gc.dst
  /\ pc \in GcPcs => gc.dst \in idx.fresh
  /\ pc \in RedoPcs => gc.dst \notin idx.fresh \cup idx.inuse /\ gc.ret = "locate"
  /\ pc \in RedoPcs \cup {"gcSrc", "gcDst", "gcCopy"} => gc.src \notin idx.fresh
  /\ pc \in RedoPcs \cup {"gcSrc", "gcDst"} => gc.i = 1
  /\ pc \in {"dstMagic", "gcSrc", "gcDst"} => items[gc.dst] = <<>>
  /\ pc = "gcCopy" =>
       \/ gc.i <= Len(items[gc.src]) /\ LogEnd(gc.dst) <= items[gc.src][gc.i].off
       \/ gc.i = Len(items[gc.src]) + 1 /\ LogEnd(gc.dst) <= LogEnd(gc.src)
  /\ pc = "gcMagic" => items[gc.src] = <<>>

\* What a call has established when it gets to write.
CallState ==
  /\ pc \in {"enter", "search", "fix", "save"} => req.type = "set"
  /\ pc \in GcPcs /\ gc.ret = "search" => req.type = "set"
  /\ pc \in {"fix", "save"} => /\ ws \in idx.fresh \cup idx.inuse
                              /\ idx.free[ws] >= Size
  /\ pc \in {"fix", "discard"} => cur # NoItem
  /\ pc \in {"save", "discard"} /\ cur # NoItem => ItemsAt(CurPos) # {}

\* A block that is neither fresh nor in use never looks roomy.
Exhausted ==
  \A b \in Blk \ (idx.fresh \cup idx.inuse) :
    idx.free[b] <= Hdr \/ (pc = "gcMagic" /\ b = gc.src)

\* What the code keeps true at every step, any power loss included: the RAM
\* index, the logs and the counters agree, and gc and calls only reach a
\* write with the blocks and sizes it needs.
IndexInv ==
  /\ TypeOK /\ IndexAgrees /\ LogsContiguous /\ CountersSound
  /\ Formatted /\ BootState /\ GcState /\ CallState /\ Exhausted

----------------------------------------------------------------------------
FairSpec == Spec /\ WF_vars(Boot \/ Gc \/ Serve)

\* Unless the power keeps failing, ln_kv_init finishes and every call
\* returns: neither gc nor the search for a block runs forever.
Responsive ==
  <>[][~PowerLoss]_vars => []<>(pc = "idle")

=============================================================================
