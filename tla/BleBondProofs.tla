--------------------------- MODULE BleBondProofs ---------------------------
(***************************************************************************)
(* Proofs about the bonds: whatever number of slots, peers and             *)
(* connections there is, the ranks stay in order, a peer has one slot,     *)
(* there is always a slot for a new device, and list and peers agree on    *)
(* their keys.                                                             *)
(***************************************************************************)
EXTENDS BleBond, FiniteSetTheorems, WellFoundedInduction, TLAPS

\* A pair list in good order.
GoodList(a, m) ==
  /\ a \in [Slot -> Peer \cup {NoAddr}]
  /\ m \in [Slot -> 0 .. MaxBonds]
  /\ Ranking(m)
  /\ OneSlot(a, m)

\* The inductive invariant: both lists are in good order, and a pairing that has
\* exchanged its key belongs to a peer.
BondInv ==
  /\ GoodList(addr, mru)
  /\ GoodList(stored.addr, stored.mru)
  /\ peer \in [Conn -> Peer \cup {NoAddr}]
  /\ keyed \in [Conn -> BOOLEAN]
  /\ \A c \in Conn : keyed[c] => peer[c] # NoAddr

\* The first slot of a set is in the set.
LEMMA FirstIn ==
  ASSUME NEW S \in SUBSET Slot, S # {}
  PROVE  First(S) \in S
<1>1. Slot \subseteq Nat
  BY BondAssumption DEF Slot
<1>2. \E x \in S : \A y \in S : ~(<<y, x>> \in OpToRel(<, Nat))
  <2>1. S \subseteq Nat
    BY <1>1
  <2> QED
    BY <2>1, NatLessThanWellFounded, WFMin
<1>3. \A x, y \in Nat : x < y => <<x, y>> \in OpToRel(<, Nat)
  BY DEF OpToRel
<1>4. \E x \in S : \A y \in S : ~(y < x)
  BY <1>1, <1>2, <1>3
<1>5. \E x \in S : \A y \in S : x <= y
  BY <1>1, <1>4
<1> QED
  BY <1>5 DEF First

\* Some slot is free or has the last rank: the ranks of Slot do not fit into one
\* rank less.
LEMMA RoomExists ==
  ASSUME GoodList(addr, mru)
  PROVE  Room # {}
<1>1. SUFFICES ASSUME Room = {} PROVE FALSE
  OBVIOUS
<1>2. mru \in [Slot -> 1 .. MaxBonds - 1]
  BY <1>1, BondAssumption DEF GoodList, Room, Slot
<1>3. /\ IsFiniteSet(Slot) /\ Cardinality(Slot) = MaxBonds
      /\ IsFiniteSet(1 .. MaxBonds - 1) /\ Cardinality(1 .. MaxBonds - 1) = MaxBonds - 1
  BY FS_Interval, BondAssumption DEF Slot
<1>4. Cardinality(1 .. MaxBonds - 1) < Cardinality(Slot)
  BY <1>3, BondAssumption
<1>5. \E i, j \in Slot : i # j /\ mru[i] = mru[j]
  BY <1>2, <1>3, <1>4, FS_PigeonHole
<1> QED
  BY <1>2, <1>5, BondAssumption DEF GoodList, Ranking

\* As long as a slot is free no device has the last rank.
LEMMA FreeMeansNotLast ==
  ASSUME GoodList(addr, mru), NEW f \in Slot, mru[f] = 0, NEW i \in Slot
  PROVE  mru[i] # MaxBonds
<1>1. SUFFICES ASSUME mru[i] = MaxBonds PROVE FALSE
  OBVIOUS
<1>2. \A k \in 1 .. MaxBonds : \E j \in Slot : mru[j] = k
  BY <1>1 DEF GoodList, Ranking
<1> DEFINE g == [k \in 1 .. MaxBonds |-> CHOOSE j \in Slot : mru[j] = k]
<1>3. \A k \in 1 .. MaxBonds : g[k] \in Slot /\ mru[g[k]] = k
  BY <1>2
<1>4. g \in [1 .. MaxBonds -> Slot \ {f}]
  BY <1>3, BondAssumption
<1>5. /\ IsFiniteSet(Slot) /\ Cardinality(Slot) = MaxBonds
  BY FS_Interval, BondAssumption DEF Slot
<1>6. /\ IsFiniteSet(Slot \ {f}) /\ Cardinality(Slot \ {f}) = MaxBonds - 1
  BY <1>5, FS_RemoveElement
<1>7. Cardinality(Slot \ {f}) < Cardinality(Slot)
  BY <1>5, <1>6, BondAssumption
<1>8. g \in [Slot -> Slot \ {f}]
  BY <1>4 DEF Slot
<1> HIDE DEF g
<1>9. \E x, y \in Slot : x # y /\ g[x] = g[y]
  BY <1>5, <1>6, <1>7, <1>8, FS_PigeonHole
<1> QED
  BY <1>3, <1>9 DEF Slot

\* A device that is not in the list has no slot at all, and gets one that is free
\* or has the last rank; every other device has an earlier rank.
LEMMA NewSlotFacts ==
  ASSUME GoodList(addr, mru), NEW a \in Peer, ~Exists(a)
  PROVE  /\ OfAddr(a) = {}
         /\ NewSlot(a) \in Slot
         /\ mru[NewSlot(a)] \in {0, MaxBonds}
         /\ \A i \in Slot : i # NewSlot(a) => mru[i] # MaxBonds
<1>1. OfAddr(a) = {}
  BY BondAssumption DEF GoodList, OneSlot, OfAddr, Exists
<1>2. NewSlot(a) \in Room
  <2>1. NewSlot(a) = First(Room)
    BY <1>1 DEF NewSlot
  <2> QED
    BY <2>1, RoomExists, FirstIn DEF Room
<1>3. ASSUME NEW i \in Slot, i # NewSlot(a), mru[i] = MaxBonds PROVE FALSE
  <2>1. CASE mru[NewSlot(a)] = 0
    BY <1>2, <1>3, <2>1, FreeMeansNotLast DEF Room
  <2>2. CASE mru[NewSlot(a)] = MaxBonds
    BY <1>2, <1>3, <2>2, BondAssumption DEF Room, GoodList, Ranking
  <2> QED
    BY <1>2, <2>1, <2>2 DEF Room
<1> QED
  BY <1>1, <1>2, <1>3 DEF Room

\* A device in the list has exactly one slot, the one that a lookup finds.
LEMMA OldSlotFacts ==
  ASSUME GoodList(addr, mru), NEW a \in Peer, OfAddr(a) # {}
  PROVE  /\ First(OfAddr(a)) \in Slot
         /\ addr[First(OfAddr(a))] = a
         /\ mru[First(OfAddr(a))] \in 1 .. MaxBonds
         /\ \A i \in Slot : addr[i] = a => i = First(OfAddr(a))
<1>1. First(OfAddr(a)) \in OfAddr(a)
  BY FirstIn DEF OfAddr
<1>2. addr[First(OfAddr(a))] # NoAddr
  BY <1>1, BondAssumption DEF OfAddr
<1> QED
  BY <1>1, <1>2, BondAssumption DEF OfAddr, GoodList, OneSlot

----------------------------------------------------------------------------

\* The ranks after a new device.
LEMMA AddKeepsRanking ==
  ASSUME mru \in [Slot -> 0 .. MaxBonds], Ranking(mru),
         NEW x \in Slot, mru[x] \in {0, MaxBonds},
         \A i \in Slot : i # x => mru[i] # MaxBonds
  PROVE  MruAdd(x) \in [Slot -> 0 .. MaxBonds] /\ Ranking(MruAdd(x))
<1> DEFINE n == MruAdd(x)
<1>1. n \in [Slot -> 0 .. MaxBonds]
  BY BondAssumption DEF MruAdd
<1>2. n[x] = 1
  BY DEF MruAdd
<1>3. \A i \in Slot \ {x} : n[i] = IF mru[i] = 0 THEN 0 ELSE mru[i] + 1
  BY BondAssumption DEF MruAdd
<1> HIDE DEF n
<1>4. \A i, j \in Slot : n[i] # 0 /\ n[i] = n[j] => i = j
  BY <1>2, <1>3 DEF Ranking
<1>5. ASSUME NEW i \in Slot, NEW k \in 1 .. n[i] PROVE \E j \in Slot : n[j] = k
  <2>1. CASE k = 1
    BY <1>2, <2>1
  <2>2. CASE k # 1
    <3>1. i # x /\ mru[i] # 0 /\ k - 1 \in 1 .. mru[i]
      BY <1>1, <1>2, <1>3, <1>5, <2>2
    <3>2. PICK j \in Slot : mru[j] = k - 1
      BY <3>1 DEF Ranking
    <3>3. j # x
      BY <3>1, <3>2
    <3> QED
      BY <1>3, <3>1, <3>2, <3>3
  <2> QED
    BY <2>1, <2>2
<1> QED
  BY <1>1, <1>4, <1>5 DEF Ranking, n

\* The ranks after a device in the list is used.
LEMMA UpdateKeepsRanking ==
  ASSUME mru \in [Slot -> 0 .. MaxBonds], Ranking(mru),
         NEW x \in Slot, mru[x] > 1
  PROVE  MruUpdate(x) \in [Slot -> 0 .. MaxBonds] /\ Ranking(MruUpdate(x))
<1> DEFINE n == MruUpdate(x)
<1>1. n \in [Slot -> 0 .. MaxBonds]
  BY BondAssumption DEF MruUpdate
<1>2. n[x] = 1
  BY DEF MruUpdate
<1>3. \A i \in Slot \ {x} :
        n[i] = IF mru[i] # 0 /\ mru[i] < mru[x] THEN mru[i] + 1 ELSE mru[i]
  BY DEF MruUpdate
<1> HIDE DEF n
<1>4. \A i, j \in Slot : n[i] # 0 /\ n[i] = n[j] => i = j
  BY <1>2, <1>3 DEF Ranking
<1>5. ASSUME NEW i \in Slot, NEW k \in 1 .. n[i] PROVE \E j \in Slot : n[j] = k
  <2>1. CASE k = 1
    BY <1>2, <2>1
  <2>2. CASE k # 1 /\ k <= mru[x]
    <3>1. PICK j \in Slot : mru[j] = k - 1
      BY <1>1, <1>5, <2>2 DEF Ranking
    <3> QED
      BY <1>1, <1>3, <1>5, <2>2, <3>1
  <2>3. CASE k > mru[x]
    <3>1. i # x /\ k \in 1 .. mru[i]
      BY <1>1, <1>2, <1>3, <1>5, <2>3
    <3>2. PICK j \in Slot : mru[j] = k
      BY <3>1 DEF Ranking
    <3> QED
      BY <1>3, <2>3, <3>1, <3>2
  <2> QED
    BY <1>1, <1>5, <2>1, <2>2, <2>3
<1> QED
  BY <1>1, <1>4, <1>5 DEF Ranking, n

\* The ranks after a device is deleted.
LEMMA DeleteKeepsRanking ==
  ASSUME mru \in [Slot -> 0 .. MaxBonds], Ranking(mru),
         NEW x \in Slot, mru[x] # 0
  PROVE  MruDelete(x) \in [Slot -> 0 .. MaxBonds] /\ Ranking(MruDelete(x))
<1> DEFINE n == MruDelete(x)
<1>1. n \in [Slot -> 0 .. MaxBonds]
  BY BondAssumption DEF MruDelete
<1>2. n[x] = 0
  BY DEF MruDelete
<1>3. \A i \in Slot \ {x} : n[i] = IF mru[i] > mru[x] THEN mru[i] - 1 ELSE mru[i]
  BY DEF MruDelete
<1> HIDE DEF n
<1>4. \A i, j \in Slot : n[i] # 0 /\ n[i] = n[j] => i = j
  <2>1. \A i \in Slot : i # x /\ mru[i] # 0 => mru[i] # mru[x]
    BY DEF Ranking
  <2> QED
    BY <1>2, <1>3, <2>1 DEF Ranking
<1>5. ASSUME NEW i \in Slot, NEW k \in 1 .. n[i] PROVE \E j \in Slot : n[j] = k
  <2>0. i # x
    BY <1>1, <1>2, <1>5
  <2>1. CASE k < mru[x]
    <3>1. k \in 1 .. mru[i]
      BY <1>3, <1>5, <2>0, <2>1
    <3>2. PICK j \in Slot : mru[j] = k
      BY <3>1 DEF Ranking
    <3> QED
      BY <1>3, <2>1, <3>2
  <2>2. CASE k >= mru[x]
    <3>1. mru[i] > mru[x] /\ k + 1 \in 1 .. mru[i]
      BY <1>1, <1>3, <1>5, <2>0, <2>2 DEF Ranking
    <3>2. PICK j \in Slot : mru[j] = k + 1
      BY <3>1 DEF Ranking
    <3> QED
      BY <1>3, <2>2, <3>2
  <2> QED
    BY <1>1, <1>5, <2>1, <2>2
<1> QED
  BY <1>1, <1>4, <1>5 DEF Ranking, n

----------------------------------------------------------------------------

\* A store writes the list as it is in memory, or leaves the old one.
LEMMA StoreKeepsList ==
  ASSUME GoodList(stored.addr, stored.mru), GoodList(addr', mru'), Store
  PROVE  GoodList(addr, mru)' /\ GoodList(stored.addr, stored.mru)'
<1>1. CASE stored' = List'
  <2>1. stored'.addr = addr' /\ stored'.mru = mru'
    BY <1>1 DEF List
  <2> QED
    BY <2>1 DEF GoodList, Ranking, OneSlot
<1>2. CASE UNCHANGED stored
  BY <1>2 DEF GoodList, Ranking, OneSlot
<1> QED
  BY <1>1, <1>2 DEF Store

\* ln_ble_dev_insert keeps both lists in good order, whether or not the store
\* succeeds.
LEMMA InsertKeepsLists ==
  ASSUME GoodList(addr, mru), GoodList(stored.addr, stored.mru),
         NEW a \in Peer, NEW k, Insert(a, k)
  PROVE  GoodList(addr, mru)' /\ GoodList(stored.addr, stored.mru)'
<1>1. CASE Exists(a)
  <2> DEFINE x == First(OfAddr(a))
  <2>1. OfAddr(a) # {}
    BY <1>1 DEF Exists, OfAddr
  <2>2. x \in Slot /\ mru[x] \in 1 .. MaxBonds
    BY <2>1, OldSlotFacts
  <2>3. CASE mru[x] > 1
    <3>1. addr' = addr /\ mru' = MruUpdate(x) /\ Store
      BY <1>1, <2>3 DEF Insert
    <3>2. mru' \in [Slot -> 0 .. MaxBonds] /\ Ranking(mru')
      BY <2>2, <2>3, <3>1, UpdateKeepsRanking DEF GoodList
    <3>3. \A i \in Slot : mru'[i] = 0 <=> mru[i] = 0
      BY <2>2, <3>1 DEF MruUpdate, GoodList
    <3>4. OneSlot(addr', mru')
      BY <3>1, <3>3 DEF OneSlot, GoodList
    <3>5. GoodList(addr', mru')
      BY <3>1, <3>2, <3>4 DEF GoodList
    <3> QED
      BY <3>1, <3>5, StoreKeepsList
  <2>4. CASE ~(mru[x] > 1)
    BY <1>1, <2>4 DEF Insert, GoodList, Ranking, OneSlot
  <2> QED
    BY <2>3, <2>4
<1>2. CASE ~Exists(a)
  <2> DEFINE x == NewSlot(a)
  <2>1. /\ OfAddr(a) = {} /\ x \in Slot /\ mru[x] \in {0, MaxBonds}
        /\ \A i \in Slot : i # x => mru[i] # MaxBonds
    BY <1>2, NewSlotFacts
  <2>2. addr' = [addr EXCEPT ![x] = a] /\ mru' = MruAdd(x) /\ Store
    BY <1>2 DEF Insert
  <2> HIDE DEF x
  <2>3. mru' \in [Slot -> 0 .. MaxBonds] /\ Ranking(mru')
    BY <2>1, <2>2, AddKeepsRanking DEF GoodList
  <2>4. addr' \in [Slot -> Peer \cup {NoAddr}]
    BY <2>1, <2>2 DEF GoodList
  <2>5. \A i \in Slot \ {x} : mru'[i] = 0 <=> mru[i] = 0
    BY <2>1, <2>2, BondAssumption DEF MruAdd, GoodList
  <2>6. mru'[x] = 1
    BY <2>1, <2>2 DEF MruAdd
  <2>7. OneSlot(addr', mru')
    <3>1. \A i \in Slot : addr'[i] = IF i = x THEN a ELSE addr[i]
      BY <2>1, <2>2 DEF GoodList
    <3>2. \A i \in Slot : addr[i] # a
      BY <2>1 DEF OfAddr
    <3> QED
      BY <2>5, <2>6, <3>1, <3>2, BondAssumption DEF OneSlot, GoodList
  <2>8. GoodList(addr', mru')
    BY <2>3, <2>4, <2>7 DEF GoodList
  <2> QED
    BY <2>2, <2>8, StoreKeepsList
<1> QED
  BY <1>1, <1>2

\* ln_ble_dev_delete keeps both lists in good order.
LEMMA DeleteKeepsLists ==
  ASSUME GoodList(addr, mru), GoodList(stored.addr, stored.mru),
         NEW a \in Peer, Delete(a)
  PROVE  GoodList(addr, mru)' /\ GoodList(stored.addr, stored.mru)'
<1> DEFINE x == First(OfAddr(a))
<1>1. OfAddr(a) # {}
  BY DEF Delete, Exists, OfAddr
<1>2. x \in Slot /\ mru[x] \in 1 .. MaxBonds
  BY <1>1, OldSlotFacts
<1>3. addr' = [addr EXCEPT ![x] = NoAddr] /\ mru' = MruDelete(x) /\ Store
  BY DEF Delete
<1> HIDE DEF x
<1>4. mru' \in [Slot -> 0 .. MaxBonds] /\ Ranking(mru')
  BY <1>2, <1>3, DeleteKeepsRanking DEF GoodList
<1>5. mru'[x] = 0 /\ \A i \in Slot \ {x} : mru'[i] = 0 <=> mru[i] = 0
  BY <1>2, <1>3 DEF MruDelete, GoodList
<1>6. \A i \in Slot : addr'[i] = IF i = x THEN NoAddr ELSE addr[i]
  BY <1>2, <1>3 DEF GoodList
<1>7. OneSlot(addr', mru')
  BY <1>5, <1>6 DEF OneSlot, GoodList
<1>8. addr' \in [Slot -> Peer \cup {NoAddr}]
  BY <1>2, <1>3 DEF GoodList
<1>9. GoodList(addr', mru')
  BY <1>4, <1>7, <1>8 DEF GoodList
<1> QED
  BY <1>3, <1>9, StoreKeepsList

\* An empty list is in good order.
LEMMA EmptyIsGood == GoodList(Empty.addr, Empty.mru)
  BY BondAssumption DEF GoodList, Empty, Ranking, OneSlot

\* The invariant holds at the start and is kept by every step.
LEMMA BondInductive ==
  /\ Init => BondInv
  /\ BondInv /\ [Next]_bondVars => BondInv'
<1>1. Init => BondInv
  BY EmptyIsGood DEF Init, ConInit, BondInv
<1>2. ASSUME BondInv, [Next]_bondVars PROVE BondInv'
  <2> USE <1>2 DEF BondInv
  <2>1. ASSUME NEW c \in Conn, NEW p \in Peer, Connect(c, p) PROVE BondInv'
    <3>1. GoodList(addr, mru)' /\ GoodList(stored.addr, stored.mru)'
      <4>1. CASE Known(p)
        BY <2>1, <4>1, InsertKeepsLists DEF Connect
      <4>2. CASE ~Known(p)
        BY <2>1, <4>2 DEF Connect, pairList, GoodList, Ranking, OneSlot
      <4> QED
        BY <4>1, <4>2
    <3>2. peer' \in [Conn -> Peer \cup {NoAddr}] /\ keyed' = keyed
      BY <2>1 DEF Connect
    <3>3. \A d \in Conn : keyed'[d] => peer'[d] # NoAddr
      BY <2>1, BondAssumption DEF Connect
    <3> QED
      BY <3>1, <3>2, <3>3
  <2>2. ASSUME NEW c \in Conn, Disconnect(c) PROVE BondInv'
    BY <2>2 DEF Disconnect, pairList, GoodList, Ranking, OneSlot
  <2>3. ASSUME NEW c \in Conn, LtkExch(c) PROVE BondInv'
    BY <2>3 DEF LtkExch, pairList, GoodList, Ranking, OneSlot
  <2>4. ASSUME NEW c \in Conn, PairingSucceed(c) PROVE BondInv'
    <3>1. peer[c] \in Peer
      BY <2>4 DEF PairingSucceed
    <3>2. GoodList(addr, mru)' /\ GoodList(stored.addr, stored.mru)'
      BY <2>4, <3>1, InsertKeepsLists DEF PairingSucceed
    <3> QED
      BY <2>4, <3>2 DEF PairingSucceed
  <2>5. ASSUME NEW c \in Conn, PairingFailed(c) PROVE BondInv'
    BY <2>5 DEF PairingFailed, pairList, GoodList, Ranking, OneSlot
  <2>6. ASSUME NEW p \in Peer, Delete(p) PROVE BondInv'
    <3>1. GoodList(addr, mru)' /\ GoodList(stored.addr, stored.mru)'
      BY <2>6, DeleteKeepsLists
    <3> QED
      BY <2>6, <3>1 DEF Delete, conVars
  <2>7. ASSUME NEW p \in Peer, PeerForgets(p) PROVE BondInv'
    BY <2>7 DEF PeerForgets, pairList, conVars, GoodList, Ranking, OneSlot
  <2>8. CASE FactoryReset
    BY <2>8, EmptyIsGood DEF FactoryReset, conVars, GoodList, Ranking, OneSlot
  <2>9. CASE FactoryDelete
    BY <2>9, EmptyIsGood DEF FactoryDelete, pairList, conVars, GoodList, Ranking, OneSlot
  <2>10. CASE Reboot
    BY <2>10 DEF Reboot, GoodList, Ranking, OneSlot
  <2>11. CASE UNCHANGED bondVars
    BY <2>11 DEF bondVars, pairList, conVars, GoodList, Ranking, OneSlot
  <2> QED
    BY <2>1, <2>2, <2>3, <2>4, <2>5, <2>6, <2>7, <2>8, <2>9, <2>10, <2>11 DEF Next
<1> QED
  BY <1>1, <1>2

\* The ranks of the pair list are in order, in memory and in the store, for any
\* number of slots, peers and connections, and although stores may fail.
THEOREM BondMruRanked == Spec => []MruRanked
<1>1. BondInv => MruRanked
  BY DEF BondInv, GoodList, MruRanked
<1> QED
  BY <1>1, BondInductive, PTL DEF Spec

\* A peer has at most one slot, and every slot with an address is in use.
THEOREM BondOneSlotPerPeer == Spec => []OneSlotPerPeer
<1>1. BondInv => OneSlotPerPeer
  BY DEF BondInv, GoodList, OneSlotPerPeer
<1> QED
  BY <1>1, BondInductive, PTL DEF Spec

\* ln_ble_dev_insert always finds a slot for a new device, and never writes at
\* index 255.
THEOREM BondSlotForNewDevice == Spec => []SlotForNewDevice
<1>1. BondInv => SlotForNewDevice
  BY RoomExists DEF BondInv, SlotForNewDevice
<1> QED
  BY <1>1, BondInductive, PTL DEF Spec

\* Only the device that was not used for the longest time is given up, and only
\* when every slot is in use.
THEOREM BondInsertDropsTheLast == Spec => InsertDropsTheLast
<1> DEFINE Kept(c, p, q) ==
      /\ Connect(c, q) => ~Dropped(p)
      /\ (PairingSucceed(c) /\ peer[c] = q /\ Dropped(p)) =>
           /\ \A i \in Slot : mru[i] # 0
           /\ mru[First(OfAddr(p))] = MaxBonds
<1>1. ASSUME BondInv, NEW a \in Peer, NEW k, Insert(a, k), Exists(a), NEW p \in Peer
      PROVE  ~Dropped(p)
  <2>1. First(OfAddr(a)) \in Slot
    BY <1>1, OldSlotFacts DEF BondInv, Exists, OfAddr
  <2>2. addr' = addr /\ \A i \in Slot : mru[i] # 0 => mru'[i] # 0
    BY <1>1, <2>1 DEF Insert, MruUpdate, BondInv, GoodList
  <2> QED
    BY <2>2 DEF Dropped, Exists
<1>2. ASSUME BondInv, NEW a \in Peer, NEW k, Insert(a, k), ~Exists(a), NEW p \in Peer, Dropped(p)
      PROVE  /\ \A i \in Slot : mru[i] # 0
             /\ mru[First(OfAddr(p))] = MaxBonds
  <2> DEFINE x == NewSlot(a)
             y == First(OfAddr(p))
  <2>1. /\ x \in Slot /\ mru[x] \in {0, MaxBonds}
        /\ \A i \in Slot : i # x => mru[i] # MaxBonds
    BY <1>2, NewSlotFacts DEF BondInv
  <2>2. OfAddr(p) # {}
    BY <1>2 DEF Dropped, Exists, OfAddr
  <2>3. y \in Slot /\ addr[y] = p /\ mru[y] \in 1 .. MaxBonds
    BY <1>2, <2>2, OldSlotFacts DEF BondInv
  <2>4. addr' = [addr EXCEPT ![x] = a] /\ mru' = MruAdd(x)
    BY <1>2 DEF Insert
  <2> HIDE DEF x, y
  <2>5. y = x
    <3>1. SUFFICES ASSUME y # x PROVE FALSE
      OBVIOUS
    <3>2. addr'[y] = p
      BY <2>1, <2>3, <2>4, <3>1 DEF BondInv, GoodList
    <3>3. mru'[y] # 0
      BY <1>2, <2>1, <2>3, <2>4, <3>1, BondAssumption DEF MruAdd, BondInv, GoodList
    <3> QED
      BY <1>2, <2>3, <3>2, <3>3 DEF Dropped, Exists
  <2>6. mru[y] = MaxBonds
    BY <2>1, <2>3, <2>5
  <2>7. \A i \in Slot : mru[i] # 0
    BY <1>2, <2>3, <2>6, FreeMeansNotLast DEF BondInv
  <2> QED
    BY <2>6, <2>7 DEF y
<1>3. ASSUME BondInv, NEW c \in Conn, NEW p \in Peer, NEW q \in Peer
      PROVE  Kept(c, p, q)
  <2>1. ASSUME Connect(c, q) PROVE ~Dropped(p)
    <3>1. CASE Known(q)
      <4>1. Exists(q)
        BY <1>3, <3>1, OldSlotFacts DEF BondInv, Known, Exists
      <4> QED
        BY <1>1, <1>3, <2>1, <3>1, <4>1 DEF Connect
    <3>2. CASE ~Known(q)
      BY <2>1, <3>2 DEF Connect, pairList, Dropped, Exists
    <3> QED
      BY <3>1, <3>2
  <2>2. ASSUME PairingSucceed(c), peer[c] = q, Dropped(p)
        PROVE  /\ \A i \in Slot : mru[i] # 0
               /\ mru[First(OfAddr(p))] = MaxBonds
    <3>1. Insert(q, con_ltk[c])
      BY <2>2 DEF PairingSucceed
    <3> QED
      BY <1>1, <1>2, <1>3, <2>2, <3>1
  <2> QED
    BY <2>1, <2>2
<1>4. BondInv => [\A c \in Conn, p, q \in Peer : Kept(c, p, q)]_bondVars
  BY <1>3
<1> QED
  BY <1>4, BondInductive, PTL DEF Spec, InsertDropsTheLast

----------------------------------------------------------------------------
(* The keys of list and peers *)

\* A list with the addresses a and the keys k has, for the peers whose pairing was
\* entered and stored, the key that the peer remembers, if it remembers any.
AgreeOn(a, k) ==
  \A i \in Slot, p \in agreed : a[i] = p /\ peerKey[p] # NoKey => k[i] = peerKey[p]

\* The list in memory and the one in the store agree with those peers.
KeyInv ==
  /\ BondInv
  /\ DOMAIN ltk = Slot /\ DOMAIN stored.ltk = Slot
  /\ DOMAIN is_bonded = Conn /\ DOMAIN con_ltk = Conn
  /\ DOMAIN peerKey = Peer /\ agreed \in SUBSET Peer
  /\ AgreeOn(addr, ltk)
  /\ AgreeOn(stored.addr, stored.ltk)

\* A list that agrees can be stored, or the old one be left.
LEMMA StoreKeepsKeys ==
  ASSUME KeyInv, Store, UNCHANGED <<peerKey, agreed>>,
         DOMAIN ltk' = Slot, AgreeOn(addr, ltk)'
  PROVE  DOMAIN stored'.ltk = Slot /\ AgreeOn(stored.addr, stored.ltk)'
<1>1. CASE stored' = List'
  <2>1. stored'.addr = addr' /\ stored'.ltk = ltk'
    BY <1>1 DEF List
  <2> QED
    BY <2>1 DEF AgreeOn
<1>2. CASE UNCHANGED stored
  BY <1>2 DEF KeyInv, AgreeOn
<1> QED
  BY <1>1, <1>2 DEF Store

\* A device in the list that is used moves in the ranks; the list is the same.
LEMMA UseKeepsKeys ==
  ASSUME KeyInv, NEW a \in Peer, NEW k, Insert(a, k), Exists(a)
  PROVE  addr' = addr /\ ltk' = ltk /\ (Store \/ UNCHANGED stored)
BY DEF Insert

\* A device that pairs as a new one enters the list with the key that it remembers
\* itself; when the store fails, it is no longer one of those that agree.
LEMMA PairingKeepsKeys ==
  ASSUME KeyInv, NEW c \in Conn, PairingSucceed(c)
  PROVE  /\ DOMAIN ltk' = Slot /\ DOMAIN stored'.ltk = Slot
         /\ AgreeOn(addr, ltk)' /\ AgreeOn(stored.addr, stored.ltk)'
<1> DEFINE a == peer[c]
           x == NewSlot(a)
<1>1. /\ a \in Peer /\ Insert(a, con_ltk[c])
      /\ peerKey' = [peerKey EXCEPT ![a] = con_ltk[c]]
      /\ agreed' = IF ~Exists(a) /\ stored' = List' THEN agreed \cup {a} ELSE agreed \ {a}
  BY DEF PairingSucceed, KeyInv, BondInv
<1> HIDE DEF a
<1>2. \A p \in Peer : peerKey'[p] = IF p = a THEN con_ltk[c] ELSE peerKey[p]
  BY <1>1 DEF KeyInv
<1>3. CASE Exists(a)
  <2>1. addr' = addr /\ ltk' = ltk /\ (Store \/ UNCHANGED stored)
    BY <1>1, <1>3, UseKeepsKeys
  <2>2. \A p \in agreed' : p \in agreed /\ peerKey'[p] = peerKey[p]
    BY <1>1, <1>2, <1>3 DEF KeyInv
  <2>3. DOMAIN ltk' = Slot /\ AgreeOn(addr, ltk)'
    BY <2>1, <2>2 DEF KeyInv, AgreeOn
  <2>4. CASE stored' = List'
    <3>1. stored'.addr = addr' /\ stored'.ltk = ltk'
      BY <2>4 DEF List
    <3> QED
      BY <2>3, <3>1 DEF AgreeOn
  <2>5. CASE UNCHANGED stored
    BY <2>2, <2>3, <2>5 DEF KeyInv, AgreeOn
  <2> QED
    BY <2>1, <2>4, <2>5 DEF Store
<1>4. CASE ~Exists(a)
  <2>1. x \in Slot /\ OfAddr(a) = {}
    BY <1>1, <1>4, NewSlotFacts DEF KeyInv, BondInv
  <2>2. /\ addr' = [addr EXCEPT ![x] = a] /\ ltk' = [ltk EXCEPT ![x] = con_ltk[c]] /\ Store
    BY <1>1, <1>4 DEF Insert
  <2> HIDE DEF x
  <2>3. DOMAIN ltk' = Slot
    BY <2>2 DEF KeyInv
  <2>4. \A i \in Slot : /\ addr'[i] = IF i = x THEN a ELSE addr[i]
                        /\ ltk'[i] = IF i = x THEN con_ltk[c] ELSE ltk[i]
    BY <2>1, <2>2 DEF KeyInv, BondInv, GoodList
  <2>5. \A i \in Slot : addr[i] # a
    BY <2>1 DEF OfAddr
  <2>6. \A p \in agreed' : p \in Peer /\ (p # a => p \in agreed /\ peerKey'[p] = peerKey[p])
    BY <1>1, <1>2 DEF KeyInv
  <2>7. AgreeOn(addr, ltk)'
    BY <1>1, <1>2, <2>4, <2>5, <2>6 DEF AgreeOn, KeyInv
  <2>8. CASE stored' = List'
    <3>1. stored'.addr = addr' /\ stored'.ltk = ltk'
      BY <2>8 DEF List
    <3> QED
      BY <2>3, <2>7, <3>1 DEF AgreeOn
  <2>9. CASE UNCHANGED stored /\ stored' # List'
    <3>1. \A p \in agreed' : p \in agreed /\ peerKey'[p] = peerKey[p]
      BY <1>1, <2>6, <2>9
    <3> QED
      BY <2>3, <2>7, <2>9, <3>1 DEF KeyInv, AgreeOn
  <2> QED
    BY <2>2, <2>8, <2>9 DEF Store
<1> QED
  BY <1>3, <1>4

\* Every step keeps list, store and those peers in agreement.
LEMMA KeyInductive ==
  /\ Init => KeyInv
  /\ KeyInv /\ [Next]_bondVars => KeyInv'
<1>1. ASSUME Init PROVE KeyInv
  <2>1. DOMAIN ltk = Slot /\ DOMAIN stored.ltk = Slot
    BY <1>1 DEF Init, Empty
  <2> QED
    BY <1>1, <2>1, BondInductive DEF Init, ConInit, KeyInv, AgreeOn
<1>2. ASSUME KeyInv, [Next]_bondVars PROVE KeyInv'
  <2>0. BondInv'
    BY <1>2, BondInductive DEF KeyInv
  <2>1. ASSUME NEW c \in Conn, NEW p \in Peer, Connect(c, p) PROVE KeyInv'
    <3>1. DOMAIN is_bonded' = Conn /\ DOMAIN con_ltk' = Conn /\ UNCHANGED <<peerKey, agreed>>
      BY <1>2, <2>1 DEF Connect, KeyInv
    <3>2. addr' = addr /\ ltk' = ltk /\ (Store \/ UNCHANGED stored)
      <4>1. CASE Known(p)
        <5>1. Exists(p)
          BY <1>2, <4>1, OldSlotFacts DEF KeyInv, BondInv, Known, Exists
        <5> QED
          BY <1>2, <2>1, <4>1, <5>1, UseKeepsKeys DEF Connect
      <4>2. CASE ~Known(p)
        BY <2>1, <4>2 DEF Connect, pairList
      <4> QED
        BY <4>1, <4>2
    <3>3. DOMAIN ltk' = Slot /\ AgreeOn(addr, ltk)'
      BY <1>2, <3>1, <3>2 DEF KeyInv, AgreeOn
    <3>4. DOMAIN stored'.ltk = Slot /\ AgreeOn(stored.addr, stored.ltk)'
      <4>1. CASE Store
        BY <1>2, <3>1, <3>3, <4>1, StoreKeepsKeys
      <4>2. CASE UNCHANGED stored
        BY <1>2, <3>1, <4>2 DEF KeyInv, AgreeOn
      <4> QED
        BY <3>2, <4>1, <4>2
    <3> QED
      BY <1>2, <2>0, <3>1, <3>3, <3>4 DEF KeyInv
  <2>2. ASSUME NEW c \in Conn, Disconnect(c) PROVE KeyInv'
    BY <1>2, <2>0, <2>2 DEF Disconnect, pairList, KeyInv, AgreeOn
  <2>3. ASSUME NEW c \in Conn, LtkExch(c) PROVE KeyInv'
    BY <1>2, <2>0, <2>3 DEF LtkExch, pairList, KeyInv, AgreeOn
  <2>4. ASSUME NEW c \in Conn, PairingSucceed(c) PROVE KeyInv'
    <3>1. /\ DOMAIN ltk' = Slot /\ DOMAIN stored'.ltk = Slot
          /\ AgreeOn(addr, ltk)' /\ AgreeOn(stored.addr, stored.ltk)'
      BY <1>2, <2>4, PairingKeepsKeys
    <3>2. /\ con_ltk' = con_ltk /\ DOMAIN is_bonded' = Conn /\ DOMAIN peerKey' = Peer
      BY <1>2, <2>4 DEF PairingSucceed, KeyInv
    <3>3. agreed' \in SUBSET Peer
      <4>1. peer[c] \in Peer
        BY <1>2, <2>4 DEF PairingSucceed, KeyInv, BondInv
      <4>2. agreed' \subseteq agreed \cup {peer[c]}
        BY <2>4 DEF PairingSucceed
      <4> QED
        BY <1>2, <4>1, <4>2 DEF KeyInv
    <3> QED
      BY <1>2, <2>0, <3>1, <3>2, <3>3 DEF KeyInv
  <2>5. ASSUME NEW c \in Conn, PairingFailed(c) PROVE KeyInv'
    BY <1>2, <2>0, <2>5 DEF PairingFailed, pairList, KeyInv, AgreeOn
  <2>6. ASSUME NEW a \in Peer, Delete(a) PROVE KeyInv'
    <3> DEFINE x == First(OfAddr(a))
    <3>1. x \in Slot
      BY <1>2, <2>6, OldSlotFacts DEF KeyInv, BondInv, Delete, Exists, OfAddr
    <3>2. /\ addr' = [addr EXCEPT ![x] = NoAddr] /\ ltk' = [ltk EXCEPT ![x] = NoKey]
          /\ Store /\ UNCHANGED <<conVars, peerKey, agreed>>
      BY <2>6 DEF Delete
    <3> HIDE DEF x
    <3>3. /\ \A i \in Slot : addr'[i] = IF i = x THEN NoAddr ELSE addr[i]
          /\ \A i \in Slot : i # x => ltk'[i] = ltk[i]
          /\ DOMAIN ltk' = Slot
      BY <1>2, <3>1, <3>2 DEF KeyInv, BondInv, GoodList
    <3>4. AgreeOn(addr, ltk)'
      BY <1>2, <3>2, <3>3, BondAssumption DEF KeyInv, AgreeOn
    <3>5. DOMAIN stored'.ltk = Slot /\ AgreeOn(stored.addr, stored.ltk)'
      BY <1>2, <3>2, <3>3, <3>4, StoreKeepsKeys
    <3> QED
      BY <1>2, <2>0, <3>2, <3>3, <3>4, <3>5 DEF KeyInv, conVars
  <2>7. ASSUME NEW p \in Peer, PeerForgets(p) PROVE KeyInv'
    <3>1. \A q \in Peer : peerKey'[q] # NoKey => peerKey'[q] = peerKey[q]
      BY <1>2, <2>7 DEF PeerForgets, KeyInv
    <3> QED
      BY <1>2, <2>0, <2>7, <3>1 DEF PeerForgets, pairList, conVars, KeyInv, AgreeOn
  <2>8. CASE FactoryReset
    <3>1. DOMAIN ltk' = Slot /\ \A i \in Slot : addr'[i] = NoAddr
      BY <2>8 DEF FactoryReset, Empty
    <3> QED
      BY <1>2, <2>0, <2>8, <3>1, BondAssumption DEF FactoryReset, conVars, KeyInv, AgreeOn
  <2>9. CASE FactoryDelete
    <3>1. CASE stored' = Empty
      <4>1. DOMAIN stored'.ltk = Slot /\ \A i \in Slot : stored'.addr[i] = NoAddr
        BY <3>1 DEF Empty
      <4> QED
        BY <1>2, <2>0, <2>9, <4>1, BondAssumption
           DEF FactoryDelete, pairList, conVars, KeyInv, AgreeOn
    <3>2. CASE UNCHANGED stored
      BY <1>2, <2>0, <2>9, <3>2 DEF FactoryDelete, pairList, conVars, KeyInv, AgreeOn
    <3> QED
      BY <2>9, <3>1, <3>2 DEF FactoryDelete
  <2>10. CASE Reboot
    BY <1>2, <2>0, <2>10 DEF Reboot, KeyInv, AgreeOn
  <2>11. CASE UNCHANGED bondVars
    BY <1>2, <2>0, <2>11 DEF bondVars, pairList, conVars, KeyInv, AgreeOn
  <2> QED
    BY <1>2, <2>1, <2>2, <2>3, <2>4, <2>5, <2>6, <2>7, <2>8, <2>9, <2>10, <2>11 DEF Next
<1> QED
  BY <1>1, <1>2

\* A peer of the list that has kept its key is found and answered with that key when
\* it connects again, unless it is the last device of a full list, or its last
\* pairing left an older key in the list or in the store.
THEOREM BondReconnectsEncrypted == Spec => ReconnectsEncrypted
<1> DEFINE Answered(c, p) ==
      Connect(c, p) /\ Exists(p) /\ p \in agreed /\ peerKey[p] # NoKey =>
        Found(c, p)' \/ mru[First(OfAddr(p))] = MaxBonds
<1>1. ASSUME KeyInv, NEW c \in Conn, NEW p \in Peer PROVE Answered(c, p)
  <2> DEFINE i == First(OfAddr(p))
  <2>1. SUFFICES ASSUME Connect(c, p), Exists(p), p \in agreed, peerKey[p] # NoKey,
                        mru[i] # MaxBonds
                 PROVE  Found(c, p)'
    OBVIOUS
  <2>2. OfAddr(p) # {}
    BY <2>1 DEF OfAddr, Exists
  <2>3. i \in Slot /\ addr[i] = p /\ mru[i] \in 1 .. MaxBonds
    BY <1>1, <2>2, OldSlotFacts DEF KeyInv, BondInv
  <2>4. Known(p)
    BY <2>1, <2>2, <2>3, BondAssumption DEF Known
  <2>5. ltk[i] = peerKey[p]
    BY <1>1, <2>1, <2>3 DEF KeyInv, AgreeOn
  <2>6. is_bonded'[c] /\ con_ltk'[c] = ltk[i] /\ peerKey' = peerKey
    BY <1>1, <2>1, <2>4 DEF Connect, KeyInv
  <2> QED
    BY <2>5, <2>6 DEF Found
<1>2. KeyInv => [\A c \in Conn, p \in Peer : Answered(c, p)]_bondVars
  BY <1>1
<1> QED
  BY <1>2, KeyInductive, PTL DEF Spec, ReconnectsEncrypted

=============================================================================
