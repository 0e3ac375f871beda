---------------------------- MODULE AtScanProofs ----------------------------
(***************************************************************************)
(* Proofs about the list of access points and AT+CWLAP, for every number   *)
(* of access points, signal strength, list length and life time.           *)
(***************************************************************************)
EXTENDS AtScan, FiniteSetTheorems, FunctionTheorems, TLAPS

----------------------------------------------------------------------------
(* Taking nodes out of the list.                                           *)

\* Every position that is kept has a place of its own in the order.
LEMMA Ranks ==
  ASSUME NEW n \in Nat, NEW S \in SUBSET (1 .. n)
  PROVE  /\ Cardinality(S) \in Nat /\ Cardinality(S) <= n
         /\ \A i \in S : Cardinality({j \in S : j <= i}) \in 1 .. Cardinality(S)
         /\ \A i, k \in S : i < k =>
              Cardinality({j \in S : j <= i}) < Cardinality({j \in S : j <= k})
         /\ \A p \in 1 .. Cardinality(S) : \E i \in S : Cardinality({j \in S : j <= i}) = p
<1> DEFINE Upto(i) == {j \in S : j <= i}
           rank == [i \in S |-> Cardinality(Upto(i))]
<1>0. \A i \in S : i \in Int
  OBVIOUS
<1>1. IsFiniteSet(1 .. n) /\ Cardinality(1 .. n) = n
  BY FS_Interval
<1>2. IsFiniteSet(S) /\ Cardinality(S) <= n
  BY <1>1, FS_Subset
<1>3. Cardinality(S) \in Nat
  BY <1>2, FS_CardinalityType
<1>4. \A i : IsFiniteSet(Upto(i)) /\ Cardinality(Upto(i)) <= Cardinality(S)
             /\ Cardinality(Upto(i)) \in Nat
  <2> SUFFICES ASSUME NEW i PROVE IsFiniteSet(Upto(i)) /\ Cardinality(Upto(i)) <= Cardinality(S)
                                  /\ Cardinality(Upto(i)) \in Nat
    OBVIOUS
  <2>1. Upto(i) \in SUBSET S
    OBVIOUS
  <2>2. IsFiniteSet(Upto(i)) /\ Cardinality(Upto(i)) <= Cardinality(S)
    BY <1>2, <2>1, FS_Subset
  <2> QED
    BY <2>2, FS_CardinalityType
<1>5. ASSUME NEW i \in S PROVE Cardinality(Upto(i)) \in 1 .. Cardinality(S)
  <2>1. i \in Upto(i)
    BY <1>0
  <2>2. Cardinality(Upto(i)) # 0
    BY <1>4, <2>1, FS_EmptySet
  <2> QED
    BY <1>3, <1>4, <2>2
<1>6. ASSUME NEW i \in S, NEW k \in S, i < k
      PROVE  Cardinality(Upto(i)) < Cardinality(Upto(k))
  <2>1. Upto(i) \in SUBSET Upto(k) /\ k \in Upto(k) /\ k \notin Upto(i)
    <3>1. \A j \in S : j <= i => j <= k
      BY <1>0, <1>6
    <3>2. k <= k /\ ~(k <= i)
      BY <1>0, <1>6
    <3> QED
      BY <3>1, <3>2
  <2>2. Cardinality(Upto(i)) <= Cardinality(Upto(k))
        /\ Cardinality(Upto(k)) # Cardinality(Upto(i))
    BY <1>4, <2>1, FS_Subset
  <2> QED
    BY <1>4, <2>2
<1>7. rank \in Injection(S, 1 .. Cardinality(S))
  <2>1. rank \in [S -> 1 .. Cardinality(S)]
    BY <1>5
  <2>2. \A i, k \in S : rank[i] = rank[k] => i = k
    BY <1>0, <1>4, <1>6
  <2> QED
    BY <2>1, <2>2, Fun_IsInj
<1>8. IsFiniteSet(1 .. Cardinality(S)) /\ Cardinality(1 .. Cardinality(S)) = Cardinality(S)
  BY <1>3, FS_Interval
<1>9. rank \in Surjection(S, 1 .. Cardinality(S))
  BY <1>7, <1>8, FS_Injection
<1>10. \A p \in 1 .. Cardinality(S) : \E i \in S : Cardinality(Upto(i)) = p
  <2>1. \A p \in 1 .. Cardinality(S) : \E i \in S : rank[i] = p
    <3> HIDE DEF rank
    <3> QED
      BY <1>9, Fun_SurjectionProperties
  <2>2. \A i \in S : rank[i] = Cardinality(Upto(i))
    OBVIOUS
  <2> HIDE DEF rank, Upto
  <2> QED
    BY <2>1, <2>2
<1> QED
  BY <1>2, <1>3, <1>5, <1>6, <1>10

\* Keep yields the nodes at the positions S and no other, in their order.
LEMMA KeepFacts ==
  ASSUME NEW X, NEW l \in Seq(X), NEW S \in SUBSET (1 .. Len(l))
  PROVE  /\ Keep(l, S) \in Seq(X)
         /\ Len(Keep(l, S)) = Cardinality(S) /\ Cardinality(S) <= Len(l)
         /\ Cardinality(S) \in Nat
         /\ \E at1 \in [1 .. Cardinality(S) -> S] :
              /\ \A k \in 1 .. Cardinality(S) : Keep(l, S)[k] = l[at1[k]]
              /\ \A k, m \in 1 .. Cardinality(S) : k < m => at1[k] < at1[m]
              /\ \A i \in S : \E k \in 1 .. Cardinality(S) : at1[k] = i
<1> DEFINE Rank(i) == Cardinality({j \in S : j <= i})
           pick == [k \in 1 .. Cardinality(S) |-> CHOOSE i \in S : Rank(i) = k]
<1>1. Len(l) \in Nat
  OBVIOUS
<1>2. /\ Cardinality(S) \in Nat /\ Cardinality(S) <= Len(l)
      /\ \A i \in S : Rank(i) \in 1 .. Cardinality(S)
      /\ \A i, k \in S : i < k => Rank(i) < Rank(k)
      /\ \A p \in 1 .. Cardinality(S) : \E i \in S : Rank(i) = p
  BY <1>1, Ranks
<1>3. \A i \in S : i \in 1 .. Len(l) /\ i \in Int
  OBVIOUS
<1>4. Keep(l, S) = [k \in 1 .. Cardinality(S) |-> l[CHOOSE i \in S : Rank(i) = k]]
  BY DEF Keep
<1> HIDE DEF Rank
<1>5. \A k \in 1 .. Cardinality(S) : pick[k] \in S /\ Rank(pick[k]) = k
  BY <1>2
<1>6. \A k \in 1 .. Cardinality(S) : Keep(l, S)[k] = l[pick[k]]
  BY <1>4
<1>7. pick \in [1 .. Cardinality(S) -> S]
  BY <1>5
<1> HIDE DEF pick
<1>8. ASSUME NEW k \in 1 .. Cardinality(S), NEW m \in 1 .. Cardinality(S), k < m
      PROVE  pick[k] < pick[m]
  <2>1. pick[k] \in S /\ pick[m] \in S /\ Rank(pick[k]) = k /\ Rank(pick[m]) = m
    BY <1>5
  <2>2. pick[k] \in Int /\ pick[m] \in Int
    BY <1>3, <2>1
  <2>3. pick[k] # pick[m]
    BY <1>8, <2>1
  <2>4. pick[m] < pick[k] => Rank(pick[m]) < Rank(pick[k])
    BY <1>2, <2>1
  <2>5. ~(pick[m] < pick[k])
    BY <1>8, <2>1, <2>4
  <2> QED
    BY <2>2, <2>3, <2>5
<1>9. ASSUME NEW i \in S PROVE \E k \in 1 .. Cardinality(S) : pick[k] = i
  <2> DEFINE k == Rank(i)
  <2>1. k \in 1 .. Cardinality(S) /\ pick[k] \in S /\ Rank(pick[k]) = Rank(i)
    BY <1>2, <1>5
  <2>2. pick[k] \in Int /\ i \in Int /\ Rank(i) \in Int
    <3>1. Rank(i) \in 1 .. Cardinality(S)
      BY <1>2
    <3>2. Rank(i) \in Int
      BY <1>2, <3>1
    <3> HIDE DEF k
    <3> QED
      BY <1>3, <2>1, <3>2
  <2>3. /\ pick[k] < i => Rank(pick[k]) < Rank(i)
        /\ i < pick[k] => Rank(i) < Rank(pick[k])
    BY <1>2, <2>1
  <2>4. ~(pick[k] < i) /\ ~(i < pick[k])
    BY <2>1, <2>2, <2>3
  <2> QED
    BY <2>1, <2>2, <2>4
<1>10. \A k \in 1 .. Cardinality(S) : l[pick[k]] \in X
  <2>1. \A i \in 1 .. Len(l) : l[i] \in X
    OBVIOUS
  <2>2. \A k \in 1 .. Cardinality(S) : pick[k] \in 1 .. Len(l)
    BY <1>3, <1>5
  <2> QED
    BY <2>1, <2>2
<1>11. Keep(l, S) \in [1 .. Cardinality(S) -> X]
  BY <1>4, <1>6, <1>10
<1>12. Keep(l, S) \in Seq(X) /\ Len(Keep(l, S)) = Cardinality(S)
  BY <1>2, <1>11
<1> QED
  BY <1>2, <1>6, <1>7, <1>8, <1>9, <1>12

----------------------------------------------------------------------------
(* The list.                                                               *)

Node == [cell : Cell, bssid : Bssid, rssi : Rssi, age : 0 .. LifeTime]

OnePerBssid(l) == \A i, j \in 1 .. Len(l) : l[i].bssid = l[j].bssid => i = j

Sorted(l) == \A i, j \in 1 .. Len(l) : i < j => l[j].rssi <= l[i].rssi

\* The nodes of a list are nodes, and signal strengths are integers.
LEMMA NodeFacts ==
  /\ \A n \in Node : n.rssi \in Rssi /\ n.rssi \in Int
  /\ \A l \in Seq(Node) : Len(l) \in Nat /\ \A k \in 1 .. Len(l) : l[k] \in Node
<1>1. \A n \in Node : n.rssi \in Rssi
  BY DEF Node
<1>2. \A r \in Rssi : r \in Int
  BY ListAssumption
<1>3. ASSUME NEW l \in Seq(Node) PROVE Len(l) \in Nat /\ \A k \in 1 .. Len(l) : l[k] \in Node
  OBVIOUS
<1> QED
  BY <1>1, <1>2, <1>3

\* A part of a list, in its order, has what the list has.
LEMMA PartOfList ==
  ASSUME NEW l \in Seq(Node), NEW p \in Seq(Node), NEW pick \in [1 .. Len(p) -> 1 .. Len(l)],
         \A k \in 1 .. Len(p) : p[k] = l[pick[k]],
         \A k, m \in 1 .. Len(p) : k < m => pick[k] < pick[m]
  PROVE  /\ OnePerBssid(l) => OnePerBssid(p)
         /\ Sorted(l) => Sorted(p)
<1>0. \A k \in 1 .. Len(p) : pick[k] \in 1 .. Len(l) /\ pick[k] \in Int /\ k \in Int
  OBVIOUS
<1>1. ASSUME OnePerBssid(l) PROVE OnePerBssid(p)
  <2> SUFFICES ASSUME NEW k \in 1 .. Len(p), NEW m \in 1 .. Len(p), p[k].bssid = p[m].bssid
               PROVE  k = m
    BY DEF OnePerBssid
  <2>1. pick[k] = pick[m]
    BY <1>0, <1>1 DEF OnePerBssid
  <2>2. ~(k < m) /\ ~(m < k)
    BY <1>0, <2>1
  <2> QED
    BY <1>0, <2>2
<1>2. ASSUME Sorted(l) PROVE Sorted(p)
  BY <1>0, <1>2 DEF Sorted
<1> QED
  BY <1>1, <1>2

\* Keep of a list.
LEMMA KeepList ==
  ASSUME NEW l \in Seq(Node), NEW S \in SUBSET (1 .. Len(l))
  PROVE  /\ Keep(l, S) \in Seq(Node)
         /\ Len(Keep(l, S)) <= Len(l)
         /\ OnePerBssid(l) => OnePerBssid(Keep(l, S))
         /\ Sorted(l) => Sorted(Keep(l, S))
         /\ \A k \in 1 .. Len(Keep(l, S)) : \E i \in S : Keep(l, S)[k] = l[i]
         /\ \A i \in S : \E k \in 1 .. Len(Keep(l, S)) : Keep(l, S)[k] = l[i]
<1> DEFINE p == Keep(l, S)
<1>1. p \in Seq(Node) /\ Len(p) = Cardinality(S) /\ Cardinality(S) <= Len(l)
  BY KeepFacts
<1>2. PICK pick \in [1 .. Cardinality(S) -> S] :
        /\ \A k \in 1 .. Cardinality(S) : p[k] = l[pick[k]]
        /\ \A k, m \in 1 .. Cardinality(S) : k < m => pick[k] < pick[m]
        /\ \A i \in S : \E k \in 1 .. Cardinality(S) : pick[k] = i
  BY KeepFacts
<1> HIDE DEF p
<1>3. pick \in [1 .. Len(p) -> 1 .. Len(l)]
  BY <1>1
<1>4. /\ OnePerBssid(l) => OnePerBssid(p)
      /\ Sorted(l) => Sorted(p)
  BY <1>1, <1>2, <1>3, PartOfList
<1>5. \A k \in 1 .. Len(p) : \E i \in S : p[k] = l[i]
  BY <1>1, <1>2
<1>6. \A i \in S : \E k \in 1 .. Len(p) : p[k] = l[i]
  BY <1>1, <1>2
<1> QED
  BY <1>1, <1>4, <1>5, <1>6 DEF p

\* The eviction takes the last node off a full list.
LEMMA EvictedList ==
  ASSUME NEW l \in Seq(Node), l # <<>>
  PROVE  /\ Evicted(l, Len(l)) \in Seq(Node)
         /\ Len(l) < NodeMax => Evicted(l, Len(l)) = l
         /\ Len(l) >= NodeMax => Len(Evicted(l, Len(l))) = Len(l) - 1
         /\ Len(Evicted(l, Len(l))) <= Len(l)
         /\ OnePerBssid(l) => OnePerBssid(Evicted(l, Len(l)))
         /\ Sorted(l) => Sorted(Evicted(l, Len(l)))
         /\ \A i \in 1 .. Len(Evicted(l, Len(l))) : Evicted(l, Len(l))[i] = l[i]
<1>0. Len(l) \in Nat /\ Len(l) > 0 /\ NodeMax \in Nat
  BY ListAssumption
<1>1. CASE Len(l) < NodeMax
  BY <1>0, <1>1 DEF Evicted
<1>2. CASE Len(l) >= NodeMax
  <2>1. Evicted(l, Len(l)) = SubSeq(l, 1, Len(l) - 1)
    BY <1>2 DEF Evicted, Front
  <2>2. /\ Evicted(l, Len(l)) \in Seq(Node) /\ Len(Evicted(l, Len(l))) = Len(l) - 1
        /\ \A i \in 1 .. Len(l) - 1 : Evicted(l, Len(l))[i] = l[i]
    <3>0. \A n \in Nat : n > 0 => n - 1 \in Nat /\ n - 1 <= n
      OBVIOUS
    <3>1. PICK m \in Nat : m = Len(l) - 1 /\ m <= Len(l)
      BY <1>0, <3>0, Zenon
    <3>2. /\ SubSeq(l, 1, m) \in Seq(Node) /\ Len(SubSeq(l, 1, m)) = m
          /\ \A i \in 1 .. m : SubSeq(l, 1, m)[i] = l[i]
      BY <1>0, <3>1
    <3> QED
      BY <2>1, <3>1, <3>2
  <2>3. /\ OnePerBssid(l) => OnePerBssid(Evicted(l, Len(l)))
        /\ Sorted(l) => Sorted(Evicted(l, Len(l)))
    BY <1>0, <2>2 DEF OnePerBssid, Sorted
  <2> QED
    BY <1>0, <1>2, <2>2, <2>3
<1> QED
  BY <1>0, <1>1, <1>2

\* Inserting a node moves the nodes behind it up by one.
LEMMA InsertList ==
  ASSUME NEW l \in Seq(Node), NEW n \in Node, NEW i \in 1 .. Len(l) + 1
  PROVE  /\ InsertAt(l, i, n) \in Seq(Node) /\ Len(InsertAt(l, i, n)) = Len(l) + 1
         /\ \A k \in 1 .. i - 1 : InsertAt(l, i, n)[k] = l[k]
         /\ InsertAt(l, i, n)[i] = n
         /\ \A k \in i + 1 .. Len(l) + 1 : InsertAt(l, i, n)[k] = l[k - 1]
<1>0. Len(l) \in Nat /\ i \in Nat
  OBVIOUS
<1> DEFINE p == InsertAt(l, i, n)
           u == SubSeq(l, 1, i - 1)
           v == SubSeq(l, i, Len(l))
<1>1. u \in Seq(Node) /\ Len(u) = i - 1 /\ \A k \in 1 .. i - 1 : u[k] = l[k]
  BY <1>0
<1>2. v \in Seq(Node) /\ Len(v) = Len(l) - i + 1 /\ \A k \in 1 .. Len(l) - i + 1 : v[k] = l[i + k - 1]
  BY <1>0
<1>3. p = (u \o <<n>>) \o v
  BY DEF InsertAt
<1> HIDE DEF p, u, v
<1>4. /\ u \o <<n>> \in Seq(Node) /\ Len(u \o <<n>>) = i
      /\ \A k \in 1 .. i - 1 : (u \o <<n>>)[k] = l[k]
      /\ (u \o <<n>>)[i] = n
  BY <1>0, <1>1
<1> DEFINE w == u \o <<n>>
<1>5. w \in Seq(Node) /\ Len(w) = i /\ (\A k \in 1 .. i - 1 : w[k] = l[k]) /\ w[i] = n /\ p = w \o v
  BY <1>3, <1>4
<1> HIDE DEF w
<1>6. p \in Seq(Node) /\ Len(p) = Len(l) + 1
  BY <1>0, <1>2, <1>5
<1>7. \A k \in 1 .. i : p[k] = w[k]
  BY <1>0, <1>2, <1>5
<1>8. \A k \in i + 1 .. Len(l) + 1 : p[k] = v[k - i]
  BY <1>0, <1>2, <1>5
<1>9. ASSUME NEW k \in i + 1 .. Len(l) + 1 PROVE p[k] = l[k - 1]
  <2>1. k - i \in 1 .. Len(l) - i + 1 /\ i + (k - i) - 1 = k - 1
    BY <1>0
  <2> QED
    BY <1>2, <1>8, <2>1
<1> QED
  BY <1>0, <1>5, <1>6, <1>7, <1>9 DEF p

\* The place of a node under RSSI_SORT: behind the stronger nodes, and in a
\* sorted list in front of all the others.
LEMMA PlaceFacts ==
  ASSUME NEW l \in Seq(Node), NEW r \in Rssi
  PROVE  /\ Place(l, r) \in 1 .. Len(l) + 1
         /\ \A k \in 1 .. Place(l, r) - 1 : ~(r >= l[k].rssi)
         /\ Sorted(l) => \A k \in Place(l, r) .. Len(l) : l[k].rssi <= r
<1> DEFINE W == {i \in 1 .. Len(l) : r >= l[i].rssi}
<1>0. Len(l) \in Nat /\ r \in Int /\ \A k \in 1 .. Len(l) : l[k].rssi \in Int
  BY ListAssumption, NodeFacts
<1>1. CASE W = {}
  <2>1. Place(l, r) = Len(l) + 1
    BY <1>1 DEF Place
  <2>2. \A k \in 1 .. Len(l) : ~(r >= l[k].rssi)
    BY <1>1
  <2> QED
    BY <1>0, <2>1, <2>2
<1>2. CASE W # {}
  <2>0. W \in SUBSET (1 .. Len(l)) /\ \A k \in W : k \in Int
    OBVIOUS
  <2>1. PICK m \in W : \A j \in W : m <= j
    <3> HIDE DEF W
    <3> DEFINE Rank(i) == Cardinality({j \in W : j <= i})
    <3>1. /\ Cardinality(W) \in Nat
          /\ \A i \in W : Rank(i) \in 1 .. Cardinality(W)
          /\ \A i, k \in W : i < k => Rank(i) < Rank(k)
          /\ \A p \in 1 .. Cardinality(W) : \E i \in W : Rank(i) = p
      BY <1>0, <2>0, Ranks
    <3> HIDE DEF Rank
    <3>2. PICK k \in W : TRUE
      BY <1>2
    <3>3. 1 \in 1 .. Cardinality(W)
      BY <3>1, <3>2
    <3>4. PICK m \in W : Rank(m) = 1
      BY <3>1, <3>3
    <3>5. \A j \in W : ~(j < m)
      <4> SUFFICES ASSUME NEW j \in W, j < m PROVE FALSE
        OBVIOUS
      <4>1. Rank(j) < 1 /\ Rank(j) \in 1 .. Cardinality(W)
        BY <3>1, <3>4
      <4> QED
        BY <3>1, <4>1
    <3> QED
      BY <2>0, <3>5
  <2>2. Place(l, r) \in W /\ \A j \in W : Place(l, r) <= j
    <3>1. Place(l, r) = CHOOSE i \in W : \A j \in W : i <= j
      BY <1>2 DEF Place
    <3> HIDE DEF W
    <3> QED
      BY <2>1, <3>1
  <2> DEFINE i == Place(l, r)
  <2> HIDE DEF i
  <2>3. i \in 1 .. Len(l) /\ r >= l[i].rssi /\ \A j \in W : i <= j
    BY <2>2 DEF i
  <2>4. \A k \in 1 .. i - 1 : ~(r >= l[k].rssi)
    <3> SUFFICES ASSUME NEW k \in 1 .. i - 1, r >= l[k].rssi PROVE FALSE
      OBVIOUS
    <3>1. k \in 1 .. Len(l) /\ ~(i <= k)
      BY <1>0, <2>3
    <3> QED
      BY <2>3, <3>1
  <2>5. ASSUME Sorted(l), NEW k \in i .. Len(l) PROVE l[k].rssi <= r
    <3>1. k \in 1 .. Len(l) /\ (k = i \/ i < k)
      BY <1>0, <2>3
    <3>2. l[k].rssi <= l[i].rssi
      BY <1>0, <2>3, <2>5, <3>1 DEF Sorted
    <3> QED
      BY <1>0, <2>3, <3>1, <3>2
  <2> QED
    BY <1>0, <2>3, <2>4, <2>5 DEF i
<1> QED
  BY <1>1, <1>2

\* A new node has its place, under either rule.
LEMMA AddedList ==
  ASSUME NEW l \in Seq(Node), NEW n \in Node, OnePerBssid(l),
         \A k \in 1 .. Len(l) : l[k].bssid # n.bssid,
         rule \in {"NORMAL_SORT", "RSSI_SORT"},
         rule = "RSSI_SORT" => Sorted(l)
  PROVE  /\ Added(l, n) \in Seq(Node) /\ Len(Added(l, n)) = Len(l) + 1
         /\ OnePerBssid(Added(l, n))
         /\ rule = "RSSI_SORT" => Sorted(Added(l, n))
         /\ \E m \in 1 .. Len(l) + 1 : Added(l, n)[m] = n
         /\ \A k \in 1 .. Len(l) : \E m \in 1 .. Len(l) + 1 : Added(l, n)[m] = l[k]
<1>0. Len(l) \in Nat /\ n.rssi \in Rssi /\ n.rssi \in Int
      /\ \A k \in 1 .. Len(l) : l[k].rssi \in Int
  BY NodeFacts
<1> DEFINE p == Added(l, n)
<1> HIDE DEF p
<1>1. PICK i \in 1 .. Len(l) + 1 :
        /\ p \in Seq(Node) /\ Len(p) = Len(l) + 1
        /\ \A k \in 1 .. i - 1 : p[k] = l[k]
        /\ p[i] = n
        /\ \A k \in i + 1 .. Len(l) + 1 : p[k] = l[k - 1]
        /\ rule = "RSSI_SORT" => i = Place(l, n.rssi)
  <2>1. CASE rule = "NORMAL_SORT"
    <3>1. p = <<n>> \o l
      BY <2>1 DEF p, Added
    <3>2. /\ p \in Seq(Node) /\ Len(p) = Len(l) + 1 /\ p[1] = n
          /\ \A k \in 2 .. Len(l) + 1 : p[k] = l[k - 1]
      BY <1>0, <3>1
    <3>3. 1 \in 1 .. Len(l) + 1 /\ 1 .. 1 - 1 = {} /\ 1 + 1 = 2
      BY <1>0
    <3> QED
      BY <2>1, <3>2, <3>3
  <2>2. CASE rule = "RSSI_SORT"
    <3>1. p = InsertAt(l, Place(l, n.rssi), n)
      BY <2>2 DEF p, Added
    <3>2. PICK i \in 1 .. Len(l) + 1 : i = Place(l, n.rssi)
      BY <1>0, PlaceFacts
    <3>3. p = InsertAt(l, i, n)
      BY <3>1, <3>2
    <3>4. /\ p \in Seq(Node) /\ Len(p) = Len(l) + 1
          /\ \A k \in 1 .. i - 1 : p[k] = l[k]
          /\ p[i] = n
          /\ \A k \in i + 1 .. Len(l) + 1 : p[k] = l[k - 1]
      <4>1. /\ InsertAt(l, i, n) \in Seq(Node) /\ Len(InsertAt(l, i, n)) = Len(l) + 1
            /\ \A k \in 1 .. i - 1 : InsertAt(l, i, n)[k] = l[k]
            /\ InsertAt(l, i, n)[i] = n
            /\ \A k \in i + 1 .. Len(l) + 1 : InsertAt(l, i, n)[k] = l[k - 1]
        BY InsertList
      <4> QED
        BY <3>3, <4>1
    <3> QED
      BY <3>2, <3>4
  <2> QED
    BY <2>1, <2>2
<1>2. \A k \in 1 .. Len(p) :
        \/ k < i /\ k \in 1 .. i - 1 /\ k \in 1 .. Len(l)
        \/ k = i
        \/ k > i /\ k \in i + 1 .. Len(l) + 1 /\ k - 1 \in 1 .. Len(l)
  BY <1>0, <1>1
<1>3. OnePerBssid(p)
  <2> SUFFICES ASSUME NEW k \in 1 .. Len(p), NEW m \in 1 .. Len(p), p[k].bssid = p[m].bssid
               PROVE  k = m
    BY DEF OnePerBssid
  <2>1. k \in Int /\ m \in Int /\ i \in Int
    BY <1>0, <1>1
  <2>2. CASE k = i
    BY <1>1, <1>2, <2>2
  <2>3. CASE m = i
    BY <1>1, <1>2, <2>3
  <2>4. CASE k < i /\ m < i
    BY <1>1, <1>2, <2>1, <2>4 DEF OnePerBssid
  <2>5. CASE k < i /\ m > i
    <3>1. p[k] = l[k] /\ p[m] = l[m - 1] /\ k \in 1 .. Len(l) /\ m - 1 \in 1 .. Len(l)
      BY <1>1, <1>2, <2>1, <2>5
    <3>2. k = m - 1
      BY <3>1 DEF OnePerBssid
    <3> QED
      BY <2>1, <2>5, <3>2
  <2>6. CASE k > i /\ m < i
    <3>1. k - 1 = m
      BY <1>1, <1>2, <2>1, <2>6 DEF OnePerBssid
    <3> QED
      BY <2>1, <2>6, <3>1
  <2>7. CASE k > i /\ m > i
    <3>1. k - 1 = m - 1
      BY <1>1, <1>2, <2>1, <2>7 DEF OnePerBssid
    <3> QED
      BY <2>1, <3>1
  <2> QED
    BY <2>1, <2>2, <2>3, <2>4, <2>5, <2>6, <2>7
<1>4. ASSUME rule = "RSSI_SORT" PROVE Sorted(p)
  <2>0. /\ Sorted(l)
        /\ \A k \in 1 .. i - 1 : ~(n.rssi >= l[k].rssi)
        /\ \A k \in i .. Len(l) : l[k].rssi <= n.rssi
    BY <1>0, <1>1, <1>4, PlaceFacts
  <2> SUFFICES ASSUME NEW k \in 1 .. Len(p), NEW m \in 1 .. Len(p), k < m
               PROVE  p[m].rssi <= p[k].rssi
    BY DEF Sorted
  <2>1. k \in Int /\ m \in Int /\ i \in Int
    BY <1>0, <1>1
  <2>2. CASE k = i
    <3>1. p[k] = n /\ p[m] = l[m - 1] /\ m - 1 \in i .. Len(l)
      BY <1>0, <1>1, <1>2, <2>1, <2>2
    <3> QED
      BY <2>0, <3>1
  <2>3. CASE m = i
    <3>1. p[m] = n /\ p[k] = l[k] /\ k \in 1 .. i - 1 /\ k \in 1 .. Len(l)
      BY <1>1, <1>2, <2>1, <2>3
    <3>2. ~(n.rssi >= l[k].rssi) /\ l[k].rssi \in Int
      BY <1>0, <2>0, <3>1
    <3> QED
      BY <1>0, <3>1, <3>2
  <2>4. CASE m < i
    BY <1>1, <1>2, <2>0, <2>1, <2>4 DEF Sorted
  <2>5. CASE k < i /\ m > i
    <3>1. p[k] = l[k] /\ p[m] = l[m - 1] /\ k \in 1 .. Len(l) /\ m - 1 \in 1 .. Len(l) /\ k < m - 1
      BY <1>1, <1>2, <2>1, <2>5
    <3> QED
      BY <2>0, <3>1 DEF Sorted
  <2>6. CASE k > i
    <3>1. /\ p[k] = l[k - 1] /\ p[m] = l[m - 1] /\ k - 1 \in 1 .. Len(l) /\ m - 1 \in 1 .. Len(l)
          /\ k - 1 < m - 1
      BY <1>1, <1>2, <2>1, <2>6
    <3> QED
      BY <2>0, <3>1 DEF Sorted
  <2> QED
    BY <2>1, <2>2, <2>3, <2>4, <2>5, <2>6
<1>5. ASSUME NEW k \in 1 .. Len(l) PROVE \E m \in 1 .. Len(l) + 1 : p[m] = l[k]
  <2>1. CASE k < i
    <3>1. k \in 1 .. i - 1 /\ k \in 1 .. Len(l) + 1
      BY <1>0, <1>1, <2>1
    <3> QED
      BY <1>1, <3>1
  <2>2. CASE ~(k < i)
    <3>1. k + 1 \in i + 1 .. Len(l) + 1 /\ k + 1 \in 1 .. Len(l) + 1 /\ (k + 1) - 1 = k
      BY <1>0, <1>1, <2>2
    <3> QED
      BY <1>1, <3>1
  <2> QED
    BY <2>1, <2>2
<1> QED
  BY <1>1, <1>3, <1>4, <1>5 DEF p

----------------------------------------------------------------------------
(* The operations of the list.                                             *)

ListInv ==
  /\ list \in Seq(Node)
  /\ rule \in {"NORMAL_SORT", "RSSI_SORT"}
  /\ ListSound
  /\ rule = "RSSI_SORT" => Sorted(list)

\* malloc finds a free cell.
LEMMA FreeCell ==
  ASSUME ListInv
  PROVE  (CHOOSE c \in Cell \ Cells(list) : TRUE) \in Cell
<1>0. /\ Len(list) \in Nat /\ Len(list) <= NodeMax /\ NodeMax \in Nat
      /\ \A k \in 1 .. Len(list) : list[k] \in Node
  BY ListAssumption, NodeFacts DEF ListInv, ListSound
<1> DEFINE f == [i \in 1 .. Len(list) |-> list[i].cell]
<1>1. f \in Surjection(1 .. Len(list), Cells(list))
  <2>1. f \in [1 .. Len(list) -> Cells(list)]
    BY DEF Cells, Elems
  <2>2. \A c \in Cells(list) : \E i \in 1 .. Len(list) : f[i] = c
    BY DEF Cells, Elems
  <2> QED
    BY <2>1, <2>2, Fun_IsSurj
<1>2. /\ IsFiniteSet(1 .. Len(list)) /\ Cardinality(1 .. Len(list)) = Len(list)
      /\ IsFiniteSet(Cell) /\ Cardinality(Cell) = NodeMax + 2
  <2>1. /\ IsFiniteSet(1 .. Len(list))
        /\ Cardinality(1 .. Len(list)) = IF 1 > Len(list) THEN 0 ELSE Len(list) - 1 + 1
    <3>1. 1 \in Int /\ Len(list) \in Int
      BY <1>0
    <3> QED
      BY <3>1, FS_Interval
  <2>2. /\ IsFiniteSet(1 .. NodeMax + 2)
        /\ Cardinality(1 .. NodeMax + 2) = IF 1 > NodeMax + 2 THEN 0 ELSE NodeMax + 2 - 1 + 1
    BY <1>0, FS_Interval
  <2> QED
    BY <1>0, <2>1, <2>2 DEF Cell
<1> HIDE DEF f
<1>3. IsFiniteSet(Cells(list)) /\ Cardinality(Cells(list)) <= Len(list)
  BY <1>1, <1>2, FS_Surjection
<1>4. Cardinality(Cells(list)) \in Nat
  BY <1>3, FS_CardinalityType
<1>5. ~(Cell \subseteq Cells(list))
  <2> SUFFICES ASSUME Cell \in SUBSET Cells(list) PROVE FALSE
    OBVIOUS
  <2>1. Cardinality(Cell) <= Cardinality(Cells(list))
    BY <1>3, FS_Subset
  <2> QED
    BY <1>0, <1>2, <1>3, <1>4, <2>1
<1>6. \E c \in Cell \ Cells(list) : TRUE
  BY <1>5
<1> QED
  BY <1>6

\* The nodes whose time is up are taken out, and counted.
LEMMA TimedOutList ==
  ASSUME ListInv
  PROVE  LET left == TimedOut(list).left IN
         /\ left \in Seq(Node) /\ Len(left) <= Len(list)
         /\ TimedOut(list).gone = Len(list) - Len(left)
         /\ OnePerBssid(left)
         /\ rule = "RSSI_SORT" => Sorted(left)
         /\ \A n \in Elems(left) : n \in Elems(list)
         /\ \A n \in Elems(list) : n.age < LifeTime => \E i \in 1 .. Len(left) : left[i] = n
<1> DEFINE S == {i \in 1 .. Len(list) : list[i].age < LifeTime}
           left == TimedOut(list).left
<1>1. S \in SUBSET (1 .. Len(list))
  OBVIOUS
<1>2. left = Keep(list, S) /\ TimedOut(list).gone = Len(list) - Len(Keep(list, S))
  BY DEF TimedOut
<1>3. list \in Seq(Node) /\ OnePerBssid(list) /\ (rule = "RSSI_SORT" => Sorted(list))
  BY DEF ListInv, ListSound, OnePerBssid
<1>4. ASSUME NEW n \in Elems(list), n.age < LifeTime PROVE \E i \in S : list[i] = n
  BY <1>4 DEF Elems
<1> HIDE DEF S, left
<1>5. /\ left \in Seq(Node) /\ Len(left) <= Len(list)
      /\ OnePerBssid(left) /\ (rule = "RSSI_SORT" => Sorted(left))
      /\ \A k \in 1 .. Len(left) : \E i \in S : left[k] = list[i]
      /\ \A i \in S : \E k \in 1 .. Len(left) : left[k] = list[i]
  BY <1>1, <1>2, <1>3, KeepList
<1>6. \A n \in Elems(left) : n \in Elems(list)
  <2> SUFFICES ASSUME NEW k \in 1 .. Len(left) PROVE left[k] \in Elems(list)
    BY DEF Elems
  <2>1. PICK i \in S : left[k] = list[i]
    BY <1>5
  <2>2. i \in 1 .. Len(list)
    BY <1>1
  <2> QED
    BY <2>1, <2>2 DEF Elems
<1>7. \A n \in Elems(list) : n.age < LifeTime => \E i \in 1 .. Len(left) : left[i] = n
  BY <1>4, <1>5
<1> QED
  BY <1>2, <1>5, <1>6, <1>7 DEF left

\* A report: the counter moves with the list, and of the live nodes about
\* other access points only the last one of a full list goes.
LEMMA UpdatedList ==
  ASSUME ListInv, NEW b \in Bssid, NEW r \in Rssi
  PROVE  LET u == Updated(b, r)
             left == TimedOut(list).left IN
         /\ u.list \in Seq(Node) /\ Len(u.list) <= NodeMax
         /\ OnePerBssid(u.list)
         /\ rule = "RSSI_SORT" => Sorted(u.list)
         /\ node_count - u.gone + 1 = Len(u.list)
         /\ \E k \in 1 .. Len(u.list) :
              u.list[k].bssid = b /\ u.list[k].rssi = r /\ u.list[k].age = 0
         /\ \A i \in 1 .. Len(left) :
              \/ i = Len(left)
              \/ left[i].bssid = b
              \/ \E k \in 1 .. Len(u.list) : u.list[k] = left[i]
<1> DEFINE left == TimedOut(list).left
           gone == TimedOut(list).gone
           new == [cell |-> CHOOSE c \in Cell \ Cells(list) : TRUE,
                   bssid |-> b, rssi |-> r, age |-> 0]
           room == Evicted(left, node_count - gone)
           other == Without(room, b)
           u == Updated(b, r)
<1>0. /\ Len(list) \in Nat /\ node_count = Len(list) /\ Len(list) <= NodeMax /\ NodeMax \in Nat
      /\ NodeMax > 0 /\ rule \in {"NORMAL_SORT", "RSSI_SORT"}
  BY ListAssumption, NodeFacts DEF ListInv, ListSound
<1>1. new \in Node /\ new.bssid = b /\ new.rssi = r /\ new.age = 0
  <2>1. 0 \in 0 .. LifeTime
    BY ListAssumption
  <2> QED
    BY <2>1, FreeCell DEF Node
<1>2. /\ left \in Seq(Node) /\ Len(left) <= Len(list)
      /\ gone = Len(list) - Len(left)
      /\ OnePerBssid(left) /\ (rule = "RSSI_SORT" => Sorted(left))
  BY TimedOutList
<1>3. /\ left = <<>> => u.list = <<new>> /\ u.gone = gone
      /\ left # <<>> => /\ u.list = Added(other, new)
                        /\ u.gone = gone + (Len(left) - Len(room)) + (Len(room) - Len(other))
  BY DEF Updated
<1>4. room = Evicted(left, Len(left))
  <2>1. node_count - gone = Len(left)
    <3> HIDE DEF left, gone
    <3> QED
      BY <1>0, <1>2
  <2> QED
    BY <2>1
<1>5. other = Keep(room, {i \in 1 .. Len(room) : room[i].bssid # b})
  BY DEF Without
<1> HIDE DEF left, gone, new, room, other, u
<1>6. CASE left = <<>>
  <2>1. /\ u.list = <<new>> /\ u.gone = Len(list) /\ Len(left) = 0
    BY <1>0, <1>2, <1>3, <1>6
  <2>2. /\ u.list \in Seq(Node) /\ Len(u.list) = 1 /\ u.list[1] = new
    BY <1>1, <2>1
  <2>3. OnePerBssid(u.list) /\ Sorted(u.list)
    BY <2>2 DEF OnePerBssid, Sorted
  <2>4. node_count - u.gone + 1 = Len(u.list)
    BY <1>0, <2>1, <2>2
  <2> QED
    BY <1>0, <1>1, <2>1, <2>2, <2>3, <2>4 DEF left, u
<1>7. CASE left # <<>>
  <2>0. Len(left) \in Nat
    BY <1>2
  <2>1. /\ room \in Seq(Node)
        /\ Len(left) < NodeMax => room = left
        /\ Len(left) >= NodeMax => Len(room) = Len(left) - 1
        /\ Len(room) <= Len(left)
        /\ OnePerBssid(room) /\ (rule = "RSSI_SORT" => Sorted(room))
        /\ \A i \in 1 .. Len(room) : room[i] = left[i]
    BY <1>2, <1>4, <1>7, EvictedList
  <2> DEFINE T == {i \in 1 .. Len(room) : room[i].bssid # b}
  <2>2. T \in SUBSET (1 .. Len(room)) /\ (\A i \in T : room[i].bssid # b)
        /\ \A i \in 1 .. Len(room) : room[i].bssid # b => i \in T
    OBVIOUS
  <2>3. other = Keep(room, T)
    BY <1>5
  <2> HIDE DEF T
  <2>4. /\ other \in Seq(Node) /\ Len(other) <= Len(room)
        /\ OnePerBssid(other) /\ (rule = "RSSI_SORT" => Sorted(other))
        /\ \A k \in 1 .. Len(other) : \E i \in T : other[k] = room[i]
        /\ \A i \in T : \E k \in 1 .. Len(other) : other[k] = room[i]
    BY <2>1, <2>2, <2>3, KeepList
  <2>5. \A k \in 1 .. Len(other) : other[k].bssid # new.bssid
    BY <1>1, <2>2, <2>4
  <2>6. u.list = Added(other, new)
    BY <1>3, <1>7
  <2>7. /\ u.list \in Seq(Node) /\ Len(u.list) = Len(other) + 1
        /\ OnePerBssid(u.list)
        /\ rule = "RSSI_SORT" => Sorted(u.list)
        /\ \E m \in 1 .. Len(other) + 1 : u.list[m] = new
        /\ \A k \in 1 .. Len(other) : \E m \in 1 .. Len(other) + 1 : u.list[m] = other[k]
    <3>1. /\ Added(other, new) \in Seq(Node) /\ Len(Added(other, new)) = Len(other) + 1
          /\ OnePerBssid(Added(other, new))
          /\ rule = "RSSI_SORT" => Sorted(Added(other, new))
          /\ \E m \in 1 .. Len(other) + 1 : Added(other, new)[m] = new
          /\ \A k \in 1 .. Len(other) : \E m \in 1 .. Len(other) + 1 : Added(other, new)[m] = other[k]
      BY <1>0, <1>1, <2>4, <2>5, AddedList
    <3> QED
      BY <2>6, <3>1
  <2>8. /\ Len(room) \in Nat /\ Len(other) \in Nat
    BY <2>1, <2>4
  <2>9. Len(u.list) <= NodeMax
    BY <1>0, <1>2, <2>0, <2>1, <2>4, <2>7, <2>8
  <2>10. node_count - u.gone + 1 = Len(u.list)
    BY <1>0, <1>2, <1>3, <1>7, <2>0, <2>7, <2>8
  <2>11. ASSUME NEW i \in 1 .. Len(left), i # Len(left), left[i].bssid # b
         PROVE  \E k \in 1 .. Len(u.list) : u.list[k] = left[i]
    <3>1. i \in 1 .. Len(room)
      BY <1>0, <2>0, <2>1, <2>8, <2>11
    <3>2. i \in T /\ room[i] = left[i]
      BY <2>1, <2>2, <2>11, <3>1
    <3> QED
      BY <2>4, <2>7, <3>2
  <2> QED
    BY <1>1, <2>7, <2>9, <2>10, <2>11 DEF left, u
<1> QED
  BY <1>6, <1>7

\* An empty list has everything it should have.
LEMMA EmptyList ==
  ASSUME list' = <<>>, node_count' = 0, rule' \in {"NORMAL_SORT", "RSSI_SORT"}
  PROVE  ListInv'
<1>1. list' \in Seq(Node) /\ Len(list') = 0 /\ 1 .. Len(list') = {}
  OBVIOUS
<1>2. NodeMax \in Nat
  BY ListAssumption
<1> QED
  BY <1>1, <1>2 DEF ListInv, ListSound, Sorted

\* Every operation of the list keeps it sound and, under RSSI_SORT, sorted.
LEMMA ListStep ==
  ASSUME ListInv,
         \/ \E b \in Bssid, r \in Rssi : Update(b, r)
         \/ Cleanup
         \/ \E en \in BOOLEAN : UpdateEnable(en)
         \/ \E r \in {"NORMAL_SORT", "RSSI_SORT"} : SetSortRule(r)
         \/ GetApList
         \/ Age
         \/ UNCHANGED listVars
  PROVE  ListInv'
<1>0. /\ list \in Seq(Node) /\ Len(list) \in Nat /\ node_count = Len(list)
      /\ Len(list) <= NodeMax /\ NodeMax \in Nat
      /\ rule \in {"NORMAL_SORT", "RSSI_SORT"}
      /\ OnePerBssid(list) /\ (rule = "RSSI_SORT" => Sorted(list))
      /\ \A k \in 1 .. Len(list) : list[k] \in Node
  BY ListAssumption, NodeFacts DEF ListInv, ListSound, OnePerBssid
<1>s. CASE UNCHANGED <<list, node_count, rule>>
  BY <1>s DEF ListInv, ListSound, Sorted
<1>1. ASSUME NEW b \in Bssid, NEW r \in Rssi, Update(b, r) PROVE ListInv'
  <2>1. CASE enable
    <3>1. list' = Updated(b, r).list /\ node_count' = node_count - Updated(b, r).gone + 1
          /\ rule' = rule
      BY <1>1, <2>1 DEF Update
    <3>2. /\ Updated(b, r).list \in Seq(Node) /\ Len(Updated(b, r).list) <= NodeMax
          /\ OnePerBssid(Updated(b, r).list)
          /\ rule = "RSSI_SORT" => Sorted(Updated(b, r).list)
          /\ node_count - Updated(b, r).gone + 1 = Len(Updated(b, r).list)
      BY UpdatedList
    <3>3. /\ list' \in Seq(Node) /\ Len(list') <= NodeMax /\ OnePerBssid(list')
          /\ (rule' = "RSSI_SORT" => Sorted(list')) /\ node_count' = Len(list')
      BY <3>1, <3>2
    <3> QED
      BY <1>0, <3>1, <3>3 DEF ListInv, ListSound, OnePerBssid, Sorted
  <2>2. CASE ~enable
    BY <1>1, <1>s, <2>2 DEF Update
  <2> QED
    BY <2>1, <2>2
<1>2. CASE Cleanup
  BY <1>0, <1>2, EmptyList DEF Cleanup
<1>3. ASSUME NEW en \in BOOLEAN, UpdateEnable(en) PROVE ListInv'
  BY <1>3, <1>s DEF UpdateEnable
<1>4. ASSUME NEW r \in {"NORMAL_SORT", "RSSI_SORT"}, SetSortRule(r) PROVE ListInv'
  <2>1. CASE rule # r
    BY <1>0, <1>4, <2>1, EmptyList DEF SetSortRule
  <2>2. CASE rule = r
    BY <1>4, <1>s, <2>2 DEF SetSortRule
  <2> QED
    BY <2>1, <2>2
<1>5. CASE GetApList
  <2> DEFINE left == TimedOut(list).left
  <2>1. /\ left \in Seq(Node) /\ Len(left) <= Len(list)
        /\ TimedOut(list).gone = Len(list) - Len(left)
        /\ OnePerBssid(left) /\ (rule = "RSSI_SORT" => Sorted(left))
    BY TimedOutList
  <2>2. list' = left /\ node_count' = node_count - TimedOut(list).gone /\ rule' = rule
    BY <1>5 DEF GetApList
  <2> HIDE DEF left
  <2>3. Len(left) \in Nat
    BY <2>1
  <2>4. node_count' = Len(left) /\ Len(left) <= NodeMax
    BY <1>0, <2>1, <2>2, <2>3
  <2>5. /\ list' \in Seq(Node) /\ Len(list') <= NodeMax /\ OnePerBssid(list')
        /\ (rule' = "RSSI_SORT" => Sorted(list')) /\ node_count' = Len(list')
    BY <2>1, <2>2, <2>4
  <2> QED
    BY <1>0, <2>2, <2>5 DEF ListInv, ListSound, OnePerBssid, Sorted
<1>6. CASE Age
  <2> DEFINE older(n) == [n EXCEPT !.age = IF @ < LifeTime THEN @ + 1 ELSE @]
  <2>1. ASSUME NEW n \in Node
        PROVE  /\ older(n) \in Node
               /\ older(n).bssid = n.bssid /\ older(n).rssi = n.rssi
    BY ListAssumption DEF Node
  <2>2. /\ list' = [i \in 1 .. Len(list) |-> older(list[i])]
        /\ node_count' = node_count /\ rule' = rule
    BY <1>6 DEF Age
  <2> HIDE DEF older
  <2>3. list' \in Seq(Node) /\ Len(list') = Len(list)
    BY <1>0, <2>1, <2>2
  <2>4. \A i \in 1 .. Len(list) : list'[i].bssid = list[i].bssid /\ list'[i].rssi = list[i].rssi
    BY <1>0, <2>1, <2>2
  <2>5. OnePerBssid(list') /\ (rule' = "RSSI_SORT" => Sorted(list'))
    BY <1>0, <2>2, <2>3, <2>4 DEF OnePerBssid, Sorted
  <2> QED
    BY <1>0, <2>2, <2>3, <2>5 DEF ListInv, ListSound, OnePerBssid, Sorted
<1> QED
  BY <1>1, <1>2, <1>3, <1>4, <1>5, <1>6, <1>s DEF listVars

\* A step of the two tasks is an operation of the list, or none.
LEMMA StepOfList ==
  ASSUME [Next]_vars
  PROVE  \/ \E b \in Bssid, r \in Rssi : Update(b, r)
         \/ Cleanup
         \/ \E en \in BOOLEAN : UpdateEnable(en)
         \/ \E r \in {"NORMAL_SORT", "RSSI_SORT"} : SetSortRule(r)
         \/ GetApList
         \/ Age
         \/ UNCHANGED listVars
<1>1. CASE SetRule \/ ScanReport
  BY <1>1 DEF SetRule, ScanReport
<1>2. CASE AtCommand
  BY <1>2 DEF AtCommand, AtRegister, AtStatus, AtIssue, AtWait, AtWaitNull, AtDisable,
              AtGet, AtWalk, AtWalkFreed, AtEnable, AtUnregister, AtDelete, AtForget, AtCleanup
<1>3. CASE AtCreate \/ WifiTask \/ StaConnected \/ StaDisconnected \/ Tick
  BY <1>3 DEF AtCreate, WifiTask, ScanComplete, ScanCallback, ScanRelease, StaConnected,
              StaDisconnected, Tick
<1> QED
  BY <1>1, <1>2, <1>3 DEF Next, vars

\* The list is sound and sorted at every moment.
LEMMA ListInvariant == Spec => []ListInv
<1>1. Init => ListInv
  <2> SUFFICES ASSUME Init PROVE ListInv
    OBVIOUS
  <2>1. list = <<>> /\ node_count = 0 /\ rule = "RSSI_SORT"
    BY DEF Init, ListInit
  <2>2. list \in Seq(Node) /\ Len(list) = 0 /\ 1 .. Len(list) = {} /\ NodeMax \in Nat
    BY <2>1, ListAssumption
  <2> QED
    BY <2>1, <2>2 DEF ListInv, ListSound, Sorted
<1>2. ListInv /\ [Next]_vars => ListInv'
  BY ListStep, StepOfList
<1> QED
  BY <1>1, <1>2, PTL DEF Spec

\* node_count, counted by hand, is the length of the list; the list stays
\* within its limit and has one node per access point.
THEOREM ScanListSound == Spec => []ListSound
<1>1. ListInv => ListSound
  BY DEF ListInv
<1> QED
  BY <1>1, ListInvariant, PTL

\* A report costs at most one live access point and, under RSSI_SORT, the
\* weakest.
THEOREM ScanLosesTheWeakest == Spec => ReportLosesTheWeakest
<1>1. ASSUME ListInv PROVE LosesTheWeakest
  <2> SUFFICES ASSUME NEW b \in Bssid, NEW r \in Rssi, enable, Update(b, r)
               PROVE  /\ \E n \in Elems(list') : n.bssid = b /\ n.rssi = r /\ n.age = 0
                      /\ \A m, n \in Elems(list) :
                           /\ Lost(m) /\ Lost(n) => m = n
                           /\ (rule = "RSSI_SORT" /\ Lost(n) /\ m.age < LifeTime) => n.rssi <= m.rssi
    BY DEF LosesTheWeakest
  <2> DEFINE left == TimedOut(list).left
             p == Updated(b, r).list
  <2>1. list' = p
    BY DEF Update
  <2>2. /\ \E k \in 1 .. Len(p) : p[k].bssid = b /\ p[k].rssi = r /\ p[k].age = 0
        /\ \A i \in 1 .. Len(left) :
              \/ i = Len(left)
              \/ left[i].bssid = b
              \/ \E k \in 1 .. Len(p) : p[k] = left[i]
    BY <1>1, UpdatedList
  <2>3. /\ left \in Seq(Node) /\ (rule = "RSSI_SORT" => Sorted(left))
        /\ \A n \in Elems(list) : n.age < LifeTime => \E i \in 1 .. Len(left) : left[i] = n
    BY <1>1, TimedOutList
  <2> HIDE DEF left, p
  <2>4. \E n \in Elems(list') : n.bssid = b /\ n.rssi = r /\ n.age = 0
    BY <2>1, <2>2 DEF Elems
  <2>5. ASSUME NEW n \in Elems(list), Lost(n)
        PROVE  Len(left) \in 1 .. Len(left) /\ n = left[Len(left)]
    <3>1. n.age < LifeTime /\ \A k \in 1 .. Len(p) : p[k].bssid # n.bssid
      BY <2>1, <2>5 DEF Lost, Elems
    <3>2. PICK i \in 1 .. Len(left) : left[i] = n
      BY <2>3, <3>1
    <3>3. n.bssid # b
      BY <2>2, <3>1
    <3>4. ~\E k \in 1 .. Len(p) : p[k] = left[i]
      BY <3>1, <3>2
    <3> QED
      BY <2>2, <3>2, <3>3, <3>4
  <2>6. ASSUME NEW m \in Elems(list), NEW n \in Elems(list), rule = "RSSI_SORT", Lost(n),
               m.age < LifeTime
        PROVE  n.rssi <= m.rssi
    <3>1. PICK j \in 1 .. Len(left) : left[j] = m
      BY <2>3, <2>6
    <3>2. Len(left) \in 1 .. Len(left) /\ n = left[Len(left)]
      BY <2>5, <2>6
    <3>3. j = Len(left) \/ j < Len(left)
      BY <2>3
    <3>4. m.rssi \in Int
      BY <2>3, <3>1, NodeFacts
    <3> QED
      BY <2>3, <2>6, <3>1, <3>2, <3>3, <3>4 DEF Sorted
  <2> QED
    BY <2>4, <2>5, <2>6
<1>2. ListInv /\ [Next]_vars => [LosesTheWeakest]_vars
  BY <1>1
<1> QED
  BY <1>2, ListInvariant, PTL DEF Spec, ReportLosesTheWeakest

----------------------------------------------------------------------------
(* AT+CWLAP and the Wi-Fi task.                                            *)

\* From AtDisable to AtEnable no report enters the list.
WalkInv == at \in {"get", "walk"} => ~enable

\* Time leaves the nodes in their cells.
LEMMA AgeKeepsCells ==
  ASSUME ListInv, Age
  PROVE  Cells(list') = Cells(list)
<1>1. Len(list) \in Nat /\ \A k \in 1 .. Len(list) : list[k] \in Node
  BY NodeFacts DEF ListInv
<1>2. list' = [i \in 1 .. Len(list) |->
                 [list[i] EXCEPT !.age = IF @ < LifeTime THEN @ + 1 ELSE @]]
  BY DEF Age
<1>3. \A i \in 1 .. Len(list) : list'[i].cell = list[i].cell
  BY <1>1, <1>2 DEF Node
<1>4. 1 .. Len(list') = 1 .. Len(list)
  BY <1>1, <1>2
<1> QED
  BY <1>3, <1>4 DEF Cells, Elems

\* Reports are kept out from AtDisable to AtEnable.
LEMMA WalkInvariant == Spec => []WalkInv
<1>1. Init => WalkInv
  BY DEF Init, WalkInv
<1>2. WalkInv /\ [Next]_vars => WalkInv'
  <2> SUFFICES ASSUME WalkInv, [Next]_vars PROVE WalkInv'
    OBVIOUS
  <2>1. CASE AtCreate \/ AtRegister \/ AtStatus \/ AtIssue
    BY <2>1 DEF AtCreate, AtRegister, AtStatus, AtIssue, WalkInv
  <2>2. CASE AtWait \/ AtWaitNull \/ AtDisable
    BY <2>2 DEF AtWait, AtWaitNull, NextScan, AtDisable, UpdateEnable, WalkInv
  <2>3. CASE AtGet \/ AtWalk \/ AtWalkFreed \/ AtEnable
    BY <2>3 DEF AtGet, GetApList, AtWalk, AtWalkFreed, AtEnable, listVars, WalkInv
  <2>4. CASE AtUnregister \/ AtDelete \/ AtForget \/ AtCleanup
    BY <2>4 DEF AtUnregister, AtDelete, AtForget, AtCleanup, WalkInv
  <2>5. CASE ScanReport \/ SetRule \/ Tick
    BY <2>5 DEF ScanReport, Update, SetRule, SetSortRule, Tick, Age, atVars, WalkInv
  <2>6. CASE WifiTask \/ StaConnected \/ StaDisconnected
    BY <2>6 DEF WifiTask, ScanComplete, ScanCallback, ScanRelease, StaConnected, Cleanup,
                StaDisconnected, listVars, atVars, WalkInv
  <2>7. CASE UNCHANGED vars
    BY <2>7 DEF vars, listVars, atVars, WalkInv
  <2> QED
    BY <2>1, <2>2, <2>3, <2>4, <2>5, <2>6, <2>7 DEF Next, AtCommand
<1> QED
  BY <1>1, <1>2, PTL DEF Spec

\* While output_ap_list walks the list without its mutex, nothing frees the
\* node it stands on but the cleanup of a connecting station and a change of
\* the sort rule.
THEOREM ScanWalkLosesOnlyToCleanup == Spec => WalkLosesOnlyToCleanup
<1> DEFINE Kept == at = "walk" /\ cursor \in Cells(list) =>
                     cursor \in Cells(list') \/ StaConnected \/ SetRule
<1>1. ListInv /\ WalkInv /\ [Next]_vars => [Kept]_vars
  <2> SUFFICES ASSUME ListInv, WalkInv, Next, at = "walk", cursor \in Cells(list)
               PROVE  cursor \in Cells(list') \/ StaConnected \/ SetRule
    OBVIOUS
  <2>0. cursor # 0
    <3>1. \A k \in 1 .. Len(list) : list[k] \in Node
      BY NodeFacts DEF ListInv
    <3>2. \A n \in Node : n.cell # 0
      BY ListAssumption DEF Node, Cell
    <3> QED
      BY <3>1, <3>2 DEF Cells, Elems
  <2>1. CASE AtCreate \/ AtCommand
    BY <2>0, <2>1 DEF AtCreate, AtCommand, AtRegister, AtStatus, AtIssue, AtWait, AtWaitNull,
                AtDisable, AtGet, AtWalk, AtWalkFreed, AtEnable, UpdateEnable, AtUnregister,
                AtDelete, AtForget, AtCleanup, listVars
  <2>2. CASE ScanReport
    BY <2>2 DEF ScanReport, Update, WalkInv
  <2>3. CASE WifiTask \/ StaDisconnected
    BY <2>3 DEF WifiTask, ScanComplete, ScanCallback, ScanRelease, StaDisconnected, listVars
  <2>4. CASE Tick
    BY <2>4, AgeKeepsCells DEF Tick
  <2> QED
    BY <2>1, <2>2, <2>3, <2>4 DEF Next
<1> QED
  BY <1>1, ListInvariant, WalkInvariant, PTL DEF Spec, WalkLosesOnlyToCleanup

\* The callback is registered only between AtRegister and AtUnregister, or for
\* ever after a fault; the global is set only while the semaphore lives, but
\* for the moment between AtDelete and AtForget.
SemInv ==
  /\ event_cb => at \in {"status", "issue", "wait", "disable", "get", "walk", "unregister", "fault"}
  /\ sem_scan => at \notin {"cleanup", "idle"}
  /\ sem_scan /\ at # "forget" => sem \in {"0", "1"}

\* The global points to a deleted semaphore only between the two statements
\* that delete it and forget it, and no callback begins in between.
THEOREM ScanDeadSemaphoreWindow == Spec => []DeadSemaphoreWindow
<1>1. Init => SemInv
  BY DEF Init, SemInv
<1>2. SemInv /\ [Next]_vars => SemInv'
  <2> SUFFICES ASSUME SemInv, [Next]_vars PROVE SemInv'
    OBVIOUS
  <2>1. CASE AtCreate \/ AtRegister \/ AtStatus \/ AtIssue
    BY <2>1 DEF AtCreate, AtRegister, AtStatus, AtIssue, SemInv
  <2>2. CASE AtWait \/ AtWaitNull \/ AtDisable
    <3>1. CASE AtWait
      <4>1. at' \in {"issue", "disable"} /\ at = "wait"
        BY <3>1 DEF AtWait, NextScan
      <4>2. sem' \in {"0", "1"}
        BY <3>1 DEF AtWait, SemInv
      <4>3. UNCHANGED <<sem_scan, event_cb>>
        BY <3>1 DEF AtWait
      <4>4. (event_cb => at \in {"status", "issue", "wait", "disable", "get", "walk", "unregister", "fault"})'
        BY <4>1, <4>3 DEF SemInv
      <4>5. (sem_scan => at \notin {"cleanup", "idle"})' /\ (sem_scan /\ at # "forget" => sem \in {"0", "1"})'
        BY <4>1, <4>2
      <4> QED
        BY <4>4, <4>5 DEF SemInv
    <3>2. CASE AtWaitNull
      <4>1. at = "wait" /\ at' = "fault" /\ ~sem_scan /\ UNCHANGED <<sem_scan, event_cb>>
        BY <3>2 DEF AtWaitNull
      <4>2. ~sem_scan'
        BY <4>1
      <4> QED
        BY <4>1, <4>2 DEF SemInv
    <3>3. CASE AtDisable
      BY <3>3 DEF AtDisable, SemInv
    <3> QED
      BY <2>2, <3>1, <3>2, <3>3
  <2>3. CASE AtGet \/ AtWalk \/ AtWalkFreed \/ AtEnable
    <3>1. CASE AtGet \/ AtWalk
      BY <3>1 DEF AtGet, AtWalk, SemInv
    <3>2. CASE AtWalkFreed
      <4>1. at = "walk" /\ at' \in {"walk", "fault"} /\ UNCHANGED <<sem, sem_scan, event_cb>>
        BY <3>2 DEF AtWalkFreed
      <4> QED
        BY <4>1 DEF SemInv
    <3>3. CASE AtEnable
      BY <3>3 DEF AtEnable, SemInv
    <3> QED
      BY <2>3, <3>1, <3>2, <3>3
  <2>4. CASE AtUnregister \/ AtDelete \/ AtForget \/ AtCleanup
    <3>1. CASE AtUnregister \/ AtDelete
      BY <3>1 DEF AtUnregister, AtDelete, SemInv
    <3>2. CASE AtForget
      BY <3>2 DEF AtForget, SemInv
    <3>3. CASE AtCleanup
      BY <3>3 DEF AtCleanup, SemInv
    <3> QED
      BY <2>4, <3>1, <3>2, <3>3
  <2>5. CASE ScanReport \/ SetRule \/ Tick
    BY <2>5 DEF ScanReport, SetRule, Tick, atVars, SemInv
  <2>6. CASE WifiTask
    BY <2>6 DEF WifiTask, ScanComplete, ScanCallback, ScanRelease, atVars, SemInv
  <2>7. CASE StaConnected \/ StaDisconnected
    BY <2>7 DEF StaConnected, StaDisconnected, atVars, SemInv
  <2>8. CASE UNCHANGED vars
    BY <2>8 DEF vars, atVars, SemInv
  <2> QED
    BY <2>1, <2>2, <2>3, <2>4, <2>5, <2>6, <2>7, <2>8 DEF Next, AtCommand
<1>3. SemInv => DeadSemaphoreWindow
  BY DEF SemInv, DeadSemaphoreWindow
<1> QED
  BY <1>1, <1>2, <1>3, PTL DEF Spec
=============================================================================
