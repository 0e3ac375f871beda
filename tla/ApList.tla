------------------------------- MODULE ApList -------------------------------
(***************************************************************************)
(* The list of access points found by a scan, ap_info_list_ctrl of         *)
(* components/wifi/wifi_manager/wifi_manager.c.  Every operation below     *)
(* runs under the list's mutex and is one step; what a caller does with    *)
(* the pointer it was given by wifi_manager_get_ap_list is not under the   *)
(* mutex (see AtScan).                                                     *)
(*                                                                         *)
(* A node has the memory cell it occupies, and the age of its report in    *)
(* place of life_ticks: the code only looks at OS_GetTicks() - life_ticks, *)
(* a difference of uint32_t that is exact for 49 days.  Ages stop at       *)
(* LifeTime, beyond which all are alike.  update_ticks is never read and   *)
(* is left out.  A malloc that fails leaves everything as it was.          *)
(***************************************************************************)
EXTENDS Integers, Sequences, FiniteSets, SequencesExt

CONSTANTS
  Bssid,         \* access points
  Rssi,          \* signal strengths
  NodeMax,       \* AP_LIST_NODE_MAX
  LifeTime       \* AP_INFO_LIFETIME, in units of Tick

ASSUME ListAssumption ==
  /\ IsFiniteSet(Bssid) /\ Rssi \subseteq Int
  /\ NodeMax \in Nat \ {0} /\ LifeTime \in Nat \ {0}

VARIABLES
  list,          \* the nodes from head.next to head.prev
  node_count,
  rule,
  enable

listVars == <<list, node_count, rule, enable>>

\* malloc hands out a free cell: the list and the new node never need more.
Cell == 1 .. NodeMax + 2

Elems(l) == {l[i] : i \in 1 .. Len(l)}
Cells(l) == {n.cell : n \in Elems(l)}

\* ap_info_list_init
ListInit ==
  /\ list = <<>>
  /\ node_count = 0
  /\ rule = "RSSI_SORT"
  /\ enable = TRUE

\* The nodes that stay when the others are taken out, by their positions.
Keep(l, S) ==
  [k \in 1 .. Cardinality(S) |-> l[CHOOSE i \in S : Cardinality({j \in S : j <= i}) = k]]

\* ap_list_remove_life_timeout_node: the nodes left, and how many went.
TimedOut(l) ==
  LET left == Keep(l, {i \in 1 .. Len(l) : l[i].age < LifeTime})
  IN  [left |-> left, gone |-> Len(l) - Len(left)]

\* The search of ap_info_list_update under RSSI_SORT: the first node that is not
\* stronger; behind the last one when there is none.
Place(l, r) ==
  LET weaker == {i \in 1 .. Len(l) : r >= l[i].rssi}
  IN  IF weaker = {} THEN Len(l) + 1
      ELSE CHOOSE i \in weaker : \A j \in weaker : i <= j

\* ln_list_add puts the node first, ln_list_insert in front of another one.
Added(l, n) ==
  IF rule = "NORMAL_SORT" THEN <<n>> \o l
  ELSE InsertAt(l, Place(l, n.rssi), n)

\* Mutant: the strongest node is given up when the list is full.
EvictedFirst(l, count) == IF count >= NodeMax THEN Tail(l) ELSE l

\* A full list loses its last node, also for a report about a listed BSSID.
Evicted(l, count) == IF count >= NodeMax THEN Front(l) ELSE l

\* Mutant: a report about a known BSSID does not replace it.
WithoutNone(l, b) == l

\* "lookup the same info node, romve it."
Without(l, b) == Keep(l, {i \in 1 .. Len(l) : l[i].bssid # b})

\* ap_info_list_update, with node_count kept as the code does: ++ and -- beside
\* the list operations.  Only an empty list skips eviction and search.
Updated(b, r) ==
  LET new   == [cell |-> CHOOSE c \in Cell \ Cells(list) : TRUE,
                bssid |-> b, rssi |-> r, age |-> 0]
      live  == TimedOut(list)
      room  == Evicted(live.left, node_count - live.gone)
      other == Without(room, b)
  IN  IF live.left = <<>>
      THEN [list |-> <<new>>, gone |-> live.gone]
      ELSE [list |-> Added(other, new),
            gone |-> live.gone + (Len(live.left) - Len(room)) + (Len(room) - Len(other))]

\* Mutant: a report enters the list while it is read.
UpdateAlways(b, r) ==
  /\ list' = Updated(b, r).list
  /\ node_count' = node_count - Updated(b, r).gone + 1
  /\ UNCHANGED <<rule, enable>>

Update(b, r) ==
  /\ IF enable
     THEN /\ list' = Updated(b, r).list
          /\ node_count' = node_count - Updated(b, r).gone + 1
     ELSE UNCHANGED <<list, node_count>>
  /\ UNCHANGED <<rule, enable>>

\* wifi_manager_cleanup_scan_results
Cleanup ==
  /\ list' = <<>>
  /\ node_count' = node_count - Len(list)
  /\ UNCHANGED <<rule, enable>>

\* wifi_manager_ap_list_update_enable
UpdateEnable(en) ==
  /\ enable' = en
  /\ UNCHANGED <<list, node_count, rule>>

\* wifi_manager_set_ap_list_sort_rule
SetSortRule(r) ==
  /\ rule' = r
  /\ IF rule # r
     THEN list' = <<>> /\ node_count' = node_count - Len(list)
     ELSE UNCHANGED <<list, node_count>>
  /\ UNCHANGED enable

\* wifi_manager_get_ap_list: what the caller is handed is list'.
GetApList ==
  /\ list' = TimedOut(list).left
  /\ node_count' = node_count - TimedOut(list).gone
  /\ UNCHANGED <<rule, enable>>

\* Time passes (OS_GetTicks).
Age ==
  /\ list' = [i \in 1 .. Len(list) |->
                [list[i] EXCEPT !.age = IF @ < LifeTime THEN @ + 1 ELSE @]]
  /\ UNCHANGED <<node_count, rule, enable>>

----------------------------------------------------------------------------
\* Properties

\* node_count, which the code counts by hand at eight places, is the length of
\* the list; the list never outgrows its limit, and has one node per access
\* point (ap_info_list_update, wifi_manager.c:84).
ListSound ==
  /\ node_count = Len(list)
  /\ Len(list) <= NodeMax
  /\ \A i, j \in 1 .. Len(list) : list[i].bssid = list[j].bssid => i = j

\* Is n of the old list lost to a report although it has not expired?
Lost(n) == n.age < LifeTime /\ \A k \in Elems(list') : k.bssid # n.bssid

\* A report that enters the list costs at most one live node, and under
\* RSSI_SORT the weakest one.
LosesTheWeakest ==
  \A b \in Bssid, r \in Rssi :
    enable /\ Update(b, r) =>
      /\ \E n \in Elems(list') : n.bssid = b /\ n.rssi = r /\ n.age = 0
      /\ \A m, n \in Elems(list) :
           /\ Lost(m) /\ Lost(n) => m = n
           /\ (rule = "RSSI_SORT" /\ Lost(n) /\ m.age < LifeTime) => n.rssi <= m.rssi

=============================================================================
