------------------------------ MODULE BleBond ------------------------------
(***************************************************************************)
(* The bonds of the BLE application, components/ble/ble_app: the pair list *)
(* of ln_ble_device_manager.c, its copy in the key/value store             *)
(* (ln_ble_app_kv.c), and the handlers of the connection manager and of    *)
(* the security manager that use it.                                       *)
(*                                                                         *)
(* pair_list_dev[i].mru is 0 for a free slot, 1 for the device used last,  *)
(* MaxBonds for the one that is given up next.  A long term key stands for *)
(* ltk, ediv and randnb together; a new one is random, so it differs from  *)
(* every key in use, as long as KeyMax allows. The handlers run in the BLE *)
(* task and are one step each; ln_kv_set is atomic (see KvStore) but may   *)
(* fail, and its result is ignored.  The stack and the peers are external: *)
(* a peer remembers the key of its last successful pairing, and may forget *)
(* it.  Identity keys are not distributed (ikey_dist is GAP_KDIST_NONE);   *)
(* conn_num only decides about advertising.                                *)
(***************************************************************************)
EXTENDS Integers, FiniteSets

CONSTANTS
  Peer,          \* the addresses of the peers
  NoAddr,        \* the address of a slot cleared by memset
  MaxBonds,      \* MAX_DEV_BOND_MUN
  Conn,          \* connection indexes
  NoKey,         \* a key cleared by memset
  KeyMax         \* bound: keys that are told apart

ASSUME BondAssumption ==
  /\ IsFiniteSet(Peer) /\ NoAddr \notin Peer
  /\ MaxBonds \in Nat \ {0}
  /\ NoKey = 0 /\ KeyMax \in Nat \ {0}

Slot == 1 .. MaxBonds

VARIABLES
  addr, ltk, mru,      \* g_bt_usr_data.pair_list_dev
  stored,              \* the same in the key/value store
  peer,                \* con_env[c].dev_remote.addr, NoAddr when not connected
  is_bonded,           \* con_env[c].is_bonded
  con_ltk,             \* con_env[c].dev_remote.ltk
  keyed,               \* has the pairing under way on c exchanged its key?
  resetting,           \* how far a factory reset is: "no", "memory", "store"
  peerKey,             \* the key that the peer remembers
  agreed               \* history: the peers whose last pairing put its key into
                       \* the list and the store

pairList == <<addr, ltk, mru>>
conVars == <<peer, is_bonded, con_ltk, keyed>>
bondVars == <<pairList, stored, conVars, resetting, peerKey, agreed>>

Empty ==
  [addr |-> [i \in Slot |-> NoAddr],
   ltk  |-> [i \in Slot |-> NoKey],
   mru  |-> [i \in Slot |-> 0]]

\* ln_ble_conn_mgr_init
ConInit ==
  /\ peer = [c \in Conn |-> NoAddr]
  /\ is_bonded = [c \in Conn |-> FALSE]
  /\ con_ltk = [c \in Conn |-> NoKey]
  /\ keyed = [c \in Conn |-> FALSE]

Init ==
  /\ addr = Empty.addr /\ ltk = Empty.ltk /\ mru = Empty.mru
  /\ stored = Empty
  /\ ConInit
  /\ resetting = "no"
  /\ peerKey = [p \in Peer |-> NoKey]
  /\ agreed = {}

----------------------------------------------------------------------------
(* ln_ble_device_manager.c *)

First(S) == CHOOSE i \in S : \A j \in S : i <= j

\* ln_ble_dev_is_exist
Exists(a) == \E i \in Slot : addr[i] = a /\ mru[i] # 0

\* ln_ble_get_index_by_addr, ln_ble_get_dev_by_addr: the slots of an address;
\* the code takes the first one.
OfAddr(a) == {i \in Slot : addr[i] = a}

\* "if device null can be insert, or device is last dev can be cover"
Room == {i \in Slot : mru[i] = 0 \/ mru[i] = MaxBonds}

\* Mutant: a slot that is not the last one is overwritten.
NewSlotAny(a) == First(IF OfAddr(a) # {} THEN OfAddr(a) ELSE Slot)

NewSlot(a) == First(IF OfAddr(a) # {} THEN OfAddr(a) ELSE Room)

\* ln_ble_dev_upadte_mru with BLE_DEVICE_ADD, _UPDATE and _DELETE.
MruAdd(idx) ==
  [i \in Slot |-> IF i = idx THEN 1
                  ELSE IF mru[i] = 0 THEN 0
                  ELSE IF mru[i] + 1 > MaxBonds THEN 0 ELSE mru[i] + 1]

\* Mutant: every device moves back, also those behind the one used.
MruUpdateAll(idx) ==
  [i \in Slot |-> IF i = idx THEN 1
                  ELSE IF mru[i] = 0 THEN 0 ELSE mru[i] + 1]

MruUpdate(idx) ==
  [i \in Slot |-> IF i = idx THEN 1
                  ELSE IF mru[i] # 0 /\ mru[i] < mru[idx] THEN mru[i] + 1 ELSE mru[i]]

\* Mutant: the devices behind the deleted one do not move up.
MruDeleteOnly(idx) == [mru EXCEPT ![idx] = 0]

MruDelete(idx) ==
  [i \in Slot |-> IF i = idx THEN 0
                  ELSE IF mru[i] > mru[idx] THEN mru[i] - 1 ELSE mru[i]]

\* The list as it is in memory.
List == [addr |-> addr, ltk |-> ltk, mru |-> mru]

\* ln_kv_ble_usr_data_store, of the list as it is after the step.
Store == stored' = List' \/ UNCHANGED stored

\* Mutant: a device in the list is entered a second time.
InsertTwice(a, k) ==
  LET idx == First(Room)
  IN  /\ addr' = [addr EXCEPT ![idx] = a]
      /\ ltk' = [ltk EXCEPT ![idx] = k]
      /\ mru' = MruAdd(idx)
      /\ Store

\* ln_ble_dev_insert: a device in the list is only moved to the front.
Insert(a, k) ==
  IF Exists(a)
  THEN LET idx == First(OfAddr(a))
       IN  /\ UNCHANGED <<addr, ltk>>
           /\ IF mru[idx] > 1
              THEN mru' = MruUpdate(idx) /\ Store
              ELSE UNCHANGED <<mru, stored>>
  ELSE LET idx == NewSlot(a)
       IN  /\ addr' = [addr EXCEPT ![idx] = a]
           /\ ltk' = [ltk EXCEPT ![idx] = k]
           /\ mru' = MruAdd(idx)
           /\ Store

\* ln_ble_dev_delete, of a device in the list.
Delete(a) ==
  /\ Exists(a)
  /\ LET idx == First(OfAddr(a))
     IN  /\ addr' = [addr EXCEPT ![idx] = NoAddr]
         /\ ltk' = [ltk EXCEPT ![idx] = NoKey]
         /\ mru' = MruDelete(idx)
         /\ Store
  /\ UNCHANGED <<conVars, resetting, peerKey, agreed>>

----------------------------------------------------------------------------
(* The handlers of the connection manager and of the security manager *)

\* The test of ln_ble_conn_mgr_env_update: a device in the list, but not the
\* last one of a full list.
Known(p) ==
  /\ OfAddr(p) # {}
  /\ mru[First(OfAddr(p))] > 0 /\ mru[First(OfAddr(p))] < MaxBonds

\* ln_ble_conn_req_ind_handler and ln_ble_conn_mgr_env_update
Connect(c, p) ==
  /\ peer[c] = NoAddr /\ \A d \in Conn : peer[d] # p
  /\ peer' = [peer EXCEPT ![c] = p]
  /\ is_bonded' = [is_bonded EXCEPT ![c] = Known(p)]
  /\ con_ltk' = [con_ltk EXCEPT ![c] =
                   IF Known(p) THEN ltk[First(OfAddr(p))] ELSE NoKey]
  /\ IF Known(p) THEN Insert(p, ltk[First(OfAddr(p))]) ELSE UNCHANGED <<pairList, stored>>
  /\ UNCHANGED <<keyed, resetting, peerKey, agreed>>

\* ln_ble_disc_ind_handler
Disconnect(c) ==
  /\ peer[c] # NoAddr
  /\ peer' = [peer EXCEPT ![c] = NoAddr]
  /\ is_bonded' = [is_bonded EXCEPT ![c] = FALSE]
  /\ con_ltk' = [con_ltk EXCEPT ![c] = NoKey]
  /\ keyed' = [keyed EXCEPT ![c] = FALSE]
  /\ UNCHANGED <<pairList, stored, resetting, peerKey, agreed>>

\* A key that is not in use: co_rand_word.
KeysInUse ==
  {ltk[i] : i \in Slot} \cup {stored.ltk[i] : i \in Slot}
    \cup {con_ltk[c] : c \in Conn} \cup {peerKey[p] : p \in Peer}
FreshKey == CHOOSE k \in 1 .. KeyMax : k \notin KeysInUse \/ 1 .. KeyMax \subseteq KeysInUse

\* Mutant: the device is inserted when the keys are exchanged, before the pairing
\* has succeeded (the lines that are commented out at ln_ble_smp.c:179).
LtkExchInserts(c) ==
  /\ peer[c] # NoAddr /\ ~keyed[c]
  /\ con_ltk' = [con_ltk EXCEPT ![c] = FreshKey]
  /\ keyed' = [keyed EXCEPT ![c] = TRUE]
  /\ Insert(peer[c], FreshKey)
  /\ UNCHANGED <<peer, is_bonded, resetting, peerKey, agreed>>

\* GAPC_LTK_EXCH of ln_smp_bond_req_ind_handler: the key goes to con_env at once.
LtkExch(c) ==
  /\ peer[c] # NoAddr /\ ~keyed[c]
  /\ con_ltk' = [con_ltk EXCEPT ![c] = FreshKey]
  /\ keyed' = [keyed EXCEPT ![c] = TRUE]
  /\ UNCHANGED <<pairList, stored, peer, is_bonded, resetting, peerKey, agreed>>

\* GAPC_PAIRING_SUCCEED of ln_smp_bond_ind_handler, with ltk_present.
PairingSucceed(c) ==
  /\ keyed[c]
  /\ Insert(peer[c], con_ltk[c])
  /\ is_bonded' = [is_bonded EXCEPT ![c] = TRUE]
  /\ keyed' = [keyed EXCEPT ![c] = FALSE]
  /\ peerKey' = [peerKey EXCEPT ![peer[c]] = con_ltk[c]]
  /\ agreed' = IF ~Exists(peer[c]) /\ stored' = List'
               THEN agreed \cup {peer[c]} ELSE agreed \ {peer[c]}
  /\ UNCHANGED <<peer, con_ltk, resetting>>

\* GAPC_PAIRING_FAILED: nothing is done; con_env keeps the key.
PairingFailed(c) ==
  /\ keyed[c]
  /\ keyed' = [keyed EXCEPT ![c] = FALSE]
  /\ UNCHANGED <<pairList, stored, peer, is_bonded, con_ltk, resetting, peerKey, agreed>>

\* The answer of ln_smp_encrypt_req_ind_handler to a request with the peer's key.
Found(c, p) == is_bonded[c] /\ con_ltk[c] = peerKey[p]

----------------------------------------------------------------------------
(* The AT task, power, and the peers *)

\* ln_kv_ble_factory_reset: the list in memory,
FactoryReset ==
  /\ resetting = "no"
  /\ addr' = Empty.addr /\ ltk' = Empty.ltk /\ mru' = Empty.mru
  /\ resetting' = "memory"
  /\ UNCHANGED <<stored, conVars, peerKey, agreed>>

\* and the one in the store, where the delete may fail as well;
\* ln_at_exec_bt_soft_factory_reset then reboots.
FactoryDelete ==
  /\ resetting = "memory"
  /\ stored' = Empty \/ UNCHANGED stored
  /\ resetting' = "store"
  /\ UNCHANGED <<pairList, conVars, peerKey, agreed>>

\* ln_chip_reboot, or a power loss, at any time; ln_kv_ble_user_data_load.
Reboot ==
  /\ addr' = stored.addr /\ ltk' = stored.ltk /\ mru' = stored.mru
  /\ peer' = [c \in Conn |-> NoAddr]
  /\ is_bonded' = [c \in Conn |-> FALSE]
  /\ con_ltk' = [c \in Conn |-> NoKey]
  /\ keyed' = [c \in Conn |-> FALSE]
  /\ resetting' = "no"
  /\ UNCHANGED <<stored, peerKey, agreed>>

PeerForgets(p) ==
  /\ peerKey[p] # NoKey
  /\ peerKey' = [peerKey EXCEPT ![p] = NoKey]
  /\ UNCHANGED <<pairList, stored, conVars, resetting, agreed>>

Next ==
  \/ \E c \in Conn, p \in Peer : Connect(c, p)
  \/ \E c \in Conn : Disconnect(c) \/ LtkExch(c) \/ PairingSucceed(c) \/ PairingFailed(c)
  \/ \E p \in Peer : Delete(p) \/ PeerForgets(p)
  \/ FactoryReset \/ FactoryDelete \/ Reboot

Spec == Init /\ [][Next]_bondVars

----------------------------------------------------------------------------
\* Properties

\* The slots in use are ranked without gaps or ties from the device used last:
\* the order that decides which bond is given up (ln_ble_dev_upadte_mru).
Ranking(m) ==
  /\ \A i, j \in Slot : m[i] # 0 /\ m[i] = m[j] => i = j
  /\ \A i \in Slot : \A k \in 1 .. m[i] : \E j \in Slot : m[j] = k

\* The ranks are in order after every sequence of insertions, uses, deletions,
\* failed stores, resets and reboots, in memory and in the store.
MruRanked == Ranking(mru) /\ Ranking(stored.mru)

\* No address has two slots, and the free slots are those without an address.
OneSlot(a, m) ==
  /\ \A i, j \in Slot : a[i] # NoAddr /\ a[i] = a[j] => i = j
  /\ \A i \in Slot : a[i] = NoAddr <=> m[i] = 0

\* A peer has one slot, which is in use, in memory and in the store: a lookup takes
\* the first slot of an address, used or not (ln_ble_device_manager.c:67).
OneSlotPerPeer == OneSlot(addr, mru) /\ OneSlot(stored.addr, stored.mru)

\* There is always a slot for a new device: were there none, dev_index would stay
\* DEV_LIST_INVAILD_INDEX, 255, and memcpy would write far behind the list.
SlotForNewDevice == Room # {}

\* Is the bond of p given up in this step?
Dropped(p) == Exists(p) /\ ~Exists(p)'

\* An insertion gives up no bond but the one that was not used for the longest
\* time, and that one only when the list is full.
InsertDropsTheLast ==
  [][\A c \in Conn, p, q \in Peer :
       /\ Connect(c, q) => ~Dropped(p)
       /\ (PairingSucceed(c) /\ peer[c] = q /\ Dropped(p)) =>
            /\ \A i \in Slot : mru[i] # 0
            /\ mru[First(OfAddr(p))] = MaxBonds]_bondVars

\* A peer of the list that still has its key is answered with that key when it
\* connects again and asks for encryption (con_env is filled from the list,
\* ln_ble_connection_manager.c:194), whatever was paired, given up, deleted,
\* reset, rebooted or not stored since.  Only three things can set list and peer
\* apart: its last pairing found it in the list, whose key ln_ble_dev_insert then
\* leaves alone (ln_ble_device_manager.c:121); that pairing was not stored; or it
\* is the last device of a full list, which line 195 treats as unknown.
ReconnectsEncrypted ==
  [][\A c \in Conn, p \in Peer :
       Connect(c, p) /\ Exists(p) /\ p \in agreed /\ peerKey[p] # NoKey =>
         Found(c, p)' \/ mru[First(OfAddr(p))] = MaxBonds]_bondVars

=============================================================================
