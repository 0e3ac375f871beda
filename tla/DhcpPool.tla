------------------------------ MODULE DhcpPool ------------------------------
(***************************************************************************)
(* The addresses that the DHCP server hands out, components/net/dhcpd:     *)
(* the pool of ip_allocator.c and the message handlers of dhcpd.c.  Two    *)
(* tasks change the pool: the server, which takes requests from its socket *)
(* one by one, and the Wi-Fi task, which releases the address of a station *)
(* that leaves (softap_disassociated of wifi_manager.c).                   *)
(*                                                                         *)
(* The stations are external: they follow RFC 2131, and retransmit; what   *)
(* they send and what they are sent may be lost.  Requests wait in the     *)
(* socket in the order in which they were sent.  Address i is that of      *)
(* entry i of the pool.                                                    *)
(***************************************************************************)
EXTENDS Integers, Sequences, FiniteSets

CONSTANTS
  Stations,      \* the MAC addresses of the stations
  ZeroMac,       \* the MAC address of an entry never used
  PoolSize,      \* MIN(DHCPD_IP_POOL_SIZE, client_max)
  SocketSize     \* requests that wait in the socket

ASSUME PoolAssumption ==
  /\ IsFiniteSet(Stations) /\ ZeroMac \notin Stations
  /\ PoolSize \in Nat \ {0}
  /\ SocketSize \in Nat \ {0}

VARIABLES
  mac,           \* ip_item->mac of an entry
  allocted,      \* ip_item->allocted
  socket,        \* the requests that wait
  assoc,         \* is the station associated?
  asked,         \* the request that the station waits for an answer to
  offered,       \* the address of the last OFFER that the station received
  lease          \* the address that the station uses, 0 for none

pool == <<mac, allocted>>
station == <<assoc, asked, offered, lease>>
poolVars == <<mac, allocted, socket, assoc, asked, offered, lease>>

Entry == 1 .. PoolSize

\* Messages; an address that is not of this pool is 0.
Msg(t, m, a) == [type |-> t, mac |-> m, ip |-> a]
NoMsg == Msg("none", ZeroMac, 0)
Requests ==
  [type : {"DISCOVER", "INFORM"}, mac : Stations, ip : {0}]
    \cup [type : {"REQUEST"}, mac : Stations, ip : 0 .. PoolSize]

Init ==
  /\ mac = [i \in Entry |-> ZeroMac]
  /\ allocted = [i \in Entry |-> FALSE]
  /\ socket = <<>>
  /\ assoc = [s \in Stations |-> FALSE]
  /\ asked = [s \in Stations |-> NoMsg]
  /\ offered = [s \in Stations |-> 0]
  /\ lease = [s \in Stations |-> 0]

----------------------------------------------------------------------------
(* ip_allocator.c                                                          *)

First(S) == CHOOSE i \in S : \A j \in S : i <= j

\* get_ip_item: the entries of a MAC address.
Own(m) == {i \in Entry : mac[i] = m}
Free == {i \in Entry : ~allocted[i]}
Virgin == {i \in Free : mac[i] = ZeroMac}

\* Mutant: the entries are handed out in order, whether or not they are offered.
UsableAnyFree(m) ==
  IF Own(m) # {} THEN Own(m) ELSE Free

\* get_next_usable_ip_item: the entry of the station, else one never used,
\* else one not allocated; the first of them.
Usable(m) ==
  IF Own(m) # {} THEN Own(m) ELSE IF Virgin # {} THEN Virgin ELSE Free

\* Mutant: a REQUEST does not allocate the entry.
AllocateNever(m, commit) ==
  LET i == First(Usable(m)) IN
  /\ Usable(m) # {}
  /\ mac' = [mac EXCEPT ![i] = m]
  /\ UNCHANGED allocted

\* dhcpd_ip_allocate: the entry gets the MAC address, and is marked as
\* allocated for a REQUEST.
Allocate(m, commit) ==
  LET i == First(Usable(m)) IN
  /\ Usable(m) # {}
  /\ mac' = [mac EXCEPT ![i] = m]
  /\ allocted' = [allocted EXCEPT ![i] = @ \/ commit]

\* dhcpd_ip_release: the entry keeps the MAC address.  There is no test for a
\* MAC address without an entry, whose release writes through a NULL pointer:
\* nothing happens, or see Fault.
Release(m) ==
  /\ allocted' = IF Own(m) = {} THEN allocted ELSE [allocted EXCEPT ![First(Own(m))] = FALSE]
  /\ UNCHANGED mac

----------------------------------------------------------------------------
(* The handlers of dhcpd.c.  A reply reaches the station at once or is     *)
(* lost; the station takes it only if it answers what it has asked for.    *)

Received(r) == assoc[r.mac] /\ asked[r.mac] = r

\* An OFFER of address i.
GetOffer(r, i) ==
  \/ UNCHANGED station
  \/ /\ Received(r)
     /\ offered' = [offered EXCEPT ![r.mac] = i]
     /\ UNCHANGED <<assoc, asked, lease>>

\* An ACK of the address that was requested.
GetAck(r) ==
  \/ UNCHANGED station
  \/ /\ Received(r)
     /\ lease' = [lease EXCEPT ![r.mac] = r.ip]
     /\ asked' = [asked EXCEPT ![r.mac] = NoMsg]
     /\ offered' = [offered EXCEPT ![r.mac] = 0]
     /\ UNCHANGED assoc

\* A NAK.
GetNak(r) ==
  \/ UNCHANGED station
  \/ /\ Received(r)
     /\ lease' = [lease EXCEPT ![r.mac] = 0]
     /\ asked' = [asked EXCEPT ![r.mac] = NoMsg]
     /\ offered' = [offered EXCEPT ![r.mac] = 0]
     /\ UNCHANGED assoc

\* do_discover.
DoDiscover(r) ==
  /\ r.type = "DISCOVER"
  /\ Allocate(r.mac, FALSE)
  /\ GetOffer(r, First(Usable(r.mac)))

\* do_inform: an entry is taken for the station, which has an address already.
DoInform(r) ==
  /\ r.type = "INFORM"
  /\ Allocate(r.mac, FALSE)
  /\ UNCHANGED station

\* do_request: an entry is allocated; if it is that of the address requested
\* the address is acknowledged, else the entry is released again.
DoRequestAck(r) ==
  /\ r.type = "REQUEST"
  /\ Allocate(r.mac, TRUE)
  /\ r.ip = First(Usable(r.mac))
  /\ GetAck(r)

DoRequestNak(r) ==
  LET i == First(Usable(r.mac)) IN
  /\ r.type = "REQUEST"
  /\ Usable(r.mac) # {}
  /\ r.ip # i
  /\ mac' = [mac EXCEPT ![i] = r.mac]
  /\ allocted' = [allocted EXCEPT ![i] = FALSE]
  /\ GetNak(r)

\* No entry is left: there is no answer.
UsedUp(r) ==
  /\ Usable(r.mac) = {}
  /\ UNCHANGED <<pool, station>>

\* dhcpd_handle_msg of the first request in the socket.
Handle ==
  /\ socket # <<>>
  /\ socket' = Tail(socket)
  /\ LET r == Head(socket) IN
     DoDiscover(r) \/ DoInform(r) \/ DoRequestAck(r) \/ DoRequestNak(r) \/ UsedUp(r)

----------------------------------------------------------------------------
(* The stations and the Wi-Fi task.                                        *)

Associate(s) ==
  /\ ~assoc[s]
  /\ assoc' = [assoc EXCEPT ![s] = TRUE]
  /\ UNCHANGED <<pool, socket, asked, offered, lease>>

\* What a station may ask for: with a lease, its renewal; without one, an
\* offer, an address that it was offered or remembers, or parameters only.
MayAsk(r) == lease[r.mac] # 0 => r = Msg("REQUEST", r.mac, lease[r.mac])

\* It asks again, or for something new, which has a transaction id that tells
\* it from what still waits in the socket.
Ask(r) ==
  /\ assoc[r.mac]
  /\ MayAsk(r)
  /\ r = asked[r.mac] \/ \A k \in DOMAIN socket : socket[k] # r
  /\ asked' = [asked EXCEPT ![r.mac] = r]
  /\ \/ UNCHANGED socket
     \/ Len(socket) < SocketSize /\ socket' = Append(socket, r)
  /\ UNCHANGED <<pool, assoc, offered, lease>>

\* The station sends a RELEASE or a DECLINE, which do_release and do_decline
\* ignore: its entry stays allocated.
GiveUp(s) ==
  /\ lease[s] # 0
  /\ lease' = [lease EXCEPT ![s] = 0]
  /\ asked' = [asked EXCEPT ![s] = NoMsg]
  /\ UNCHANGED <<pool, socket, assoc, offered>>

\* softap_disassociated: the station leaves, and its address is released.
\* Requests of it may still wait in the socket.
Disassociate(s) ==
  /\ assoc[s]
  /\ assoc' = [assoc EXCEPT ![s] = FALSE]
  /\ asked' = [asked EXCEPT ![s] = NoMsg]
  /\ offered' = [offered EXCEPT ![s] = 0]
  /\ lease' = [lease EXCEPT ![s] = 0]
  /\ Release(s)
  /\ UNCHANGED socket

\* Nobody is left, and nothing waits.
AllLeave ==
  /\ socket' = <<>>
  /\ assoc' = [s \in Stations |-> FALSE]
  /\ asked' = [s \in Stations |-> NoMsg]
  /\ offered' = [s \in Stations |-> 0]
  /\ lease' = [s \in Stations |-> 0]

\* A station without an entry leaves, and the NULL pointer of its release makes
\* the processor fault: the device is reset.
Fault(s) ==
  /\ assoc[s]
  /\ Own(s) = {}
  /\ mac' = [i \in Entry |-> ZeroMac]
  /\ allocted' = [i \in Entry |-> FALSE]
  /\ AllLeave

\* The soft AP is restarted: all stations leave, the socket is closed, and
\* dhcpd_start marks every entry as not allocated.
Restart ==
  /\ allocted' = [i \in Entry |-> FALSE]
  /\ AllLeave
  /\ UNCHANGED mac

Next ==
  \/ Handle
  \/ \E s \in Stations : Associate(s) \/ GiveUp(s) \/ Disassociate(s) \/ Fault(s)
  \/ \E r \in Requests : Ask(r)
  \/ Restart

Spec == Init /\ [][Next]_poolVars

----------------------------------------------------------------------------
(* Properties *)

TypeOK ==
  /\ mac \in [Entry -> Stations \cup {ZeroMac}]
  /\ allocted \in [Entry -> BOOLEAN]
  /\ socket \in Seq(Requests) /\ Len(socket) <= SocketSize
  /\ assoc \in [Stations -> BOOLEAN]
  /\ asked \in [Stations -> Requests \cup {NoMsg}]
  /\ offered \in [Stations -> 0 .. PoolSize]
  /\ lease \in [Stations -> 0 .. PoolSize]

\* No two stations use one address, whatever is lost, retransmitted or left
\* waiting in the socket by a station that comes and goes.
NoSharedAddress ==
  \A s, t \in Stations : lease[s] # 0 /\ lease[s] = lease[t] => s = t

\* An offer is not an allocation, and yet the offered address stays the
\* station's own until every address has been given to some station: only then
\* does get_next_usable_ip_item hand out what is offered and not yet requested.
OfferKept ==
  \A s \in Stations :
    offered[s] # 0 /\ mac[offered[s]] # s => \A i \in Entry : mac[i] # ZeroMac

\* The two facts behind NoSharedAddress.

\* get_ip_item and get_next_usable_ip_item stop at the first entry of a MAC
\* address, so there must not be a second one.
OneEntryPerMac ==
  \A i, j \in Entry : mac[i] = mac[j] /\ mac[i] # ZeroMac => i = j

\* The entry of an address in use is allocated to the station that uses it.
LeaseHeld ==
  \A s \in Stations : lease[s] # 0 => mac[lease[s]] = s /\ allocted[lease[s]]

=============================================================================
