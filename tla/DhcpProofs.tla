----------------------------- MODULE DhcpProofs -----------------------------
(***************************************************************************)
(* Proofs about the DHCP server.  The pool: no two stations use one        *)
(* address, for every number of stations and entries and every length of   *)
(* the socket's queue.  The task: two servers serve at once only after two *)
(* controllers have both passed the test of the flag.                      *)
(***************************************************************************)
EXTENDS DhcpPool, DhcpdTask, FiniteSetTheorems, WellFoundedInduction, TLAPS

----------------------------------------------------------------------------
(* The pool.                                                               *)

\* An entry that is allocated belongs to a station.
AllocatedHasMac == \A i \in Entry : allocted[i] => mac[i] # ZeroMac

\* A transaction id tells what a station asks for now from what it asked for
\* before: behind the first copy of the present request there are only copies.
CopiesBehind ==
  \A i, j \in DOMAIN socket :
    i < j /\ socket[i].mac = socket[j].mac /\ socket[i] = asked[socket[i].mac]
      => socket[j] = socket[i]

\* What a station with a lease has asked for, and what of it still waits in
\* the socket, is its renewal: the server will not answer it with a NAK, which
\* would free the entry under the station.
OnlyRenewals ==
  \A s \in Stations : lease[s] # 0 =>
    /\ asked[s] \in {NoMsg, Msg("REQUEST", s, lease[s])}
    /\ \A k \in DOMAIN socket : socket[k].mac = s => socket[k] = Msg("REQUEST", s, lease[s])

\* A station asks in its own name.
AsksForItself == \A s \in Stations : asked[s] # NoMsg => asked[s].mac = s

\* The inductive invariant of the pool.
PoolInv ==
  /\ TypeOK
  /\ AllocatedHasMac
  /\ AsksForItself
  /\ CopiesBehind
  /\ OnlyRenewals
  /\ OneEntryPerMac
  /\ LeaseHeld
  /\ OfferKept

\* The first entry of a set is in the set.
LEMMA FirstIn ==
  ASSUME NEW S \in SUBSET Entry, S # {}
  PROVE  First(S) \in S
<1>1. S \subseteq Nat
  BY PoolAssumption DEF Entry
<1>2. \E x \in S : \A y \in S : ~(<<y, x>> \in OpToRel(<, Nat))
  BY <1>1, NatLessThanWellFounded, WFMin
<1>3. \A x, y \in Nat : x < y => <<x, y>> \in OpToRel(<, Nat)
  BY DEF OpToRel
<1>4. \E x \in S : \A y \in S : ~(y < x)
  BY <1>1, <1>2, <1>3
<1>5. \E x \in S : \A y \in S : x <= y
  BY <1>1, <1>4
<1> QED
  BY <1>5 DEF First

\* What is in a request.
LEMMA RequestFacts ==
  ASSUME NEW r \in Requests
  PROVE  /\ r.mac \in Stations /\ r.ip \in 0 .. PoolSize
         /\ r # NoMsg
         /\ r = Msg(r.type, r.mac, r.ip)
         /\ r.type \in {"DISCOVER", "INFORM", "REQUEST"}
  BY PoolAssumption DEF Requests, NoMsg, Msg

\* The entry that is found for a station is its own, or one that no station
\* holds; one that another station had only if none was never used.
LEMMA UsableFacts ==
  ASSUME PoolInv, NEW m \in Stations, Usable(m) # {}
  PROVE  LET i == First(Usable(m)) IN
         /\ i \in Entry
         /\ mac[i] = m \/ (Own(m) = {} /\ ~allocted[i])
         /\ mac[i] \notin {m, ZeroMac} => \A j \in Entry : mac[j] # ZeroMac
<1> DEFINE i == First(Usable(m))
<1>1. Usable(m) \in SUBSET Entry
  BY DEF Usable, Own, Virgin, Free
<1>2. i \in Usable(m)
  BY <1>1, FirstIn
<1>3. CASE Own(m) # {}
  BY <1>2, <1>3 DEF Usable, Own
<1>4. CASE Own(m) = {} /\ Virgin # {}
  BY <1>2, <1>4 DEF Usable, Virgin, Free
<1>5. CASE Own(m) = {} /\ Virgin = {}
  <2>1. \A j \in Entry : mac[j] # ZeroMac
    BY <1>5 DEF Virgin, Free, PoolInv, AllocatedHasMac
  <2> QED
    BY <1>2, <1>5, <2>1 DEF Usable, Free
<1> QED
  BY <1>3, <1>4, <1>5

\* A station with a lease has no entry but that of its lease.
LEMMA UsableOfLease ==
  ASSUME PoolInv, NEW m \in Stations, lease[m] # 0, Usable(m) # {}
  PROVE  First(Usable(m)) = lease[m]
<1>1. lease[m] \in Entry /\ mac[lease[m]] = m
  BY DEF PoolInv, LeaseHeld, TypeOK, Entry
<1>2. Own(m) # {}
  BY <1>1 DEF Own
<1>3. mac[First(Usable(m))] = m
  BY <1>2, UsableFacts
<1> QED
  BY <1>1, <1>3, UsableFacts, PoolAssumption DEF PoolInv, OneEntryPerMac

\* The entry gets the MAC address of the station, whether or not it is
\* allocated then: no other station loses an address that it uses, and none an
\* offer unless every entry has been given to a station.
LEMMA ClaimFacts ==
  ASSUME PoolInv, NEW m \in Stations, Usable(m) # {}, NEW b \in BOOLEAN,
         mac' = [mac EXCEPT ![First(Usable(m))] = m],
         allocted' = [allocted EXCEPT ![First(Usable(m))] = b]
  PROVE  /\ mac' \in [Entry -> Stations \cup {ZeroMac}]
         /\ allocted' \in [Entry -> BOOLEAN]
         /\ AllocatedHasMac'
         /\ OneEntryPerMac'
         /\ \A s \in Stations \ {m} : lease[s] # 0 =>
              mac'[lease[s]] = s /\ allocted'[lease[s]]
         /\ \A s \in Stations : offered[s] # 0 /\ mac'[offered[s]] # s =>
              \A i \in Entry : mac'[i] # ZeroMac
<1> DEFINE i == First(Usable(m))
<1> HIDE DEF i
<1>0. /\ i \in Entry
      /\ mac[i] = m \/ (Own(m) = {} /\ ~allocted[i])
      /\ mac[i] \notin {m, ZeroMac} => \A j \in Entry : mac[j] # ZeroMac
  BY UsableFacts DEF i
<1>1. /\ mac' = [mac EXCEPT ![i] = m]
      /\ allocted' = [allocted EXCEPT ![i] = b]
      /\ mac \in [Entry -> Stations \cup {ZeroMac}]
      /\ allocted \in [Entry -> BOOLEAN]
      /\ lease \in [Stations -> 0 .. PoolSize] /\ offered \in [Stations -> 0 .. PoolSize]
  BY DEF i, PoolInv, TypeOK
<1>2. /\ mac' \in [Entry -> Stations \cup {ZeroMac}]
      /\ allocted' \in [Entry -> BOOLEAN]
  BY <1>0, <1>1
<1>3. AllocatedHasMac'
  BY <1>0, <1>1, PoolAssumption DEF PoolInv, AllocatedHasMac
<1>4. OneEntryPerMac'
  <2>1. \A j \in Entry : mac[j] = m => j = i
    BY <1>0, <1>1, PoolAssumption DEF Own, PoolInv, OneEntryPerMac
  <2> QED
    BY <1>0, <1>1, <2>1 DEF PoolInv, OneEntryPerMac
<1>5. ASSUME NEW s \in Stations, s # m, lease[s] # 0
      PROVE  mac'[lease[s]] = s /\ allocted'[lease[s]]
  <2>1. lease[s] \in Entry /\ mac[lease[s]] = s /\ allocted[lease[s]]
    BY <1>1, <1>5 DEF Entry, PoolInv, LeaseHeld
  <2>2. lease[s] # i
    BY <1>0, <1>5, <2>1
  <2> QED
    BY <1>0, <1>1, <2>1, <2>2
<1>6. ASSUME NEW s \in Stations, offered[s] # 0, mac'[offered[s]] # s, NEW j \in Entry
      PROVE  mac'[j] # ZeroMac
  <2>1. offered[s] \in Entry
    BY <1>1, <1>6 DEF Entry
  <2>2. CASE mac[offered[s]] # s
    BY <1>0, <1>1, <1>6, <2>2, PoolAssumption DEF PoolInv, OfferKept
  <2>3. CASE mac[offered[s]] = s
    <3>1. offered[s] = i /\ s # m
      BY <1>0, <1>1, <1>6, <2>1, <2>3
    <3>2. mac[i] \notin {m, ZeroMac}
      BY <2>3, <3>1, PoolAssumption
    <3> QED
      BY <1>0, <1>1, <3>2, PoolAssumption
  <2> QED
    BY <2>2, <2>3
<1> QED
  BY <1>2, <1>3, <1>4, <1>5, <1>6

\* The request that is handled leaves the front of the socket.
LEMMA SocketTail ==
  ASSUME PoolInv, socket # <<>>
  PROVE  /\ Head(socket) \in Requests /\ Head(socket) = socket[1]
         /\ 1 \in DOMAIN socket
         /\ Tail(socket) \in Seq(Requests) /\ Len(Tail(socket)) <= SocketSize
         /\ \A k \in DOMAIN Tail(socket) :
              k + 1 \in DOMAIN socket /\ k + 1 > 1 /\ Tail(socket)[k] = socket[k + 1]
<1>1. socket \in Seq(Requests) /\ Len(socket) <= SocketSize
  BY DEF PoolInv, TypeOK
<1> QED
  BY <1>1, PoolAssumption

\* What waits behind the request that is handled stays in order, if the
\* station's request stays as it is or is answered.
LEMMA TailCopies ==
  ASSUME PoolInv, socket # <<>>, socket' = Tail(socket),
         \A s \in Stations : asked'[s] \in {asked[s], NoMsg}
  PROVE  CopiesBehind'
<1> SUFFICES ASSUME NEW i \in DOMAIN socket', NEW j \in DOMAIN socket', i < j,
                    socket'[i].mac = socket'[j].mac,
                    socket'[i] = asked'[socket'[i].mac]
             PROVE  socket'[j] = socket'[i]
  BY DEF CopiesBehind
<1>1. /\ i + 1 \in DOMAIN socket /\ socket'[i] = socket[i + 1]
      /\ j + 1 \in DOMAIN socket /\ socket'[j] = socket[j + 1]
  BY SocketTail
<1>2. i + 1 < j + 1 /\ socket \in Seq(Requests) /\ socket' \in Seq(Requests)
  BY SocketTail DEF PoolInv, TypeOK
<1>3. socket[i + 1] \in Requests
  BY <1>1, <1>2
<1>4. socket[i + 1].mac \in Stations /\ socket[i + 1] # NoMsg
  BY <1>3, RequestFacts
<1>5. socket[i + 1] = asked[socket[i + 1].mac]
  BY <1>1, <1>4
<1> QED
  BY <1>1, <1>2, <1>5 DEF PoolInv, CopiesBehind

\* A station that keeps its lease has nothing but renewals behind the request
\* that is handled.
LEMMA TailRenewals ==
  ASSUME PoolInv, socket # <<>>, socket' = Tail(socket), NEW s \in Stations,
         asked'[s] \in {asked[s], NoMsg}, lease'[s] = lease[s], lease'[s] # 0
  PROVE  /\ asked'[s] \in {NoMsg, Msg("REQUEST", s, lease'[s])}
         /\ \A k \in DOMAIN socket' :
              socket'[k].mac = s => socket'[k] = Msg("REQUEST", s, lease'[s])
  BY SocketTail DEF PoolInv, OnlyRenewals

\* A DISCOVER or an INFORM.
LEMMA DiscoverInv ==
  ASSUME PoolInv, socket # <<>>, socket' = Tail(socket),
         DoDiscover(Head(socket)) \/ DoInform(Head(socket))
  PROVE  PoolInv'
<1> DEFINE r == Head(socket)
           m == r.mac
           i == First(Usable(m))
<1>0. /\ r \in Requests /\ r = socket[1] /\ 1 \in DOMAIN socket
      /\ m \in Stations /\ r.type \in {"DISCOVER", "INFORM"}
      /\ r.type # "REQUEST"
  BY SocketTail, RequestFacts DEF DoDiscover, DoInform
<1>1. Usable(m) # {} /\ i \in Entry
  BY <1>0, UsableFacts DEF DoDiscover, DoInform, Allocate
<1>2. PICK b \in BOOLEAN : /\ mac' = [mac EXCEPT ![i] = m]
                           /\ allocted' = [allocted EXCEPT ![i] = b]
  <2>1. allocted[i] \in BOOLEAN
    BY <1>1 DEF PoolInv, TypeOK
  <2>2. /\ mac' = [mac EXCEPT ![i] = m]
        /\ allocted' = [allocted EXCEPT ![i] = allocted[i] \/ FALSE]
    BY DEF DoDiscover, DoInform, Allocate
  <2> QED
    BY <2>1, <2>2
<1>3. lease[m] = 0
  <2> SUFFICES ASSUME lease[m] # 0 PROVE FALSE
    OBVIOUS
  <2>1. socket[1] = Msg("REQUEST", m, lease[m])
    BY <1>0 DEF PoolInv, OnlyRenewals
  <2> QED
    BY <1>0, <2>1 DEF Msg
<1>4. /\ assoc' = assoc /\ asked' = asked /\ lease' = lease
      /\ offered' = offered \/ offered' = [offered EXCEPT ![m] = i]
  BY DEF DoDiscover, DoInform, GetOffer, station
<1>5. /\ mac' \in [Entry -> Stations \cup {ZeroMac}]
      /\ allocted' \in [Entry -> BOOLEAN]
      /\ AllocatedHasMac'
      /\ OneEntryPerMac'
      /\ \A s \in Stations \ {m} : lease[s] # 0 =>
           mac'[lease[s]] = s /\ allocted'[lease[s]]
      /\ \A s \in Stations : offered[s] # 0 /\ mac'[offered[s]] # s =>
           \A j \in Entry : mac'[j] # ZeroMac
  BY <1>0, <1>1, <1>2, ClaimFacts
<1>6. TypeOK'
  BY <1>0, <1>1, <1>4, <1>5, SocketTail DEF PoolInv, TypeOK, Entry
<1>7. AsksForItself' /\ LeaseHeld'
  BY <1>3, <1>4, <1>5 DEF PoolInv, AsksForItself, LeaseHeld
<1>8. CopiesBehind'
  BY <1>4, TailCopies
<1>9. OnlyRenewals'
  BY <1>4, TailRenewals DEF OnlyRenewals
<1>10. OfferKept'
  <2>1. mac'[i] = m
    BY <1>1, <1>2 DEF PoolInv, TypeOK
  <2> QED
    BY <1>0, <1>4, <1>5, <2>1 DEF PoolInv, TypeOK, OfferKept
<1> QED
  BY <1>5, <1>6, <1>7, <1>8, <1>9, <1>10 DEF PoolInv

\* A REQUEST: with a lease it asks for that lease and is acknowledged, so that
\* a NAK meets only a station without one.
LEMMA RequestInv ==
  ASSUME PoolInv, socket # <<>>, socket' = Tail(socket),
         DoRequestAck(Head(socket)) \/ DoRequestNak(Head(socket))
  PROVE  PoolInv'
<1> DEFINE r == Head(socket)
           m == r.mac
           i == First(Usable(m))
<1>0. /\ r \in Requests /\ r = socket[1] /\ 1 \in DOMAIN socket
      /\ m \in Stations /\ r.ip \in 0 .. PoolSize
      /\ r.type = "REQUEST" /\ r = Msg("REQUEST", m, r.ip)
  BY SocketTail, RequestFacts DEF DoRequestAck, DoRequestNak
<1>1. Usable(m) # {} /\ i \in Entry
  BY <1>0, UsableFacts DEF DoRequestAck, DoRequestNak, Allocate
<1>2. PICK b \in BOOLEAN : /\ mac' = [mac EXCEPT ![i] = m]
                           /\ allocted' = [allocted EXCEPT ![i] = b]
                           /\ r.ip = i => b
  <2>1. allocted[i] \in BOOLEAN
    BY <1>1 DEF PoolInv, TypeOK
  <2>2. CASE DoRequestAck(r)
    <3>1. /\ mac' = [mac EXCEPT ![i] = m]
          /\ allocted' = [allocted EXCEPT ![i] = allocted[i] \/ TRUE]
      BY <2>2 DEF DoRequestAck, Allocate
    <3>2. allocted' = [allocted EXCEPT ![i] = TRUE]
      BY <2>1, <3>1
    <3> QED
      BY <3>1, <3>2
  <2>3. CASE DoRequestNak(r)
    BY <2>3 DEF DoRequestNak
  <2> QED
    BY <2>2, <2>3
<1>3. lease[m] # 0 => lease[m] = i /\ r.ip = i
  <2> SUFFICES ASSUME lease[m] # 0 PROVE lease[m] = i /\ r.ip = i
    OBVIOUS
  <2>1. socket[1] = Msg("REQUEST", m, lease[m])
    BY <1>0 DEF PoolInv, OnlyRenewals
  <2>2. r.ip = lease[m]
    BY <1>0, <2>1 DEF Msg
  <2> QED
    BY <1>0, <1>1, <2>2, UsableOfLease
<1>4. \/ UNCHANGED station
      \/ /\ asked[m] = r
         /\ lease' = [lease EXCEPT ![m] = IF r.ip = i THEN r.ip ELSE 0]
         /\ asked' = [asked EXCEPT ![m] = NoMsg]
         /\ offered' = [offered EXCEPT ![m] = 0]
         /\ assoc' = assoc
  BY DEF DoRequestAck, DoRequestNak, GetAck, GetNak, Received
<1>5. /\ mac' \in [Entry -> Stations \cup {ZeroMac}]
      /\ allocted' \in [Entry -> BOOLEAN]
      /\ AllocatedHasMac'
      /\ OneEntryPerMac'
      /\ \A s \in Stations \ {m} : lease[s] # 0 =>
           mac'[lease[s]] = s /\ allocted'[lease[s]]
      /\ \A s \in Stations : offered[s] # 0 /\ mac'[offered[s]] # s =>
           \A j \in Entry : mac'[j] # ZeroMac
  BY <1>0, <1>1, <1>2, ClaimFacts
<1>6. TypeOK'
  <2>1. socket' \in Seq(Requests) /\ Len(socket') <= SocketSize
    BY SocketTail
  <2>2. (IF r.ip = i THEN r.ip ELSE 0) \in 0 .. PoolSize /\ 0 \in 0 .. PoolSize
    BY <1>0, PoolAssumption
  <2>3. /\ assoc' \in [Stations -> BOOLEAN]
        /\ asked' \in [Stations -> Requests \cup {NoMsg}]
        /\ offered' \in [Stations -> 0 .. PoolSize]
        /\ lease' \in [Stations -> 0 .. PoolSize]
    <3> DEFINE l == IF r.ip = i THEN r.ip ELSE 0
    <3> HIDE DEF l
    <3>1. \/ assoc' = assoc /\ asked' = asked /\ offered' = offered /\ lease' = lease
          \/ /\ lease' = [lease EXCEPT ![m] = l]
             /\ asked' = [asked EXCEPT ![m] = NoMsg]
             /\ offered' = [offered EXCEPT ![m] = 0]
             /\ assoc' = assoc
      BY <1>4 DEF station, l
    <3>2. l \in 0 .. PoolSize
      BY <2>2 DEF l
    <3> QED
      BY <2>2, <3>1, <3>2 DEF PoolInv, TypeOK
  <2> QED
    BY <1>5, <2>1, <2>3 DEF TypeOK
<1>7. /\ lease \in [Stations -> 0 .. PoolSize] /\ offered \in [Stations -> 0 .. PoolSize]
      /\ asked \in [Stations -> Requests \cup {NoMsg}]
      /\ mac'[i] = m /\ (r.ip = i => allocted'[i])
  BY <1>1, <1>2 DEF PoolInv, TypeOK
<1>8. AsksForItself'
  BY <1>0, <1>4, <1>7 DEF PoolInv, AsksForItself, station
<1>9. LeaseHeld'
  BY <1>0, <1>1, <1>3, <1>4, <1>5, <1>7 DEF PoolInv, LeaseHeld, station
<1>10. CopiesBehind'
  BY <1>0, <1>4, <1>7, TailCopies DEF station
<1>11. OnlyRenewals'
  <2> SUFFICES ASSUME NEW s \in Stations, lease'[s] # 0
               PROVE  /\ asked'[s] \in {NoMsg, Msg("REQUEST", s, lease'[s])}
                      /\ \A k \in DOMAIN socket' :
                           socket'[k].mac = s => socket'[k] = Msg("REQUEST", s, lease'[s])
    BY DEF OnlyRenewals
  <2>1. CASE lease'[s] = lease[s]
    BY <1>0, <1>4, <1>7, <2>1, TailRenewals DEF station
  <2>2. CASE lease'[s] # lease[s]
    <3>1. /\ s = m /\ asked[m] = r /\ lease'[s] = r.ip /\ asked'[s] = NoMsg
      BY <1>0, <1>4, <1>7, <2>2 DEF station
    <3>2. ASSUME NEW k \in DOMAIN socket', socket'[k].mac = s
          PROVE  socket'[k] = r
      <4>1. k + 1 \in DOMAIN socket /\ socket'[k] = socket[k + 1] /\ 1 < k + 1
        BY SocketTail
      <4> QED
        BY <1>0, <3>1, <3>2, <4>1 DEF PoolInv, CopiesBehind
    <3> QED
      BY <1>0, <3>1, <3>2
  <2> QED
    BY <2>1, <2>2
<1>12. OfferKept'
  BY <1>0, <1>4, <1>5, <1>7 DEF PoolInv, OfferKept, station
<1> QED
  BY <1>5, <1>6, <1>8, <1>9, <1>10, <1>11, <1>12 DEF PoolInv

\* The first request of the socket is handled.
LEMMA HandleInv ==
  ASSUME PoolInv, Handle
  PROVE  PoolInv'
<1>0. socket # <<>> /\ socket' = Tail(socket)
  BY DEF Handle
<1>1. CASE UsedUp(Head(socket))
  <2>1. UNCHANGED <<mac, allocted, assoc, asked, offered, lease>>
    BY <1>1 DEF UsedUp, pool, station
  <2>2. CopiesBehind'
    BY <1>0, <2>1, TailCopies
  <2>3. OnlyRenewals'
    BY <1>0, <2>1, TailRenewals DEF OnlyRenewals
  <2>4. TypeOK'
    BY <1>0, <2>1, SocketTail DEF PoolInv, TypeOK
  <2> QED
    BY <2>1, <2>2, <2>3, <2>4 DEF PoolInv, AllocatedHasMac, AsksForItself, OneEntryPerMac,
       LeaseHeld, OfferKept
<1> QED
  BY <1>0, <1>1, DiscoverInv, RequestInv DEF Handle

\* A station asks: with a lease for nothing but its renewal, and for something
\* new only when nothing of it is left in the socket.
LEMMA AskInv ==
  ASSUME PoolInv, NEW r \in Requests, Ask(r)
  PROVE  PoolInv'
<1> DEFINE m == r.mac
<1>0. m \in Stations /\ r # NoMsg
  BY RequestFacts
<1>1. /\ asked' = [asked EXCEPT ![m] = r]
      /\ asked \in [Stations -> Requests \cup {NoMsg}]
      /\ UNCHANGED <<mac, allocted, assoc, offered, lease>>
      /\ socket \in Seq(Requests) /\ Len(socket) <= SocketSize
      /\ r = asked[m] \/ \A k \in DOMAIN socket : socket[k] # r
      /\ lease[m] # 0 => r = Msg("REQUEST", m, lease[m])
  BY DEF Ask, PoolInv, TypeOK, pool, MayAsk
<1>2. /\ socket' \in Seq(Requests) /\ Len(socket') <= SocketSize
      /\ \A k \in DOMAIN socket' :
           \/ k \in DOMAIN socket /\ socket'[k] = socket[k]
           \/ k = Len(socket) + 1 /\ socket'[k] = r
      /\ \A k \in DOMAIN socket : k < Len(socket) + 1
  <2>1. CASE socket' = socket
    BY <1>1, <2>1
  <2>2. CASE Len(socket) < SocketSize /\ socket' = Append(socket, r)
    BY <1>1, <2>2, PoolAssumption
  <2> QED
    BY <2>1, <2>2 DEF Ask
<1>3. TypeOK'
  BY <1>0, <1>1, <1>2 DEF PoolInv, TypeOK
<1>4. CopiesBehind'
  <2> SUFFICES ASSUME NEW i \in DOMAIN socket', NEW j \in DOMAIN socket', i < j,
                      socket'[i].mac = socket'[j].mac,
                      socket'[i] = asked'[socket'[i].mac]
               PROVE  socket'[j] = socket'[i]
    BY DEF CopiesBehind
  <2>1. i \in DOMAIN socket /\ socket'[i] = socket[i] /\ socket[i] \in Requests
    BY <1>1, <1>2
  <2>2. socket[i].mac \in Stations
    BY <2>1, RequestFacts
  <2>3. CASE j \in DOMAIN socket /\ socket'[j] = socket[j]
    BY <1>0, <1>1, <2>1, <2>2, <2>3 DEF PoolInv, CopiesBehind
  <2>4. CASE socket'[j] = r
    <3>1. socket[i].mac = m
      BY <2>1, <2>4
    <3> QED
      BY <1>0, <1>1, <2>1, <2>4, <3>1
  <2> QED
    BY <1>2, <2>3, <2>4
<1>5. OnlyRenewals'
  BY <1>0, <1>1, <1>2 DEF PoolInv, OnlyRenewals
<1>6. AsksForItself'
  BY <1>0, <1>1 DEF PoolInv, AsksForItself
<1> QED
  BY <1>1, <1>3, <1>4, <1>5, <1>6 DEF PoolInv, AllocatedHasMac, OneEntryPerMac, LeaseHeld,
     OfferKept

\* A station comes, gives up its lease, or leaves.
LEMMA StationInv ==
  ASSUME PoolInv, NEW s \in Stations, Associate(s) \/ GiveUp(s) \/ Disassociate(s)
  PROVE  PoolInv'
<1>0. /\ socket' = socket /\ mac' = mac
      /\ \A t \in Stations : asked'[t] \in {asked[t], NoMsg}
      /\ \A t \in Stations : lease'[t] \in {lease[t], 0} /\ offered'[t] \in {offered[t], 0}
  BY DEF Associate, GiveUp, Disassociate, Release, pool, PoolInv, TypeOK
<1>1. TypeOK'
  <2>1. CASE Associate(s)
    BY <2>1 DEF Associate, pool, PoolInv, TypeOK
  <2>2. CASE GiveUp(s)
    BY <2>2, PoolAssumption DEF GiveUp, pool, PoolInv, TypeOK
  <2>3. CASE Disassociate(s)
    <3>1. allocted' \in [Entry -> BOOLEAN]
      BY <2>3 DEF Disassociate, Release, PoolInv, TypeOK
    <3> QED
      BY <2>3, <3>1, PoolAssumption DEF Disassociate, Release, PoolInv, TypeOK
  <2> QED
    BY <2>1, <2>2, <2>3
<1>2. AsksForItself' /\ OneEntryPerMac' /\ OfferKept'
  BY <1>0 DEF PoolInv, AsksForItself, OneEntryPerMac, OfferKept
<1>3. CopiesBehind'
  <2>1. \A k \in DOMAIN socket : socket[k].mac \in Stations /\ socket[k] # NoMsg
    BY RequestFacts DEF PoolInv, TypeOK
  <2> QED
    BY <1>0, <2>1 DEF PoolInv, CopiesBehind
<1>4. OnlyRenewals'
  BY <1>0 DEF PoolInv, OnlyRenewals
<1>5. AllocatedHasMac' /\ LeaseHeld'
  <2>1. CASE UNCHANGED allocted
    BY <1>0, <2>1 DEF PoolInv, AllocatedHasMac, LeaseHeld
  <2>2. CASE Disassociate(s) /\ Own(s) # {}
    <3> DEFINE i == First(Own(s))
    <3>1. i \in Entry /\ mac[i] = s
      BY <2>2, FirstIn DEF Own
    <3>2. allocted' = [allocted EXCEPT ![i] = FALSE] /\ lease' = [lease EXCEPT ![s] = 0]
      BY <2>2 DEF Disassociate, Release
    <3>3. AllocatedHasMac'
      BY <1>0, <3>1, <3>2 DEF PoolInv, TypeOK, AllocatedHasMac
    <3>4. ASSUME NEW t \in Stations, lease'[t] # 0
          PROVE  mac'[lease'[t]] = t /\ allocted'[lease'[t]]
      <4>1. t # s /\ lease'[t] = lease[t] /\ lease[t] \in Entry
        BY <3>2, <3>4 DEF PoolInv, TypeOK, Entry
      <4>2. mac[lease[t]] = t /\ allocted[lease[t]] /\ lease[t] # i
        BY <3>1, <3>4, <4>1 DEF PoolInv, LeaseHeld
      <4> QED
        BY <1>0, <3>1, <3>2, <4>1, <4>2 DEF PoolInv, TypeOK
    <3> QED
      BY <3>3, <3>4 DEF LeaseHeld
  <2> QED
    BY <2>1, <2>2 DEF Associate, GiveUp, Disassociate, Release, pool
<1> QED
  BY <1>1, <1>2, <1>3, <1>4, <1>5 DEF PoolInv

\* Nobody has an address after a reset of the device or a restart of the AP.
LEMMA AllLeaveInv ==
  ASSUME PoolInv, AllLeave,
         mac' = mac \/ mac' = [i \in Entry |-> ZeroMac],
         allocted' = [i \in Entry |-> FALSE]
  PROVE  PoolInv'
<1>1. socket' = <<>>
  BY DEF AllLeave
<1>2. TypeOK'
  BY <1>1, PoolAssumption DEF AllLeave, PoolInv, TypeOK
<1>3. CopiesBehind' /\ OnlyRenewals'
  BY <1>1 DEF AllLeave, CopiesBehind, OnlyRenewals
<1>4. AllocatedHasMac' /\ AsksForItself' /\ LeaseHeld' /\ OfferKept'
  BY DEF AllLeave, AllocatedHasMac, AsksForItself, LeaseHeld, OfferKept
<1>5. OneEntryPerMac'
  BY DEF PoolInv, OneEntryPerMac
<1> QED
  BY <1>2, <1>3, <1>4, <1>5 DEF PoolInv

\* No entry is used at the start, and nobody has asked.
LEMMA PoolInitInv == Init => PoolInv
  BY PoolAssumption DEF Init, PoolInv, TypeOK, AllocatedHasMac, AsksForItself, CopiesBehind,
     OnlyRenewals, OneEntryPerMac, LeaseHeld, OfferKept

\* Every step keeps the invariant of the pool.
LEMMA PoolNextInv == PoolInv /\ [Next]_poolVars => PoolInv'
<1> SUFFICES ASSUME PoolInv, [Next]_poolVars PROVE PoolInv'
  OBVIOUS
<1>1. CASE UNCHANGED poolVars
  BY <1>1 DEF poolVars, PoolInv, TypeOK, AllocatedHasMac, AsksForItself, CopiesBehind,
     OnlyRenewals, OneEntryPerMac, LeaseHeld, OfferKept
<1>2. ASSUME NEW s \in Stations, Fault(s) PROVE PoolInv'
  BY <1>2, AllLeaveInv DEF Fault
<1>3. CASE Restart
  BY <1>3, AllLeaveInv DEF Restart
<1> QED
  BY <1>1, <1>2, <1>3, HandleInv, StationInv, AskInv DEF Next

\* The pool keeps its invariant.
THEOREM PoolInvariant == Spec => []PoolInv
  BY PoolInitInv, PoolNextInv, PTL DEF Spec

\* No two stations use one address, for every pool, every number of stations
\* and every number of requests that wait: an address in use is held by one
\* entry, and the entry by one station.
THEOREM PoolNoSharedAddress == Spec => []NoSharedAddress
<1>1. PoolInv => NoSharedAddress
  BY DEF PoolInv, LeaseHeld, NoSharedAddress
<1> QED
  BY <1>1, PoolInvariant, PTL

\* An offered address stays the station's until no address was never given.
THEOREM PoolOfferKept == Spec => []OfferKept
  BY PoolInvariant, PTL DEF PoolInv

----------------------------------------------------------------------------
(* The life of the server task, for any number of controllers.             *)

Starting(c) == ctl[c] \in {"create", "thread"}
Serves(s) == task[s] \in {"new", "opened", "loop", "served", "closed"}

\* One controller or one server at most is between the test of dhcpd_start and
\* the reset of the flag, and the flag says so once it is set.
Apart ==
  /\ \A c, d \in Controllers : Starting(c) /\ Starting(d) => c = d
  /\ \A c \in Controllers, s \in Servers : ~(Starting(c) /\ Serves(s))
  /\ \A s, t \in Servers : Serves(s) /\ Serves(t) => s = t
  /\ (\E s \in Servers : Serves(s)) => flag # "NOT_CREATED"
  /\ (\E c \in Controllers : ctl[c] = "thread") => flag # "NOT_CREATED"

TaskTypes ==
  /\ TaskTypeOK
  /\ ctl \in [Controllers -> {"idle", "stop", "signal", "poll", "start", "create", "thread"}]

\* The inductive invariant of the server task.
TaskInv == TaskTypes /\ ("start" \notin raced => Apart)

\* No two controllers have both found the flag at DHCPD_TASK_NOT_CREATED.
NoDoubleStart ==
  \A c, d \in Controllers : ctl[c] = "create" /\ ctl[d] = "create" => c = d

\* There is no server at the start.
LEMMA TaskInitInv == TaskInit => TaskInv
  BY DEF TaskInit, TaskInv, TaskTypes, TaskTypeOK, Flags, ServerPc, Apart, Starting, Serves

\* A controller starts or stops the server.
LEMMA ControlInv ==
  ASSUME TaskTypes, NEW c \in Controllers,
         (\E o \in {"up", "down"} : SetState(c, o)) \/ ConfigSet(c) \/ Control(c)
  PROVE  TaskTypes' /\ (Apart /\ NoDoubleStart' => Apart')
<1> USE DEF TaskTypes, TaskTypeOK, Flags, Apart, Starting, Serves
<1>1. ASSUME NEW o \in {"up", "down"}, SetState(c, o)
      PROVE  TaskTypes' /\ (Apart /\ NoDoubleStart' => Apart')
  BY <1>1 DEF SetState, At
<1>2. CASE ConfigSet(c)
  BY <1>2 DEF ConfigSet
<1>3. CASE StopTest(c)
  BY <1>3 DEF StopTest, At, Stopped
<1>4. CASE StopSignal(c)
  BY <1>4 DEF StopSignal, At
<1>5. CASE StopPoll(c)
  BY <1>5 DEF StopPoll, At, Stopped
<1>6. CASE StartTest(c)
  <2>1. TaskTypes'
    BY <1>6 DEF StartTest, At
  <2> SUFFICES ASSUME Apart, NoDoubleStart' PROVE Apart'
    BY <2>1
  <2>2. CASE flag = "NOT_CREATED"
    <3>1. \A s \in Servers : ~Serves(s)
      BY <2>2
    <3>2. \A d \in Controllers : ctl[d] # "thread"
      BY <2>2
    <3>3. ctl' = [ctl EXCEPT ![c] = "create"] /\ flag' = flag /\ task' = task
      BY <1>6, <2>2 DEF StartTest, At
    <3>4. \A d, e \in Controllers : ctl'[d] = "create" /\ ctl'[e] = "create" => d = e
      BY DEF NoDoubleStart
    <3> QED
      BY <3>1, <3>2, <3>3, <3>4
  <2>3. CASE flag # "NOT_CREATED"
    BY <1>6, <2>3 DEF StartTest, At
  <2> QED
    BY <2>2, <2>3
<1>7. CASE StartCreate(c)
  BY <1>7 DEF StartCreate, At
<1>8. CASE StartThread(c)
  <2>1. PICK s \in Servers : task[s] = "none" /\ Step(s, "new") /\ thr' = s
    <3>1. (CHOOSE s \in Unused : TRUE) \in Unused
      BY <1>8 DEF StartThread
    <3> QED
      BY <1>8, <3>1 DEF StartThread, Unused
  <2>2. ctl[c] = "thread" /\ ctl' = [ctl EXCEPT ![c] = "idle"] /\ flag' = flag
    BY <1>8 DEF StartThread, At
  <2> QED
    BY <2>1, <2>2 DEF Step, ServerPc
<1>9. CASE StartThreadFails(c)
  BY <1>9 DEF StartThreadFails, At
<1> QED
  BY <1>1, <1>2, <1>3, <1>4, <1>5, <1>6, <1>7, <1>8, <1>9 DEF Control

\* The server runs and goes.
LEMMA ServeInv ==
  ASSUME TaskTypes, NEW s \in Servers, Serve(s)
  PROVE  TaskTypes' /\ (Apart => Apart')
<1> USE DEF TaskTypes, TaskTypeOK, Flags, ServerPc, Apart, Starting, Serves
<1>1. CASE Open(s)
  BY <1>1 DEF Open, Step
<1>2. CASE Run(s)
  BY <1>2 DEF Run, Step
<1>3. CASE Leave(s)
  BY <1>3 DEF Leave, Step
<1>4. CASE Close(s)
  BY <1>4 DEF Close, Step
<1>5. CASE Reset(s)
  BY <1>5 DEF Reset, Step
<1>6. CASE Delete(s)
  <2>1. \A t \in Servers : task'[t] \in {task[t], "deleted", "returned"}
    BY <1>6 DEF Delete, Deleted
  <2>2. task' \in [Servers -> ServerPc]
    BY <1>6 DEF Delete, Deleted
  <2> QED
    BY <1>6, <2>1, <2>2 DEF Delete
<1> QED
  BY <1>1, <1>2, <1>3, <1>4, <1>5, <1>6 DEF Serve

\* The history records a double start where it is met.
LEMMA RaceRecorded ==
  ASSUME raced' = raced \cup Racing', "start" \notin raced'
  PROVE  "start" \notin raced /\ NoDoubleStart'
BY DEF Racing, NoDoubleStart

\* Two servers serve at once only after two controllers have both passed the
\* test of the flag: for any number of controllers and servers, in every
\* interleaving of their statements, overtaken stops and preempted exits
\* included.
THEOREM TaskOneServer == TaskSpec => []OneServer
<1>1. TaskInv /\ [TaskNext]_taskVars => TaskInv'
  <2> SUFFICES ASSUME TaskInv, [TaskNext]_taskVars PROVE TaskInv'
    OBVIOUS
  <2>1. CASE UNCHANGED taskVars
    BY <2>1 DEF taskVars, ctrlVars, TaskInv, TaskTypes, TaskTypeOK, Apart, Starting, Serves
  <2>2. CASE TaskNext
    <3>1. raced' = raced \cup Racing'
      BY <2>2 DEF TaskNext
    <3>2. TaskTypes' /\ (Apart /\ NoDoubleStart' => Apart')
      BY <2>2, ControlInv, ServeInv DEF TaskNext, TaskInv
    <3> QED
      BY <3>1, <3>2, RaceRecorded DEF TaskInv
  <2> QED
    BY <2>1, <2>2
<1>2. TaskInv => OneServer
  <2> SUFFICES ASSUME TaskInv, "start" \notin raced PROVE Cardinality(Serving) <= 1
    BY DEF OneServer
  <2>1. CASE Serving = {}
    BY <2>1, FS_EmptySet
  <2>2. CASE Serving # {}
    <3>1. PICK x \in Servers : Serving = {x}
      BY <2>2 DEF Serving, TaskInv, Apart, Serves
    <3>2. Cardinality({x}) = 1
      BY FS_Singleton, Zenon
    <3>3. Cardinality(Serving) = 1
      BY <3>1, <3>2, Zenon
    <3> QED
      BY <3>3
  <2> QED
    BY <2>1, <2>2
<1> QED
  BY <1>1, <1>2, TaskInitInv, PTL DEF TaskSpec

=============================================================================
