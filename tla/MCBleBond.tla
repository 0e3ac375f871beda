----------------------------- MODULE MCBleBond -----------------------------
(* A small instance of BleBond for TLC. *)
EXTENDS BleBond, TLC
CONSTANTS p1, p2, p3, p4, c1

PeerSymmetry == Permutations(Peer)

\* The peers that still have a key that their last pairing put into the list
\* and the store, and those of them whose key the list a, k has not.
Agreeing == {p \in agreed : peerKey[p] # NoKey}
Stale(a, k) == {p \in Agreeing : \E i \in Slot : a[i] = p /\ k[i] # peerKey[p]}

\* What the properties depend on.  A new key differs from all others, so which
\* keys are equal decides everything about them; and the key of a peer that has
\* forgotten it, or has not agreed, means nothing until it pairs again.
BondView ==
  <<addr, mru, stored.addr, stored.mru, peer, keyed, resetting,
    Agreeing, Stale(addr, ltk), Stale(stored.addr, stored.ltk)>>
=============================================================================
