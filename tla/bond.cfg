CONSTANTS
  p1 = p1 p2 = p2 p3 = p3 p4 = p4 c1 = c1
  Peer = {p1, p2, p3, p4}
  NoAddr = NoAddr
  NoKey = 0
  KeyMax = 12
  MaxBonds = 3
  Conn = {c1}
SYMMETRY PeerSymmetry
VIEW BondView
SPECIFICATION Spec
INVARIANTS MruRanked OneSlotPerPeer SlotForNewDevice
PROPERTIES InsertDropsTheLast ReconnectsEncrypted
