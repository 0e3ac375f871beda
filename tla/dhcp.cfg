CONSTANTS
  a = a b = b c = c
  Stations = {a, b, c}
  ZeroMac = ZeroMac
  PoolSize = 2
  SocketSize = 1
SYMMETRY StationSymmetry
SPECIFICATION Spec
INVARIANTS NoSharedAddress OfferKept
