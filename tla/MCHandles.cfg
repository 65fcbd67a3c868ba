CONSTANTS
  h1 = h1
  h2 = h2
  h3 = h3
  h4 = h4
  Tmp = Tmp
  Ret = Ret
  ClientKind = client
  UdpTxKind = udpTx
  UdpRxKind = udpRx
  NoKind = NoKind
  Handles = {h1, h2, h3, h4}
  KindOf <- AllKinds
  PoolSize = 3
  LinksCount = 3
  SerialMod = 8
  MaxRequests = 4
SYMMETRY Interchangeable
SPECIFICATION Spec
INVARIANTS TypeOK RefCountExact NoOrphan FreedIsClean
PROPERTIES StaleStaysStale OwnershipSpec
