CONSTANTS
  hA = hA
  hB = hB
  NoHost = NoHost
  NumSlots = 2
  Hosts <- MCHosts
  Requests <- PlainRequests
  IdMod = 4
  HeartbeatLimit = 0
  OwnAddresses <- MCOwn
  Pools <- MCPools
  Reservations <- FewReservations
SPECIFICATION Spec
INVARIANT ConnectionsDiffer
PROPERTY NewAddressIsDefended
