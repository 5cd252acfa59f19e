CONSTANTS
  hA = hA
  hB = hB
  NoHost = NoHost
  NumSlots = 2
  Hosts <- MCHosts
  Requests <- MCRequests
  IdMod = 4
  HeartbeatLimit = 2
  OwnAddresses <- OneOwn
  Pools <- OnePool
  Reservations <- MCReservations
SPECIFICATION FairSettledSpec
INVARIANT ReservedSlotsKept
PROPERTY AbandonedSlotFreed
