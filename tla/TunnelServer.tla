---------------------------- MODULE TunnelServer ----------------------------
(***************************************************************************)
(* The connections of the KNXnet/IP tunnel server (IpDataLinkLayer,        *)
(* IpParameterObject): which slot a CONNECT_REQUEST gets, under which      *)
(* channel id and individual address, and how a slot becomes free again.   *)
(*                                                                         *)
(* Slots can be reserved for a client, with an option saying what happens  *)
(* when the reserved slot is occupied.  Tunnels get their individual       *)
(* addresses from a pool in the IP parameter object.  Pool, reservations   *)
(* and the device's own address are rewritten by a configuration tool      *)
(* while connections are open.                                             *)
(*                                                                         *)
(* An address is a number, line * 256 + device, as in the code.  Time is   *)
(* counted in steps, HeartbeatLimit of which are 120 s.  What a connection *)
(* carries is the subject of TunnelDelivery and TunnelUplink.              *)
(***************************************************************************)
EXTENDS Integers, FiniteSets, FiniteSetsExt

CONSTANTS
  NumSlots,        \* KNX_TUNNELING
  Hosts,           \* IP addresses of clients
  NoHost,          \* the address 0
  Requests,        \* CONNECT_REQUESTs: source, control endpoint and type
  IdMod,           \* _lastChannelId is one octet: 256
  HeartbeatLimit,  \* steps of time in 120 s
  OwnAddresses,    \* addresses the device may be given
  Pools,           \* values of PID_ADDITIONAL_INDIVIDUAL_ADDRESSES
  Reservations     \* values of the two PID_CUSTOM_RESERVED_TUNNELS properties

Slot == 0 .. NumSlots - 1
Address == {a \in Nat : a \div 256 <= 255}
Unprogrammed == 65280   \* 15.15.0

(* A property with fewer elements than there are slots counts as empty.    *)
Empty == [i \in {} |-> 0]

(* ip is the control endpoint's address, or the source when it is zero.    *)
Request == [src : Hosts, ip : Hosts, type : {"tunnel", "config"}]
Reservation == [active : BOOLEAN, option : 0 .. 3, ip : Hosts]

(* The code asserts the first bound, so that .241 upwards ends below .255. *)
ASSUME SlotAssumption ==
  /\ NumSlots \in 0 .. 13
  /\ IdMod \in Nat /\ IdMod > NumSlots + 1
ASSUME HostAssumption == NoHost \notin Hosts
ASSUME RequestAssumption == Requests \subseteq Request
ASSUME LimitAssumption == HeartbeatLimit \in Nat
ASSUME OwnAssumption == OwnAddresses \subseteq Address
ASSUME PoolAssumption == Pools \subseteq [Slot -> Address] \union {Empty}
ASSUME ReservationAssumption ==
  Reservations \subseteq [Slot -> Reservation] \union {Empty}

VARIABLES
  slots,         \* tunnels[]
  lastChannelId, \* _lastChannelId
  own,           \* the device's individual address
  pool,          \* PID_ADDITIONAL_INDIVIDUAL_ADDRESSES
  res,           \* the reserved tunnels
  defended,      \* _defendedAddresses[_defendedSet]
  stale          \* history: something was rewritten since the last refresh

vars == <<slots, lastChannelId, own, pool, res, defended, stale>>
config == <<own, pool, res, defended, stale>>

(* heard is history: the client has the connect response and is alive.     *)
Connection ==
  [ChannelId : 0 .. IdMod - 1, IndividualAddress : Address,
   IpAddress : Hosts \union {NoHost}, PeerAddress : Hosts \union {NoHost},
   IsConfig : BOOLEAN, age : 0 .. HeartbeatLimit, heard : BOOLEAN]

(* What Reset() leaves.                                                    *)
FreeSlot ==
  [ChannelId |-> 0, IndividualAddress |-> 0, IpAddress |-> NoHost,
   PeerAddress |-> NoHost, IsConfig |-> FALSE, age |-> 0, heard |-> FALSE]

Open(i) == slots[i].ChannelId # 0
Tunnels == {i \in Slot : Open(i) /\ ~slots[i].IsConfig}

-----------------------------------------------------------------------------
(* The address pool.                                                       *)

Line(address) == address \div 256
Device(address) == address % 256

(* .241 upwards on the device's line, its own address left out.            *)
DefaultTunnelAddresses(ownAddress) ==
  [i \in Slot |->
     LET skips == IF Device(ownAddress) \in 241 .. 241 + i THEN 1 ELSE 0
     IN  Line(ownAddress) * 256 + 241 + i + skips]

IsLegacyTunnelAddresses(ownAddress, p) ==
  \A i \in Slot : p[i] = Line(ownAddress) * 256 + i + 1

(* The line of a pool is that of its first entry that is not empty.        *)
IsCurrentTunnelPool(ownAddress, p) ==
  LET entries == {i \in Slot : p[i] # 0}
  IN  /\ entries # {}
      /\ Line(p[Min(entries)]) = Line(ownAddress)
      /\ ~IsLegacyTunnelAddresses(ownAddress, p)

IsUsableTunnelAddress(ownAddress, address) ==
  Device(address) # 0 /\ address # ownAddress

(* The pool addresses are handed out from: the written one while it is     *)
(* current, else the default one.                                          *)
CurrentPool ==
  IF DOMAIN pool = Slot /\ IsCurrentTunnelPool(own, pool)
    THEN pool
    ELSE DefaultTunnelAddresses(own)

(* Fault: a written pool is defended even when connects make it anew.      *)
BugDefendedPool ==
  IF own = Unprogrammed THEN {}
  ELSE {a \in {(IF DOMAIN pool = Slot THEN pool ELSE CurrentPool)[i] : i \in Slot} :
          IsUsableTunnelAddress(own, a)}

(* What refreshDefendedTunnelAddresses comes to.                           *)
DefendedPool ==
  IF own = Unprogrammed THEN {}
  ELSE {a \in {CurrentPool[i] : i \in Slot} : IsUsableTunnelAddress(own, a)}

Reserved(i) == DOMAIN res = Slot /\ res[i].active

TunnelAddressInUse(table, address) ==
  \E i \in Slot : table[i].ChannelId # 0 /\ table[i].IndividualAddress = address

(* Fault: open tunnels are not looked at.                                  *)
BugTunnelAddress(i, keepsOwn, table) ==
  LET from == IF keepsOwn THEN {i} ELSE {a \in Slot : ~Reserved(a)}
      free == {a \in from : IsUsableTunnelAddress(own, CurrentPool[a])}
  IN  IF free = {} THEN 0 ELSE CurrentPool[Min(free)]

(* Fault: the addresses of reserved slots are not left alone.              *)
BugReservedAddress(i, keepsOwn, table) ==
  LET from == IF keepsOwn THEN {i} ELSE Slot
      free == {a \in from : /\ IsUsableTunnelAddress(own, CurrentPool[a])
                            /\ ~TunnelAddressInUse(table, CurrentPool[a])}
  IN  IF free = {} THEN 0 ELSE CurrentPool[Min(free)]

(* The address for a tunnel on slot i when the slots are as in table; 0    *)
(* when there is none.  A reserved slot has its own address, any other     *)
(* tunnel takes the first free one that is not a reserved slot's.          *)
TunnelAddress(i, keepsOwn, table) ==
  LET from == IF keepsOwn THEN {i} ELSE {a \in Slot : ~Reserved(a)}
      free == {a \in from : /\ IsUsableTunnelAddress(own, CurrentPool[a])
                            /\ ~TunnelAddressInUse(table, CurrentPool[a])}
  IN  IF free = {} THEN 0 ELSE CurrentPool[Min(free)]

(* Fault: the next number is taken as it is.                               *)
BugNextChannelId(table) == IF lastChannelId + 1 = IdMod THEN 1 ELSE lastChannelId + 1

(* The octet is counted on until no slot has it.  A free slot has 0, so 0  *)
(* is not given to a connection.                                           *)
NextChannelId(table) ==
  LET After(k) == (lastChannelId + k) % IdMod
  IN  After(Min({k \in 1 .. IdMod : \A i \in Slot : table[i].ChannelId # After(k)}))

-----------------------------------------------------------------------------
(* loopHandleConnectRequest.                                               *)

ReservedFor(r) ==
  {i \in Slot : Reserved(i) /\ r.type = "tunnel" /\ res[i].ip = r.ip}
FreeReserved(r) == {i \in ReservedFor(r) : ~Open(i)}
OnlyOccupied(r) == ReservedFor(r) # {} /\ FreeReserved(r) = {}
FreeUnreserved == {i \in Slot : ~Reserved(i) /\ ~Open(i)}

(* Slot i of table for request r, or a refusal if no address is left; the  *)
(* response reaches the client or is lost.                                 *)
Assign(i, keepsOwn, table, r, heard) ==
  LET address == TunnelAddress(i, keepsOwn, table)
      id == NextChannelId(table)
  IN  IF r.type = "tunnel" /\ address = 0
        THEN slots' = table /\ UNCHANGED lastChannelId
        ELSE /\ slots' = [table EXCEPT ![i] =
                  [ChannelId |-> id,
                   IndividualAddress |-> IF r.type = "tunnel" THEN address ELSE 0,
                   IpAddress |-> r.ip, PeerAddress |-> r.src,
                   IsConfig |-> r.type = "config", age |-> 0, heard |-> heard]]
             /\ lastChannelId' = IF id = IdMod - 1 THEN 0 ELSE id

(* A pool that is not current is made anew.                                *)
RenewPool ==
  /\ pool' = CurrentPool
  /\ UNCHANGED <<own, res, defended, stale>>

(* The client's reserved slot is free.                                     *)
ConnectReserved(r, heard) ==
  /\ FreeReserved(r) # {}
  /\ Assign(Min(FreeReserved(r)), TRUE, slots, r, heard)
  /\ RenewPool

(* It is occupied and, by option 2, taken over.                            *)
ConnectTakingOver(r, heard) ==
  LET i == Min(ReservedFor(r))
  IN  /\ OnlyOccupied(r)
      /\ res[i].option = 2
      /\ IsUsableTunnelAddress(own, CurrentPool[i])
      /\ Assign(i, TRUE, [slots EXCEPT ![i] = FreeSlot], r, heard)
      /\ RenewPool

(* No slot is reserved for the client, or its slot is occupied and option  *)
(* 3 lets it have another.                                                 *)
ConnectUnreserved(r, heard) ==
  /\ \/ ReservedFor(r) = {}
     \/ OnlyOccupied(r) /\ res[Min(ReservedFor(r))].option = 3
  /\ FreeUnreserved # {}
  /\ Assign(Min(FreeUnreserved), FALSE, slots, r, heard)
  /\ RenewPool

(* Otherwise the request is refused.                                       *)
ConnectRefused(r) ==
  LET i == Min(ReservedFor(r))
  IN  /\ \/ ReservedFor(r) = {} /\ FreeUnreserved = {}
         \/ /\ OnlyOccupied(r)
            /\ \/ res[i].option \in {0, 1}
               \/ res[i].option = 2 /\ ~IsUsableTunnelAddress(own, CurrentPool[i])
               \/ res[i].option = 3 /\ FreeUnreserved = {}
      /\ RenewPool
      /\ UNCHANGED <<slots, lastChannelId>>

ConnectRequest(r, heard) ==
  \/ ConnectReserved(r, heard)
  \/ ConnectTakingOver(r, heard)
  \/ ConnectUnreserved(r, heard)
  \/ ConnectRefused(r)

-----------------------------------------------------------------------------
(* Open connections.                                                       *)

(* External: who sends datagrams for the channel of slot i.  Its client    *)
(* once it has the connect response, and any other host that remembers the *)
(* same id from an earlier connection.                                     *)
Sends(host, i) ==
  slots[i].heard \/ host \notin {slots[i].IpAddress, slots[i].PeerAddress}

(* Fault: anyone keeps a channel open.                                     *)
BugIsClient(host, i) == TRUE

(* Heartbeats come from the source or the control endpoint of the connect. *)
IsClient(host, i) == host \in {slots[i].IpAddress, slots[i].PeerAddress}

(* loopHandleConnectionStateRequest; the state of the bus changes the      *)
(* answer only.                                                            *)
ConnectionStateRequest(host, i) ==
  /\ Open(i) /\ Sends(host, i)
  /\ IsClient(host, i)
  /\ slots' = [slots EXCEPT ![i].age = 0]
  /\ UNCHANGED <<lastChannelId, config>>

(* loopHandleDisconnectRequest.                                            *)
DisconnectRequest(host, i) ==
  /\ Open(i) /\ Sends(host, i)
  /\ host = slots[i].PeerAddress
  /\ slots' = [slots EXCEPT ![i] = FreeSlot]
  /\ UNCHANGED <<lastChannelId, config>>

(* loopTunnelTimers: no heartbeat for 120 s.                               *)
HeartbeatTimeout(i) ==
  /\ Open(i)
  /\ slots[i].age = HeartbeatLimit
  /\ slots' = [slots EXCEPT ![i] = FreeSlot]
  /\ UNCHANGED <<lastChannelId, config>>

(* resendOrCloseTunnel: a request was never acknowledged.                  *)
CloseUnacknowledged(i) ==
  /\ Open(i)
  /\ slots' = [slots EXCEPT ![i] = FreeSlot]
  /\ UNCHANGED <<lastChannelId, config>>

(* Time passes.  The loop sees a timer that ran out before the next step.  *)
Tick ==
  /\ \A i \in Slot : Open(i) => slots[i].age < HeartbeatLimit
  /\ slots' = [i \in Slot |-> IF Open(i) THEN [slots[i] EXCEPT !.age = @ + 1]
                                         ELSE slots[i]]
  /\ UNCHANGED <<lastChannelId, config>>

(* External: the client of slot i crashes or loses its network.            *)
ClientGone(i) ==
  /\ Open(i) /\ slots[i].heard
  /\ slots' = [slots EXCEPT ![i].heard = FALSE]
  /\ UNCHANGED <<lastChannelId, config>>

-----------------------------------------------------------------------------
(* Configuration.                                                          *)

(* refreshDefendedTunnelAddresses, once a second.                          *)
RefreshDefendedTunnelAddresses ==
  /\ defended' = DefendedPool
  /\ stale' = FALSE
  /\ UNCHANGED <<slots, lastChannelId, own, pool, res>>

(* A tool writes the address, the pool or the reservations.                *)
Configure ==
  /\ \/ own' \in OwnAddresses /\ UNCHANGED <<pool, res>>
     \/ pool' \in Pools /\ UNCHANGED <<own, res>>
     \/ res' \in Reservations /\ UNCHANGED <<own, pool>>
  /\ stale' = TRUE
  /\ UNCHANGED <<slots, lastChannelId, defended>>

-----------------------------------------------------------------------------
(* The loop refreshes the defended addresses before its first datagram.    *)
Init ==
  /\ slots = [i \in Slot |-> FreeSlot]
  /\ lastChannelId = 0
  /\ own \in OwnAddresses
  /\ pool \in Pools
  /\ res \in Reservations
  /\ defended = DefendedPool
  /\ stale = FALSE

Connections ==
  \/ \E r \in Requests, heard \in BOOLEAN : ConnectRequest(r, heard)
  \/ \E i \in Slot :
       \/ \E host \in Hosts :
            \/ ConnectionStateRequest(host, i)
            \/ DisconnectRequest(host, i)
       \/ HeartbeatTimeout(i)
       \/ CloseUnacknowledged(i)
       \/ ClientGone(i)
  \/ Tick
  \/ RefreshDefendedTunnelAddresses

Next == Connections \/ Configure

(* The loop keeps looking at the timers, and time goes on.                 *)
Fairness == WF_vars(Tick) /\ \A i \in Slot : WF_vars(HeartbeatTimeout(i))

Spec == Init /\ [][Next]_vars

(* The configuration stays what it was at start-up.                        *)
SettledSpec == Init /\ [][Connections]_vars
FairSettledSpec == SettledSpec /\ Fairness

-----------------------------------------------------------------------------
(* Properties.                                                             *)

TypeOK ==
  /\ slots \in [Slot -> Connection]
  /\ lastChannelId \in 0 .. IdMod - 2
  /\ own \in Address
  /\ pool \in [Slot -> Address] \union {Empty}
  /\ res \in [Slot -> Reservation] \union {Empty}
  /\ defended \subseteq Address
  /\ stale \in BOOLEAN

UniqueChannelIds ==
  \A i, j \in Slot :
    i # j /\ Open(i) => slots[i].ChannelId # slots[j].ChannelId

UniqueTunnelAddresses ==
  /\ \A i, j \in Tunnels :
       i # j => slots[i].IndividualAddress # slots[j].IndividualAddress
  /\ \A i \in Slot : i \in Tunnels <=> slots[i].IndividualAddress # 0

(* No two connections have the same channel id, not even after the octet   *)
(* wraps past ids still in use (the do-while of loopHandleConnectRequest); *)
(* no two tunnels send under the same individual address, however pool,    *)
(* reservations and own address are rewritten under open tunnels, and a    *)
(* device management connection has none.                                  *)
ConnectionsDiffer == UniqueChannelIds /\ UniqueTunnelAddresses

NewTunnel(i) == i \in Tunnels' /\ slots'[i].ChannelId # slots[i].ChannelId

(* The address a connect hands out is one the device was already           *)
(* defending on the bus, so no new device can have been given it: the      *)
(* refresh and the connect, which work it out apart, agree.                *)
NewAddressIsDefended ==
  [][\A i \in Slot : NewTunnel(i) /\ ~stale /\ own # Unprogrammed =>
       slots'[i].IndividualAddress \in defended]_vars

(* With a settled configuration and no address twice in the pool, what is  *)
(* reserved for a client stays there for it: only its tunnels are on the   *)
(* slot, and while the slot is free no other tunnel has its address.       *)
ReservedSlotsKept ==
  \A i \in Slot : Reserved(i) =>
    /\ Open(i) => slots[i].IpAddress = res[i].ip /\ ~slots[i].IsConfig
    /\ ~Open(i) /\ (\A j \in Slot \ {i} : CurrentPool[j] # CurrentPool[i]) =>
         \A j \in Tunnels : slots[j].IndividualAddress # CurrentPool[i]

(* A connection whose client is gone, or never got its connect response    *)
(* and asked again, is closed at last, though other hosts go on sending    *)
(* heartbeats for the channel id it reuses: the slots do not leak away.    *)
(* (A slot reserved with option 2 can be taken over ever again instead.)   *)
AbandonedSlotFreed ==
  \A i \in Slot :
    Open(i) /\ ~slots[i].heard /\ ~(Reserved(i) /\ res[i].option = 2)
      ~> ~Open(i)

=============================================================================
