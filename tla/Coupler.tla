------------------------------ MODULE Coupler -------------------------------
(***************************************************************************)
(* The network layer of the coupler (NetworkLayerCoupler) between the IP   *)
(* side, its primary interface, and the TP line, its secondary, with the   *)
(* decision to acknowledge a frame of the TP line (Bau091A::isAckRequired).*)
(*                                                                         *)
(* The acknowledge is decided in the UART task while the frame comes in;   *)
(* the main loop routes the frame later, when the device address, the      *)
(* configuration or the tunnels may have changed.  Where a frame goes is a *)
(* function of the state (Outcome); the handlers change only the coupler   *)
(* type, which is found anew when a frame is judged, and the ring of       *)
(* arrivals, which has the interface each partner was heard on.            *)
(*                                                                         *)
(* The device is configured while it runs: ETS writes its address, the     *)
(* configuration properties, tunnels come and go.                          *)
(***************************************************************************)
EXTENDS Integers, Sequences, FiniteSets

CONSTANTS
  OwnAddresses,     \* addresses the device may be given
  Partners,         \* addresses of other devices
  TunnelAddresses,  \* the addresses of tunnels, defended on the TP line
  Groups,
  HighGroups,       \* main groups 14 to 31
  LcConfigs,        \* values of PID_MAIN_LCCONFIG and PID_SUB_LCCONFIG
  GrpConfigs,       \* values of PID_MAIN_LCGRPCONFIG and PID_SUB_LCGRPCONFIG
  Telegrams,        \* frames other devices send
  Slots,            \* KNX_COUPLER_ARRIVAL_SLOTS: 4
  MaxPasses,        \* bound: times a frame passes the device
  MaxWrites         \* bound: writes to the configuration

(* An address has an area, a line and a device part.                       *)
Address == (0 .. 15) \X (0 .. 15) \X (0 .. 255)
Factory == <<15, 15, 0>>

Mode == {"route", "lock", "unlock"}
LcConfig == [phys : Mode, broadcastLock : BOOLEAN, groupIackRout : BOOLEAN,
             physIack : {"normal", "all", "nack"}]
GrpConfig == [low : Mode, high : Mode]

ASSUME AddressAssumption ==
  /\ OwnAddresses \subseteq Address /\ Factory \in OwnAddresses
  /\ Partners \subseteq Address /\ TunnelAddresses \subseteq Partners
  /\ Partners \intersect OwnAddresses = {}
ASSUME ConfigAssumption == LcConfigs \subseteq LcConfig /\ GrpConfigs \subseteq GrpConfig
ASSUME GroupAssumption == HighGroups \subseteq Groups
ASSUME SlotsAssumption == Slots \in Nat /\ Slots > 0
ASSUME BoundAssumption == MaxPasses \in Nat /\ MaxWrites \in Nat

Side == {"ip", "tp"}
Opposite(side) == IF side = "ip" THEN "tp" ELSE "ip"

(* passes and first are history: how often the frame passed the device and *)
(* its hop count before.                                                   *)
IndividualFrame ==
  [kind : {"individual"}, source : Partners, destination : Partners \union OwnAddresses,
   hop : 0 .. 7, passes : 0 .. MaxPasses, first : 0 .. 7]
GroupFrame ==
  [kind : {"group"}, source : Partners, destination : Groups,
   hop : 0 .. 7, passes : 0 .. MaxPasses, first : 0 .. 7]
BroadcastFrame ==
  [kind : {"broadcast"}, source : Partners, destination : {0},
   hop : 0 .. 7, passes : 0 .. MaxPasses, first : 0 .. 7]
Frame == IndividualFrame \union GroupFrame \union BroadcastFrame

(* A frame as it was sent.                                                 *)
New(kind, source, destination, hop) ==
  [kind |-> kind, source |-> source, destination |-> destination,
   hop |-> hop, passes |-> 0, first |-> hop]

ASSUME TelegramAssumption ==
  Telegrams \subseteq {f \in Frame : f = New(f.kind, f.source, f.destination, f.hop)}

Arrival == [partner : Partners, side : Side]
Free == [partner |-> Factory, side |-> "ip"]    \* an entry of 0
Nowhere == "none"                               \* kLocalIfIndex

VARIABLES
  address,      \* the device's individual address
  couplerType,  \* _couplerType
  arrivals,     \* _arrivals
  arrivalNext,  \* _arrivalNext
  lc, grp,      \* the configuration of each interface
  channels,     \* tunnel addresses with an open channel
  writes,       \* bound: writes so far
  rx,           \* frames of the TP line between the UART task and the main loop
  echo,         \* a frame that another coupler hands back to the side it came from
  last,         \* history: where each partner was heard last
  newer         \* history: partners entered since it was entered, to Slots

config == <<address, lc, grp, channels, writes>>
vars == <<address, couplerType, arrivals, arrivalNext, lc, grp, channels,
          writes, rx, echo, last, newer>>

-----------------------------------------------------------------------------
(* The decisions.                                                          *)

(* individualAddressProgrammed, routingActive.                             *)
Programmed == address # Factory

(* A device that is not a router keeps the type it had.                    *)
EvaluateCouplerType ==
  CASE address[3] # 0 -> couplerType
    [] address[3] = 0 /\ address[2] = 0 -> "backbone"
    [] address[3] = 0 /\ address[2] # 0 -> "line"

(* _currentAddress is the address of the constructor, the factory's.       *)
TypeNow == IF address # Factory THEN EvaluateCouplerType ELSE couplerType

InScope(type, destination) ==
  /\ destination[1] = address[1]
  /\ type = "line" => destination[2] = address[2]

IsRoutedIndividualAddress(destination, side) ==
  IF side = "ip" THEN InScope(TypeNow, destination) ELSE ~InScope(TypeNow, destination)

(* In mode "route" the filter table decides.  It never is loaded: its 8192 *)
(* octets do not fit the NVM of this firmware, so no group passes.         *)
IsRoutedGroupAddress(group, side) ==
  LET mode == IF group \in HighGroups THEN grp[side].high ELSE grp[side].low
  IN  mode = "unlock"

(* Fault: a hop count of 1 is not the last.                                *)
BugHop(f) == [f EXCEPT !.hop = IF @ > 1 /\ @ < 7 THEN @ - 1 ELSE @,
                       !.passes = IF @ < MaxPasses THEN @ + 1 ELSE @]

Hop(f) == [f EXCEPT !.hop = IF @ < 7 THEN @ - 1 ELSE @,
                    !.passes = IF @ < MaxPasses THEN @ + 1 ELSE @]

(* What is sent to the IP side of a device that does not route is dropped. *)
SendMsgHopCount(f, side) ==
  IF \/ f.kind = "group" /\ ~IsRoutedGroupAddress(f.destination, side)
     \/ f.hop = 0
     \/ side = "tp" /\ ~Programmed
    THEN {} ELSE {Hop(f)}

ForDevice(f) == f.kind = "individual" /\ f.destination = address

(* What the other side is sent.                                            *)
Routed(f, side) ==
  CASE ForDevice(f) -> {}
    [] f.kind = "individual" /\ ~ForDevice(f) ->
         IF \/ lc[side].phys = "unlock"
            \/ lc[side].phys = "route" /\ IsRoutedIndividualAddress(f.destination, side)
           THEN SendMsgHopCount(f, side) ELSE {}
    [] f.kind = "group" -> SendMsgHopCount(f, side)
    [] f.kind = "broadcast" ->
         IF lc[side].broadcastLock THEN {} ELSE SendMsgHopCount(f, side)

(* What is left to a tunnel.  A frame of the TP line goes to tunnels too.  *)
ToTunnel(f) ==
  \/ f.kind = "individual" /\ f.destination \in channels
  \/ f.kind # "individual" /\ channels # {}

(* The pool is defended while the device has an address.                   *)
Defended(destination) == Programmed /\ destination \in TunnelAddresses

JudgesTopology(f) == f.kind = "individual" /\ lc["tp"].physIack = "normal"

(* Fault: a routed address is acknowledged by a device that does not route.*)
BugReaches(destination) ==
  IsRoutedIndividualAddress(destination, "tp") \/ destination = address

Reaches(destination) ==
  \/ IsRoutedIndividualAddress(destination, "tp") /\ Programmed
  \/ destination = address

(* Fault: the filter of the other direction is asked.                      *)
BugReachesGroup(group) == IsRoutedGroupAddress(group, "ip")

ReachesGroup(group) == IsRoutedGroupAddress(group, "tp")

IsAckRequired(f) ==
  IF \/ f.kind = "broadcast"
     \/ f.kind = "group" /\ (~lc["tp"].groupIackRout \/ ReachesGroup(f.destination))
     \/ f.kind = "individual" /\ lc["tp"].physIack = "all"
     \/ JudgesTopology(f) /\ Reaches(f.destination)
     \/ f.kind = "individual" /\ Defended(f.destination)
     \/ f.kind # "broadcast" /\ ToTunnel(f)
    THEN "ack"
    ELSE IF f.kind = "individual" /\ lc["tp"].physIack = "nack" THEN "nack" ELSE "none"

-----------------------------------------------------------------------------
(* The ring of arrivals.                                                   *)

Holds(p) == {i \in DOMAIN arrivals : arrivals[i] # Free /\ arrivals[i].partner = p}

(* Fault: a partner held already is entered again.                         *)
BugNoteArrival(p, side) ==
  /\ arrivals' = [arrivals EXCEPT ![arrivalNext] = [partner |-> p, side |-> side]]
  /\ arrivalNext' = (arrivalNext + 1) % Slots

NoteArrival(p, side) ==
  LET entry == [partner |-> p, side |-> side]
  IN  IF Holds(p) # {}
        THEN /\ \E i \in Holds(p) :
                  /\ \A j \in Holds(p) : i <= j
                  /\ arrivals' = [arrivals EXCEPT ![i] = entry]
             /\ UNCHANGED arrivalNext
        ELSE /\ arrivals' = [arrivals EXCEPT ![arrivalNext] = entry]
             /\ arrivalNext' = (arrivalNext + 1) % Slots

ArrivalInterface(p) ==
  IF Holds(p) = {} THEN Nowhere
  ELSE arrivals[CHOOSE i \in Holds(p) : \A j \in Holds(p) : i <= j].side

(* Where a frame of the device itself goes: routeDataIndividual with       *)
(* kLocalIfIndex.  couplerType is not found anew here.                     *)
AnswerSide(p) ==
  LET topology == IF InScope(couplerType, p) THEN "tp" ELSE "ip"
      chosen == IF ArrivalInterface(p) = Nowhere THEN topology ELSE ArrivalInterface(p)
  IN  IF chosen = "ip" /\ p \in channels THEN "tp" ELSE chosen

Young(p) == last[p] # Nowhere /\ newer[p] < Slots

(* History: p was heard on side.                                           *)
Heard(p, side) ==
  /\ last' = [last EXCEPT ![p] = side]
  /\ newer' = IF Young(p) THEN newer
              ELSE [q \in Partners |-> IF q = p THEN 0
                                       ELSE IF newer[q] < Slots THEN newer[q] + 1 ELSE Slots]

-----------------------------------------------------------------------------
(* Frames.                                                                 *)

(* Telegrams of others, and what came back.                                *)
Arriving(side) == Telegrams \union {e.frame : e \in {e \in echo : e.side = side}}

(* External: another coupler between the same two sides takes what the     *)
(* device sent, counts it down as this one does, and returns it.           *)
Returned(f, side) ==
  {[frame |-> [g EXCEPT !.hop = IF @ < 7 THEN @ - 1 ELSE @], side |-> side] :
     g \in {g \in Routed(f, side) : g.hop > 0 /\ g.passes < MaxPasses}}

(* dataIndication and broadcastIndication.                                 *)
FrameReceived(f, side) ==
  /\ IF ForDevice(f)
       THEN NoteArrival(f.source, side) /\ Heard(f.source, side)
       ELSE UNCHANGED <<arrivals, arrivalNext, last, newer>>
  /\ couplerType' = IF /\ f.kind = "individual" /\ ~ForDevice(f)
                       /\ lc[side].phys = "route"
                      THEN TypeNow ELSE couplerType
  /\ echo' \in {{}, Returned(f, side)}

(* The UART task takes a frame of the line and acknowledges it.            *)
TpReceive(f) ==
  /\ rx = <<>>
  /\ rx' = <<[frame |-> f, ack |-> IsAckRequired(f), unchanged |-> TRUE]>>
  /\ couplerType' = IF JudgesTopology(f) THEN TypeNow ELSE couplerType
  /\ echo' = {}
  /\ UNCHANGED <<config, arrivals, arrivalNext, last, newer>>

(* The main loop routes it.                                                *)
TpProcess ==
  /\ rx # <<>> /\ rx' = Tail(rx)
  /\ FrameReceived(Head(rx).frame, "tp")
  /\ UNCHANGED config

(* A ROUTING_INDICATION, left alone by a device that does not route.       *)
IpReceive(f) ==
  /\ Programmed
  /\ FrameReceived(f, "ip")
  /\ UNCHANGED <<config, rx>>

(* A telegram a tunnel asks to be sent, with the tunnel's address.  It is  *)
(* received here as from the TP line (dataRequestFromTunnel).              *)
TunnelSends(f) ==
  /\ f.source \in channels
  /\ FrameReceived(f, "tp")
  /\ UNCHANGED <<config, rx>>

-----------------------------------------------------------------------------
(* Configuration, in the main loop.  The frame in rx was acknowledged with *)
(* the one before.                                                         *)

Changed ==
  /\ rx' = IF rx = <<>> THEN rx ELSE <<[Head(rx) EXCEPT !.unchanged = FALSE]>>
  /\ UNCHANGED <<couplerType, arrivals, arrivalNext, echo, last, newer>>

Configured ==
  /\ writes < MaxWrites /\ writes' = writes + 1
  /\ Changed

WriteAddress(a) ==
  /\ address' = a /\ a # address
  /\ Configured /\ UNCHANGED <<lc, grp, channels>>

WriteLcConfig(side, c) ==
  /\ lc' = [lc EXCEPT ![side] = c] /\ lc' # lc
  /\ Configured /\ UNCHANGED <<address, grp, channels>>

WriteGrpConfig(side, c) ==
  /\ grp' = [grp EXCEPT ![side] = c] /\ grp' # grp
  /\ Configured /\ UNCHANGED <<address, lc, channels>>

(* A tunnel is opened or closed.                                           *)
TunnelChanges(a) ==
  /\ channels' = IF a \in channels THEN channels \ {a} ELSE channels \union {a}
  /\ Changed /\ UNCHANGED <<address, lc, grp, writes>>

(* What is not configuration starts anew.                                  *)
Restart ==
  /\ couplerType' = "line"
  /\ arrivals' = [i \in 0 .. Slots - 1 |-> Free] /\ arrivalNext' = 0
  /\ channels' = {} /\ rx' = <<>> /\ echo' = {}
  /\ last' = [p \in Partners |-> Nowhere] /\ newer' = [p \in Partners |-> 0]
  /\ UNCHANGED <<address, lc, grp, writes>>

-----------------------------------------------------------------------------
DefaultLc == [phys |-> "route", broadcastLock |-> FALSE, groupIackRout |-> TRUE,
              physIack |-> "normal"]
DefaultGrp == [low |-> "route", high |-> "unlock"]

(* The type is that of the factory's address.                              *)
Init ==
  /\ address = Factory /\ couplerType = "line"
  /\ arrivals = [i \in 0 .. Slots - 1 |-> Free] /\ arrivalNext = 0
  /\ lc = [s \in Side |-> DefaultLc] /\ grp = [s \in Side |-> DefaultGrp]
  /\ channels = {} /\ writes = 0
  /\ rx = <<>> /\ echo = {}
  /\ last = [p \in Partners |-> Nowhere] /\ newer = [p \in Partners |-> 0]

Next ==
  \/ \E f \in Arriving("tp") : TpReceive(f)
  \/ \E f \in Arriving("ip") : IpReceive(f)
  \/ \E f \in Telegrams : TunnelSends(f)
  \/ TpProcess
  \/ \E a \in OwnAddresses : WriteAddress(a)
  \/ \E s \in Side, c \in LcConfigs : WriteLcConfig(s, c)
  \/ \E s \in Side, c \in GrpConfigs : WriteGrpConfig(s, c)
  \/ \E a \in TunnelAddresses : TunnelChanges(a)
  \/ Restart

Spec == Init /\ [][Next]_vars

-----------------------------------------------------------------------------
TypeOK ==
  /\ address \in OwnAddresses
  /\ couplerType \in {"line", "backbone"}
  /\ arrivals \in [0 .. Slots - 1 -> Arrival \union {Free}]
  /\ arrivalNext \in 0 .. Slots - 1
  /\ lc \in [Side -> LcConfig] /\ grp \in [Side -> GrpConfig]
  /\ channels \subseteq TunnelAddresses
  /\ rx \in Seq([frame : Frame, ack : {"ack", "nack", "none"}, unchanged : BOOLEAN])
  /\ Len(rx) <= 1 /\ writes \in 0 .. MaxWrites
  /\ echo \subseteq [frame : Frame, side : Side]
  /\ last \in [Partners -> Side \union {Nowhere}]
  /\ newer \in [Partners -> 0 .. Slots]

(* No partner has two entries in the ring; the older one would send its    *)
(* answers the wrong way (noteArrival, arrivalInterface).                  *)
OneEntryEach == \A i, j \in DOMAIN arrivals :
  arrivals[i] # Free /\ arrivals[i].partner = arrivals[j].partner => i = j

(* A partner is answered on the interface its last frame to the device     *)
(* came in on, until as many others as the ring has slots were entered     *)
(* after it; a tunnel is reached through the TP side.                      *)
AnswersGoBack ==
  \A p \in Partners :
    Young(p) => AnswerSide(p) = IF p \in channels THEN "tp" ELSE last[p]

(* A frame of the line that the device acknowledges is taken: by the       *)
(* device, a tunnel or the IP side.  The code exempts what another tunnel  *)
(* address of the pool is meant for, interfaces set to acknowledge all,    *)
(* a locked interface, hop count 0 and, for groups, a device that does not *)
(* route (isAckRequired, routeDataIndividual, sendMsgHopCount).            *)
AckedIsTaken ==
  \A i \in DOMAIN rx :
    LET f == rx[i].frame
    IN  /\ rx[i].unchanged /\ rx[i].ack = "ack" /\ f.hop > 0
        /\ f.kind = "individual" =>
             lc["tp"].phys # "lock" /\ lc["tp"].physIack # "all" /\ ~Defended(f.destination)
        /\ f.kind = "group" => Programmed /\ lc["tp"].groupIackRout
        /\ f.kind # "broadcast"
        => ForDevice(f) \/ ToTunnel(f) \/ Routed(f, "tp") # {}

(* What goes on to the IP side was acknowledged: its sender does not       *)
(* repeat it, and it does not go there twice.  An unlocked interface       *)
(* acknowledges by topology still, and one set to refuse does not at all.  *)
CarriedIsAcked ==
  \A i \in DOMAIN rx :
    LET f == rx[i].frame
    IN  /\ rx[i].unchanged /\ Routed(f, "tp") # {}
        /\ f.kind = "individual" =>
             lc["tp"].phys = "route" /\ lc["tp"].physIack # "nack"
        => rx[i].ack = "ack"

(* Between two couplers a frame does not circle for ever, unless it was    *)
(* sent with hop count 7 (sendMsgHopCount).                                *)
HopsRunOut ==
  \A f \in {e.frame : e \in echo} \union {rx[i].frame : i \in DOMAIN rx} :
    f.first < 7 => f.hop + 2 * f.passes <= f.first

=============================================================================
