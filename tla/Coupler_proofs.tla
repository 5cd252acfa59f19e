--------------------------- MODULE Coupler_proofs ---------------------------
(***************************************************************************)
(* Theorems about Coupler: hop counts, acknowledges and the ring of        *)
(* arrivals, for every configuration, topology and number of slots.        *)
(***************************************************************************)
EXTENDS Coupler, TLAPS

USE AddressAssumption, SlotsAssumption

CouplerTypes == {"line", "backbone"}

LEMMA TypeNowType ==
  ASSUME couplerType \in CouplerTypes
  PROVE  TypeNow \in CouplerTypes
BY DEF TypeNow, EvaluateCouplerType, CouplerTypes

-----------------------------------------------------------------------------
(* Frames and their hop counts.                                            *)

Bounded(f) == f.first < 7 => f.hop + 2 * f.passes <= f.first

LEMMA FrameFields ==
  ASSUME NEW f \in Frame
  PROVE  /\ f.hop \in 0 .. 7 /\ f.first \in 0 .. 7 /\ f.passes \in 0 .. MaxPasses
         /\ f.kind \in {"individual", "group", "broadcast"}
         /\ f.source \in Partners
BY DEF Frame, IndividualFrame, GroupFrame, BroadcastFrame

LEMMA TelegramIsNew ==
  ASSUME NEW f \in Telegrams
  PROVE  f \in Frame /\ Bounded(f)
<1>1. f \in Frame /\ f.passes = 0 /\ f.hop = f.first
  BY TelegramAssumption DEF New
<1> QED BY <1>1, FrameFields DEF Bounded

(* What is routed is the frame with one hop less.                          *)
LEMMA RoutedIsHop ==
  ASSUME NEW f \in Frame, NEW side, NEW g \in Routed(f, side)
  PROVE  g = Hop(f) /\ f.hop > 0
<1>1. f.hop \in 0 .. 7 /\ f.kind \in {"individual", "group", "broadcast"}
  BY FrameFields
<1>2. g \in SendMsgHopCount(f, side)
  BY <1>1 DEF Routed, ForDevice
<1> QED BY <1>1, <1>2 DEF SendMsgHopCount

LEMMA HopType ==
  ASSUME NEW f \in Frame, f.hop > 0
  PROVE  /\ Hop(f) \in Frame
         /\ Hop(f).first = f.first
         /\ Hop(f).hop = IF f.hop < 7 THEN f.hop - 1 ELSE 7
         /\ Hop(f).passes = IF f.passes < MaxPasses THEN f.passes + 1 ELSE f.passes
<1> DEFINE hop == IF f.hop < 7 THEN f.hop - 1 ELSE f.hop
           passes == IF f.passes < MaxPasses THEN f.passes + 1 ELSE f.passes
<1>1. hop \in 0 .. 7 /\ passes \in 0 .. MaxPasses
  BY FrameFields, BoundAssumption
<1>2. Hop(f) = [f EXCEPT !.hop = hop, !.passes = passes]
  BY DEF Hop
<1>3. f.hop < 7 \/ f.hop = 7
  BY FrameFields
<1> HIDE DEF hop, passes
<1>4. /\ Hop(f) \in Frame
      /\ Hop(f).first = f.first /\ Hop(f).hop = hop /\ Hop(f).passes = passes
  <2>1. CASE f \in IndividualFrame
    BY <2>1, <1>1, <1>2 DEF Frame, IndividualFrame
  <2>2. CASE f \in GroupFrame
    BY <2>2, <1>1, <1>2 DEF Frame, GroupFrame
  <2>3. CASE f \in BroadcastFrame
    BY <2>3, <1>1, <1>2 DEF Frame, BroadcastFrame
  <2> QED BY <2>1, <2>2, <2>3 DEF Frame
<1> QED BY <1>3, <1>4 DEF hop, passes

LEMMA ReturnedType ==
  ASSUME NEW f \in Frame, NEW side \in Side, NEW e \in Returned(f, side)
  PROVE  /\ e \in [frame : Frame, side : Side]
         /\ Bounded(f) => Bounded(e.frame)
<1>1. PICK g \in Routed(f, side) :
        /\ g.hop > 0 /\ g.passes < MaxPasses
        /\ e = [frame |-> [g EXCEPT !.hop = IF @ < 7 THEN @ - 1 ELSE @], side |-> side]
  BY DEF Returned
<1>2. g = Hop(f) /\ f.hop > 0
  BY RoutedIsHop
<1>3. /\ g \in Frame /\ g.first = f.first
      /\ g.hop = IF f.hop < 7 THEN f.hop - 1 ELSE 7
      /\ g.passes = IF f.passes < MaxPasses THEN f.passes + 1 ELSE f.passes
  BY <1>2, HopType
<1>4. e.frame \in Frame /\ e.side \in Side
  BY <1>1, <1>3 DEF Frame, IndividualFrame, GroupFrame, BroadcastFrame
<1>5. /\ e.frame.first = g.first /\ e.frame.passes = g.passes
      /\ e.frame.hop = IF g.hop < 7 THEN g.hop - 1 ELSE g.hop
  BY <1>1, <1>3 DEF Frame, IndividualFrame, GroupFrame, BroadcastFrame
<1>6. Bounded(f) => Bounded(e.frame)
  <2>1. f.hop \in 0 .. 7 /\ f.first \in 0 .. 7 /\ f.passes \in 0 .. MaxPasses
    BY FrameFields
  <2>2. f.passes < MaxPasses
    BY <1>1, <1>3, <2>1, BoundAssumption
  <2> QED BY <1>1, <1>3, <1>5, <2>1, <2>2, BoundAssumption DEF Bounded
<1> QED BY <1>1, <1>4, <1>6

(* What arrives is of the type and within its bound.                       *)
LEMMA ArrivingType ==
  ASSUME TypeOK, HopsRunOut, NEW side, NEW f \in Arriving(side)
  PROVE  f \in Frame /\ Bounded(f)
<1>1. CASE f \in Telegrams
  BY <1>1, TelegramIsNew
<1>2. CASE f \notin Telegrams
  <2>1. PICK e \in echo : f = e.frame
    BY <1>2 DEF Arriving
  <2>2. f \in Frame BY <2>1 DEF TypeOK
  <2> QED BY <2>1, <2>2 DEF HopsRunOut, Bounded
<1> QED BY <1>1, <1>2

-----------------------------------------------------------------------------
(* The ring.                                                               *)

LEMMA NextSlot ==
  ASSUME NEW i \in 0 .. Slots - 1
  PROVE  (i + 1) % Slots = IF i + 1 = Slots THEN 0 ELSE i + 1
<1>1. CASE Slots = 1 BY <1>1
<1>2. CASE Slots > 1 /\ i + 1 = Slots
  BY <1>2
<1>3. CASE i + 1 < Slots
  BY <1>3
<1> QED BY <1>1, <1>2, <1>3

RingType ==
  /\ arrivals \in [0 .. Slots - 1 -> Arrival \union {Free}]
  /\ arrivalNext \in 0 .. Slots - 1
  /\ last \in [Partners -> Side \union {Nowhere}]
  /\ newer \in [Partners -> 0 .. Slots]

(* The slot of a partner as far back as newer says.                        *)
Place(p) ==
  IF newer[p] < arrivalNext THEN arrivalNext - 1 - newer[p]
                            ELSE arrivalNext - 1 - newer[p] + Slots

(* The ring holds the partners heard last, each where it was entered, and  *)
(* nobody else.                                                            *)
RingInv ==
  /\ \A p \in Partners :
       Young(p) => arrivals[Place(p)] = [partner |-> p, side |-> last[p]]
  /\ \A i \in 0 .. Slots - 1 : arrivals[i] # Free =>
       Young(arrivals[i].partner) /\ Place(arrivals[i].partner) = i

LEMMA PlaceType ==
  ASSUME RingType, NEW p \in Partners, Young(p)
  PROVE  Place(p) \in 0 .. Slots - 1
BY DEF RingType, Young, Place

LEMMA NotFree ==
  ASSUME NEW p \in Partners, NEW side
  PROVE  [partner |-> p, side |-> side] # Free
<1>1. p # Factory OBVIOUS
<1>2. [partner |-> p, side |-> side].partner # Free.partner
  BY <1>1 DEF Free
<1> QED BY <1>2

LEMMA Held ==
  ASSUME RingType, RingInv, NEW p \in Partners
  PROVE  Holds(p) = IF Young(p) THEN {Place(p)} ELSE {}
<1>1. ASSUME NEW i \in Holds(p) PROVE Young(p) /\ i = Place(p)
  BY <1>1 DEF Holds, RingInv, RingType
<1>2. ASSUME Young(p) PROVE Place(p) \in Holds(p)
  <2>1. arrivals[Place(p)] = [partner |-> p, side |-> last[p]]
    BY <1>2 DEF RingInv
  <2> QED BY <1>2, <2>1, PlaceType, NotFree DEF Holds, RingType
<1> QED BY <1>1, <1>2

LEMMA HeardRing ==
  ASSUME RingType, RingInv, NEW p \in Partners, NEW side \in Side,
         NoteArrival(p, side), Heard(p, side)
  PROVE  RingType' /\ RingInv'
<1> DEFINE entry == [partner |-> p, side |-> side]
<1>1. entry \in Arrival /\ entry # Free /\ entry.partner = p /\ entry.side = side
  BY NotFree DEF Arrival
<1>2. side # Nowhere
  BY DEF Side, Nowhere
<1>3. last' = [last EXCEPT ![p] = side] /\ last'[p] = side
  BY DEF Heard, RingType
<1>4. CASE Young(p)
  <2>1. Holds(p) = {Place(p)} /\ Place(p) \in 0 .. Slots - 1
    BY <1>4, Held, PlaceType
  <2>2. /\ arrivals' = [arrivals EXCEPT ![Place(p)] = entry]
        /\ arrivalNext' = arrivalNext /\ newer' = newer
    BY <1>4, <2>1 DEF NoteArrival, Heard
  <2>3. RingType'
    BY <1>1, <1>3, <2>1, <2>2 DEF RingType
  <2>4. ASSUME NEW q \in Partners
        PROVE  /\ Place(q)' = Place(q)
               /\ Young(q)' <=> Young(q)
    BY <1>2, <1>3, <1>4, <2>2 DEF Place, Young, RingType
  <2>5. ASSUME NEW q \in Partners, Young(q)'
        PROVE  (arrivals[Place(q)] = [partner |-> q, side |-> last[q]])'
    <3>1. arrivals[Place(q)] = [partner |-> q, side |-> last[q]]
      BY <2>4, <2>5 DEF RingInv
    <3>2. Place(q) \in 0 .. Slots - 1
      BY <2>4, <2>5, PlaceType
    <3>3. CASE q = p
      BY <3>3, <2>1, <2>2, <2>4, <1>3 DEF RingType
    <3>4. CASE q # p
      <4>1. arrivals[Place(p)] = [partner |-> p, side |-> last[p]]
        BY <1>4 DEF RingInv
      <4>2. arrivals[Place(q)].partner = q /\ arrivals[Place(p)].partner = p
        BY <4>1, <3>1
      <4>3. Place(q) # Place(p)
        BY <4>2, <3>4
      <4> QED BY <3>1, <3>2, <3>4, <4>3, <2>1, <2>2, <2>4, <1>3 DEF RingType
    <3> QED BY <3>3, <3>4
  <2>6. ASSUME NEW i \in 0 .. Slots - 1, arrivals'[i] # Free
        PROVE  Young(arrivals[i].partner)' /\ Place(arrivals[i].partner)' = i
    <3>1. CASE i = Place(p)
      BY <3>1, <2>2, <2>4, <1>1, <1>4 DEF RingType
    <3>2. CASE i # Place(p)
      <4>1. arrivals'[i] = arrivals[i]
        BY <3>2, <2>2 DEF RingType
      <4>2. arrivals[i] \in Arrival
        BY <4>1, <2>6 DEF RingType
      <4>3. PICK q \in Partners : q = arrivals[i].partner
        BY <4>2 DEF Arrival
      <4>4. Young(q) /\ Place(q) = i
        BY <4>1, <4>3, <2>6 DEF RingInv
      <4>5. Young(q)' /\ Place(q)' = i
        BY <4>4, <2>4
      <4> QED BY <4>1, <4>3, <4>5
    <3> QED BY <3>1, <3>2
  <2> QED BY <2>3, <2>5, <2>6 DEF RingInv
<1>5. CASE ~Young(p)
  <2>1. Holds(p) = {}
    BY <1>5, Held
  <2>2. /\ arrivals' = [arrivals EXCEPT ![arrivalNext] = entry]
        /\ arrivalNext' = IF arrivalNext + 1 = Slots THEN 0 ELSE arrivalNext + 1
    BY <2>1, NextSlot DEF NoteArrival, RingType
  <2>3. newer' = [q \in Partners |-> IF q = p THEN 0
                    ELSE IF newer[q] < Slots THEN newer[q] + 1 ELSE Slots]
    BY <1>5 DEF Heard
  <2>4. RingType'
    BY <1>1, <1>3, <2>2, <2>3 DEF RingType
  <2>5. Young(p)' /\ Place(p)' = arrivalNext
    BY <1>2, <1>3, <2>2, <2>3 DEF Young, Place, RingType
  <2>6. ASSUME NEW q \in Partners, q # p, Young(q), newer[q] + 1 < Slots
        PROVE  Young(q)' /\ Place(q)' = Place(q) /\ Place(q) # arrivalNext
    BY <1>3, <2>2, <2>3, <2>6 DEF Young, Place, RingType
  <2>7. ASSUME NEW q \in Partners, Young(q)'
        PROVE  (arrivals[Place(q)] = [partner |-> q, side |-> last[q]])'
    <3>1. CASE q = p
      BY <3>1, <2>2, <2>5, <1>3 DEF RingType
    <3>2. CASE q # p
      <4>1. Young(q) /\ newer[q] + 1 < Slots
        BY <3>2, <2>7, <2>3, <1>3 DEF Young, RingType
      <4>2. Place(q)' = Place(q) /\ Place(q) # arrivalNext /\ Place(q) \in 0 .. Slots - 1
        BY <3>2, <4>1, <2>6, PlaceType
      <4>3. arrivals[Place(q)] = [partner |-> q, side |-> last[q]]
        BY <4>1 DEF RingInv
      <4> QED BY <3>2, <4>2, <4>3, <2>2, <1>3 DEF RingType
    <3> QED BY <3>1, <3>2
  <2>8. ASSUME NEW i \in 0 .. Slots - 1, arrivals'[i] # Free
        PROVE  Young(arrivals[i].partner)' /\ Place(arrivals[i].partner)' = i
    <3>1. CASE i = arrivalNext
      BY <3>1, <2>2, <2>5, <1>1 DEF RingType
    <3>2. CASE i # arrivalNext
      <4>1. arrivals'[i] = arrivals[i]
        BY <3>2, <2>2 DEF RingType
      <4>2. arrivals[i] \in Arrival
        BY <4>1, <2>8 DEF RingType
      <4>3. PICK q \in Partners : q = arrivals[i].partner
        BY <4>2 DEF Arrival
      <4>4. Young(q) /\ Place(q) = i
        BY <4>1, <4>3, <2>8 DEF RingInv
      <4>5. q # p
        BY <4>4, <1>5
      <4>6. newer[q] + 1 < Slots
        BY <4>3, <4>4, <3>2 DEF Young, Place, RingType
      <4>7. Young(q)' /\ Place(q)' = i
        BY <4>4, <4>5, <4>6, <2>6
      <4> QED BY <4>1, <4>3, <4>7
    <3> QED BY <3>1, <3>2
  <2> QED BY <2>4, <2>7, <2>8 DEF RingInv
<1> QED BY <1>4, <1>5

-----------------------------------------------------------------------------
(* A frame judged, received or carried.                                    *)

(* Finding the coupler type again changes no decision: the type found is a *)
(* function of the address and of the type found before.                   *)
LEMMA SameDecisions ==
  ASSUME UNCHANGED config, couplerType' \in {couplerType, TypeNow}, NEW f
  PROVE  /\ Routed(f, "tp")' = Routed(f, "tp")
         /\ ForDevice(f)' = ForDevice(f) /\ ToTunnel(f)' = ToTunnel(f)
         /\ Defended(f.destination)' = Defended(f.destination)
         /\ Programmed' = Programmed /\ lc' = lc
<1>1. /\ address' = address /\ lc' = lc /\ grp' = grp
      /\ channels' = channels
  BY DEF config
<1>2. TypeNow' = TypeNow
  BY <1>1 DEF TypeNow, EvaluateCouplerType
<1>3. ASSUME NEW d
      PROVE  IsRoutedIndividualAddress(d, "tp")' = IsRoutedIndividualAddress(d, "tp")
  BY <1>1, <1>2 DEF IsRoutedIndividualAddress, InScope
<1>4. ASSUME NEW d PROVE IsRoutedGroupAddress(d, "tp")' = IsRoutedGroupAddress(d, "tp")
  BY <1>1 DEF IsRoutedGroupAddress
<1>5. SendMsgHopCount(f, "tp")' = SendMsgHopCount(f, "tp")
  BY <1>1, <1>4 DEF SendMsgHopCount, Programmed, Hop
<1>6. ForDevice(f)' = ForDevice(f) /\ ToTunnel(f)' = ToTunnel(f)
  BY <1>1 DEF ForDevice, ToTunnel
<1>7. Routed(f, "tp")' = Routed(f, "tp")
  BY <1>1, <1>3, <1>5, <1>6 DEF Routed
<1> QED BY <1>1, <1>6, <1>7 DEF Defended, Programmed

LEMMA FrameReceivedInv ==
  ASSUME TypeOK, RingInv, NEW f \in Frame, Bounded(f), NEW side \in Side,
         FrameReceived(f, side)
  PROVE  /\ RingType' /\ RingInv'
         /\ couplerType' \in CouplerTypes /\ couplerType' \in {couplerType, TypeNow}
         /\ echo' \subseteq [frame : Frame, side : Side]
         /\ \A e \in echo' : Bounded(e.frame)
<1>1. RingType
  BY DEF TypeOK, RingType
<1>2. RingType' /\ RingInv'
  <2>1. CASE ForDevice(f)
    BY <2>1, <1>1, FrameFields, HeardRing DEF FrameReceived
  <2>2. CASE ~ForDevice(f)
    <3>1. UNCHANGED <<arrivals, arrivalNext, last, newer>>
      BY <2>2 DEF FrameReceived
    <3> QED BY <1>1, <3>1 DEF RingType, RingInv, Young, Place
  <2> QED BY <2>1, <2>2
<1>3. couplerType' \in CouplerTypes /\ couplerType' \in {couplerType, TypeNow}
  BY TypeNowType DEF FrameReceived, TypeOK, CouplerTypes
<1>4. \A e \in echo' : e \in [frame : Frame, side : Side] /\ Bounded(e.frame)
  <2>1. echo' = {} \/ echo' = Returned(f, side)
    BY DEF FrameReceived
  <2> QED BY <2>1, ReturnedType
<1> QED BY <1>2, <1>3, <1>4

(* One frame of the line, judged now.                                      *)
LEMMA JudgedWell ==
  ASSUME TypeOK, NEW f \in Frame, NEW ack, ack = IsAckRequired(f)
  PROVE  /\ /\ ack = "ack" /\ f.hop > 0
            /\ f.kind = "individual" =>
                 lc["tp"].phys # "lock" /\ lc["tp"].physIack # "all" /\ ~Defended(f.destination)
            /\ f.kind = "group" => Programmed /\ lc["tp"].groupIackRout
            /\ f.kind # "broadcast"
            => ForDevice(f) \/ ToTunnel(f) \/ Routed(f, "tp") # {}
         /\ /\ Routed(f, "tp") # {}
            /\ f.kind = "individual" =>
                 lc["tp"].phys = "route" /\ lc["tp"].physIack # "nack"
            => ack = "ack"
<1>1. /\ lc["tp"].phys \in {"route", "lock", "unlock"}
      /\ lc["tp"].physIack \in {"normal", "all", "nack"}
  BY DEF TypeOK, Side, LcConfig, Mode
<1>2. f.kind \in {"individual", "group", "broadcast"} /\ f.hop \in 0 .. 7
  BY FrameFields
<1>3. SendMsgHopCount(f, "tp") =
        IF \/ f.kind = "group" /\ ~IsRoutedGroupAddress(f.destination, "tp")
           \/ f.hop = 0 \/ ~Programmed
          THEN {} ELSE {Hop(f)}
  BY DEF SendMsgHopCount
<1>4. CASE f.kind = "individual"
  <2>1. Routed(f, "tp") =
          IF ForDevice(f) THEN {}
          ELSE IF \/ lc["tp"].phys = "unlock"
                  \/ lc["tp"].phys = "route" /\ IsRoutedIndividualAddress(f.destination, "tp")
                 THEN SendMsgHopCount(f, "tp") ELSE {}
    BY <1>4 DEF Routed, ForDevice
  <2>2. ack = "ack" <=>
          \/ lc["tp"].physIack = "all"
          \/ lc["tp"].physIack = "normal" /\ Reaches(f.destination)
          \/ Defended(f.destination) \/ ToTunnel(f)
    BY <1>4 DEF IsAckRequired, JudgesTopology
  <2>3. Reaches(f.destination) <=>
          \/ IsRoutedIndividualAddress(f.destination, "tp") /\ Programmed
          \/ ForDevice(f)
    BY <1>4 DEF Reaches, ForDevice
  <2> QED BY <1>1, <1>2, <1>3, <1>4, <2>1, <2>2, <2>3
<1>5. CASE f.kind = "group"
  <2>1. Routed(f, "tp") = SendMsgHopCount(f, "tp")
    BY <1>5 DEF Routed, ForDevice
  <2>2. ack = "ack" <=>
          \/ ~lc["tp"].groupIackRout \/ IsRoutedGroupAddress(f.destination, "tp")
          \/ ToTunnel(f)
    BY <1>5 DEF IsAckRequired, JudgesTopology, ReachesGroup
  <2> QED BY <1>2, <1>3, <1>5, <2>1, <2>2
<1>6. CASE f.kind = "broadcast"
  BY <1>6 DEF IsAckRequired
<1> QED BY <1>2, <1>4, <1>5, <1>6

-----------------------------------------------------------------------------
(* The invariant.                                                          *)

Inv == TypeOK /\ HopsRunOut /\ RingInv /\ AckedIsTaken /\ CarriedIsAcked

LEMMA InitInv == Init => Inv
<1> SUFFICES ASSUME Init PROVE Inv
  OBVIOUS
<1>1. TypeOK
  BY BoundAssumption DEF Init, TypeOK, DefaultLc, DefaultGrp, LcConfig, GrpConfig, Mode, Nowhere
<1>2. RingInv
  BY DEF Init, RingInv, Young
<1> QED BY <1>1, <1>2 DEF Inv, Init, HopsRunOut, AckedIsTaken, CarriedIsAcked

Judged == [frame : Frame, ack : {"ack", "nack", "none"}, unchanged : BOOLEAN]

LEMMA RxType ==
  ASSUME TypeOK
  PROVE  /\ rx \in Seq(Judged) /\ Len(rx) <= 1
         /\ \/ rx = <<>>
            \/ /\ rx # <<>> /\ DOMAIN rx = {1} /\ rx[1] \in Judged
               /\ Head(rx) = rx[1] /\ Tail(rx) = <<>>
<1>1. rx \in Seq(Judged) /\ Len(rx) <= 1
  BY DEF TypeOK, Judged
<1> HIDE DEF Judged
<1>2. CASE Len(rx) = 0
  BY <1>1, <1>2
<1>3. CASE Len(rx) = 1
  <2>1. DOMAIN rx = {1} /\ rx[1] \in Judged /\ rx # <<>> /\ Head(rx) = rx[1]
    BY <1>1, <1>3
  <2>2. Tail(rx) \in Seq(Judged) /\ Len(Tail(rx)) = 0
    BY <1>1, <1>3, <2>1
  <2>3. \A s \in Seq(Judged) : Len(s) = 0 => s = <<>>
    OBVIOUS
  <2>4. Tail(rx) = <<>>
    BY <2>2, <2>3
  <2> QED BY <1>1, <2>1, <2>4
<1>4. Len(rx) = 0 \/ Len(rx) = 1
  <2>1. Len(rx) \in Nat BY <1>1
  <2> QED BY <1>1, <2>1
<1> QED BY <1>1, <1>2, <1>3, <1>4

(* What a step of a frame leaves to show when it ends as FrameReceived     *)
(* does: the frame in rx, if any, was judged before.                       *)
LEMMA AckKept ==
  ASSUME Inv, UNCHANGED config, couplerType' \in {couplerType, TypeNow}, rx' = rx
  PROVE  AckedIsTaken' /\ CarriedIsAcked'
<1>1. ASSUME NEW f
      PROVE  /\ Routed(f, "tp")' = Routed(f, "tp")
             /\ ForDevice(f)' = ForDevice(f) /\ ToTunnel(f)' = ToTunnel(f)
             /\ Defended(f.destination)' = Defended(f.destination)
             /\ Programmed' = Programmed /\ lc' = lc
  BY SameDecisions
<1>2. AckedIsTaken'
  BY <1>1 DEF AckedIsTaken, Inv
<1>3. CarriedIsAcked'
  BY <1>1 DEF CarriedIsAcked, Inv
<1> QED BY <1>2, <1>3

LEMMA RoutingInv ==
  ASSUME Inv, NEW f \in Frame, Bounded(f), NEW side \in Side,
         FrameReceived(f, side), UNCHANGED config, rx' = rx \/ rx' = <<>>
  PROVE  Inv'
<1>1. /\ RingType' /\ RingInv'
      /\ couplerType' \in CouplerTypes /\ couplerType' \in {couplerType, TypeNow}
      /\ echo' \subseteq [frame : Frame, side : Side]
      /\ \A e \in echo' : Bounded(e.frame)
  BY FrameReceivedInv DEF Inv
<1>2. TypeOK'
  <2>1. rx \in Seq(Judged) /\ Len(rx) <= 1
    BY RxType DEF Inv
  <2>2. <<>> \in Seq(Judged) /\ Len(<<>>) = 0
    OBVIOUS
  <2>3. rx' \in Seq(Judged) /\ Len(rx') <= 1
    <3>1. CASE rx' = rx BY <2>1, <3>1
    <3>2. CASE rx' = <<>> BY <2>2, <3>2
    <3> QED BY <3>1, <3>2
  <2> QED BY <1>1, <2>3 DEF Inv, TypeOK, RingType, config, CouplerTypes, Judged
<1>3. HopsRunOut'
  BY <1>1 DEF Inv, HopsRunOut, Bounded
<1>4. AckedIsTaken' /\ CarriedIsAcked'
  <2>1. CASE rx' = rx BY <2>1, <1>1, AckKept
  <2>2. CASE rx' = <<>> BY <2>2 DEF AckedIsTaken, CarriedIsAcked
  <2> QED BY <2>1, <2>2
<1> QED BY <1>1, <1>2, <1>3, <1>4 DEF Inv

LEMMA TpReceiveInv ==
  ASSUME Inv, NEW f \in Frame, Bounded(f), TpReceive(f)
  PROVE  Inv'
<1> DEFINE r == [frame |-> f, ack |-> IsAckRequired(f), unchanged |-> TRUE]
<1>1. rx' = <<r>> /\ echo' = {} /\ UNCHANGED <<config, arrivals, arrivalNext, last, newer>>
  BY DEF TpReceive
<1>2. IsAckRequired(f) \in {"ack", "nack", "none"}
  BY DEF IsAckRequired
<1>3. couplerType' \in CouplerTypes /\ couplerType' \in {couplerType, TypeNow}
  BY TypeNowType DEF TpReceive, Inv, TypeOK, CouplerTypes
<1>4. TypeOK'
  <2>1. r \in [frame : Frame, ack : {"ack", "nack", "none"}, unchanged : BOOLEAN]
    BY <1>2
  <2> HIDE DEF r
  <2>2. /\ rx' \in Seq([frame : Frame, ack : {"ack", "nack", "none"}, unchanged : BOOLEAN])
        /\ Len(rx') = 1
    BY <1>1, <2>1
  <2> QED BY <1>1, <1>3, <2>2 DEF Inv, TypeOK, config, CouplerTypes
<1>5. HopsRunOut'
  BY <1>1 DEF HopsRunOut, Bounded
<1>6. RingInv'
  BY <1>1 DEF Inv, RingInv, Young, Place
<1>7. /\ Routed(f, "tp")' = Routed(f, "tp")
      /\ ForDevice(f)' = ForDevice(f) /\ ToTunnel(f)' = ToTunnel(f)
      /\ Defended(f.destination)' = Defended(f.destination)
      /\ Programmed' = Programmed /\ lc' = lc
  BY <1>1, <1>3, SameDecisions
<1>8. DOMAIN rx' = {1} /\ rx'[1] = r
  BY <1>1
<1>9. AckedIsTaken'
  BY <1>7, <1>8, JudgedWell DEF AckedIsTaken, Inv
<1>10. CarriedIsAcked'
  BY <1>7, <1>8, JudgedWell DEF CarriedIsAcked, Inv
<1> QED BY <1>4, <1>5, <1>6, <1>9, <1>10 DEF Inv

(* A change of the configuration: what rx holds was judged before it.      *)
LEMMA ChangedInv ==
  ASSUME Inv, Changed,
         /\ address' \in OwnAddresses
         /\ lc' \in [Side -> LcConfig] /\ grp' \in [Side -> GrpConfig]
         /\ channels' \subseteq TunnelAddresses
         /\ writes' \in 0 .. MaxWrites
  PROVE  Inv'
<1>1. UNCHANGED <<couplerType, arrivals, arrivalNext, echo, last, newer>>
  BY DEF Changed
<1>2. \/ rx' = <<>> /\ rx = <<>>
      \/ /\ rx # <<>> /\ rx' = <<[rx[1] EXCEPT !.unchanged = FALSE]>>
         /\ rx[1] \in Judged /\ DOMAIN rx = {1}
  BY RxType DEF Changed, Inv
<1>3. TypeOK'
  <2>1. rx' \in Seq(Judged) /\ Len(rx') <= 1
    <3>1. CASE rx' = <<>>
      BY <3>1
    <3>2. CASE rx' # <<>>
      <4>1. [rx[1] EXCEPT !.unchanged = FALSE] \in Judged
        BY <1>2, <3>2 DEF Judged
      <4>2. \A j \in Judged : <<j>> \in Seq(Judged) /\ Len(<<j>>) = 1
        <5> HIDE DEF Judged
        <5> QED OBVIOUS
      <4>3. rx' = <<[rx[1] EXCEPT !.unchanged = FALSE]>>
        BY <1>2, <3>2
      <4> DEFINE j == [rx[1] EXCEPT !.unchanged = FALSE]
      <4> HIDE DEF j
      <4>4. <<j>> \in Seq(Judged) /\ Len(<<j>>) = 1
        BY <4>1, <4>2 DEF j
      <4> QED BY <4>3, <4>4 DEF j
    <3> QED BY <3>1, <3>2
  <2> QED BY <1>1, <2>1 DEF Inv, TypeOK, Judged
<1>4. HopsRunOut'
  <2>1. CASE rx' = <<>>
    BY <2>1, <1>1, <1>2 DEF Inv, HopsRunOut
  <2>2. CASE rx' # <<>>
    <3>1. DOMAIN rx' = {1} /\ rx'[1].frame = rx[1].frame /\ 1 \in DOMAIN rx
      BY <2>2, <1>2 DEF Judged
    <3> QED BY <3>1, <1>1 DEF Inv, HopsRunOut
  <2> QED BY <2>1, <2>2
<1>5. RingInv'
  BY <1>1 DEF Inv, RingInv, Young, Place
<1>6. \A i \in DOMAIN rx' : ~rx'[i].unchanged
  BY <1>2 DEF Judged
<1> QED BY <1>3, <1>4, <1>5, <1>6 DEF Inv, AckedIsTaken, CarriedIsAcked

LEMMA NextInv == Inv /\ [Next]_vars => Inv'
<1> SUFFICES ASSUME Inv, [Next]_vars PROVE Inv'
  OBVIOUS
<1>0. TypeOK /\ HopsRunOut
  BY DEF Inv
<1>1. ASSUME NEW f \in Arriving("tp"), TpReceive(f) PROVE Inv'
  BY <1>0, <1>1, ArrivingType, TpReceiveInv
<1>2. ASSUME NEW f \in Arriving("ip"), IpReceive(f) PROVE Inv'
  <2>1. f \in Frame /\ Bounded(f) /\ "ip" \in Side
    BY <1>0, ArrivingType DEF Side
  <2> QED BY <1>2, <2>1, RoutingInv DEF IpReceive
<1>3. ASSUME NEW f \in Telegrams, TunnelSends(f) PROVE Inv'
  <2>1. f \in Frame /\ Bounded(f) /\ "tp" \in Side
    BY TelegramIsNew DEF Side
  <2> QED BY <1>3, <2>1, RoutingInv DEF TunnelSends
<1>4. CASE TpProcess
  <2>1. /\ Head(rx) = rx[1] /\ 1 \in DOMAIN rx /\ Tail(rx) = <<>>
        /\ rx[1].frame \in Frame /\ "tp" \in Side
    BY <1>0, <1>4, RxType DEF TpProcess, Side, Judged
  <2>2. Bounded(rx[1].frame)
    BY <1>0, <2>1 DEF HopsRunOut, Bounded
  <2> QED BY <1>4, <2>1, <2>2, RoutingInv DEF TpProcess
<1>5. ASSUME NEW a \in OwnAddresses, WriteAddress(a) PROVE Inv'
  BY <1>0, <1>5, ChangedInv, BoundAssumption DEF WriteAddress, Configured, TypeOK
<1>6. ASSUME NEW s \in Side, NEW c \in LcConfigs, WriteLcConfig(s, c) PROVE Inv'
  BY <1>0, <1>6, ChangedInv, BoundAssumption, ConfigAssumption
     DEF WriteLcConfig, Configured, TypeOK
<1>7. ASSUME NEW s \in Side, NEW c \in GrpConfigs, WriteGrpConfig(s, c) PROVE Inv'
  BY <1>0, <1>7, ChangedInv, BoundAssumption, ConfigAssumption
     DEF WriteGrpConfig, Configured, TypeOK
<1>8. ASSUME NEW a \in TunnelAddresses, TunnelChanges(a) PROVE Inv'
  BY <1>0, <1>8, ChangedInv DEF TunnelChanges, TypeOK
<1>9. CASE Restart
  <2>1. TypeOK'
    BY <1>0, <1>9 DEF Restart, TypeOK, Nowhere
  <2>2. RingInv'
    BY <1>9 DEF Restart, RingInv, Young
  <2>3. rx' = <<>> /\ echo' = {}
    BY <1>9 DEF Restart
  <2> QED BY <2>1, <2>2, <2>3 DEF Inv, HopsRunOut, AckedIsTaken, CarriedIsAcked
<1>10. CASE UNCHANGED vars
  <2>1. UNCHANGED config /\ couplerType' = couplerType /\ rx' = rx
    BY <1>10 DEF vars, config
  <2>2. AckedIsTaken' /\ CarriedIsAcked'
    BY <2>1, AckKept
  <2>3. TypeOK' /\ HopsRunOut' /\ RingInv'
    BY <1>10 DEF Inv, vars, TypeOK, HopsRunOut, RingInv, Young, Place
  <2> QED BY <2>2, <2>3 DEF Inv
<1> QED BY <1>1, <1>2, <1>3, <1>4, <1>5, <1>6, <1>7, <1>8, <1>9, <1>10 DEF Next

(* The inductive invariant of the coupler.                                 *)
THEOREM Invariant == Spec => []Inv
BY InitInv, NextInv, PTL DEF Spec

(* Type correctness for every topology, configuration and number of slots. *)
THEOREM TypeCorrect == Spec => []TypeOK
<1>1. Inv => TypeOK BY DEF Inv
<1> QED BY <1>1, Invariant, PTL

(* Hop counts below seven run out (sendMsgHopCount).                       *)
THEOREM HopsEnd == Spec => []HopsRunOut
<1>1. Inv => HopsRunOut BY DEF Inv
<1> QED BY <1>1, Invariant, PTL

(* The acknowledge of the UART task and the routing of the main loop agree *)
(* as to what is taken (isAckRequired, routeDataIndividual).               *)
THEOREM AcksAreTaken == Spec => []AckedIsTaken
<1>1. Inv => AckedIsTaken BY DEF Inv
<1> QED BY <1>1, Invariant, PTL

(* What is carried to the IP side was acknowledged.                        *)
THEOREM CarriedAreAcked == Spec => []CarriedIsAcked
<1>1. Inv => CarriedIsAcked BY DEF Inv
<1> QED BY <1>1, Invariant, PTL

(* A partner is answered where it was heard last, until its entry had to   *)
(* make room for Slots newer ones (noteArrival, arrivalInterface).         *)
THEOREM AnswersReturn == Spec => []AnswersGoBack
<1>1. Inv => AnswersGoBack
  <2> SUFFICES ASSUME Inv, NEW p \in Partners, Young(p)
               PROVE  AnswerSide(p) = IF p \in channels THEN "tp" ELSE last[p]
    BY DEF AnswersGoBack
  <2>1. RingType /\ RingInv
    BY DEF Inv, TypeOK, RingType
  <2>2. Holds(p) = {Place(p)}
    BY <2>1, Held
  <2>3. arrivals[Place(p)].side = last[p]
    <3>1. arrivals[Place(p)] = [partner |-> p, side |-> last[p]]
      BY <2>1 DEF RingInv
    <3> QED BY <3>1
  <2>4. Place(p) \in Int
    BY <2>1, PlaceType
  <2>5. (CHOOSE i \in Holds(p) : \A j \in Holds(p) : i <= j) = Place(p)
    BY <2>2, <2>4
  <2>6. ArrivalInterface(p) = last[p]
    BY <2>2, <2>3, <2>5 DEF ArrivalInterface
  <2>7. last[p] \in Side /\ last[p] # Nowhere
    BY <2>1 DEF RingType, Young
  <2> QED BY <2>6, <2>7 DEF AnswerSide, Side
<1> QED BY <1>1, Invariant, PTL

(* No partner has two entries in the ring.                                 *)
THEOREM OneEntryPerPartner == Spec => []OneEntryEach
<1>1. Inv => OneEntryEach
  <2> SUFFICES ASSUME Inv, NEW i \in DOMAIN arrivals, NEW j \in DOMAIN arrivals,
                      arrivals[i] # Free, arrivals[i].partner = arrivals[j].partner
               PROVE  i = j
    BY DEF OneEntryEach
  <2>1. RingInv /\ DOMAIN arrivals = 0 .. Slots - 1 /\ arrivals[i] \in Arrival
    BY DEF Inv, TypeOK
  <2>2. arrivals[j] # Free
    BY <2>1 DEF Arrival, Free
  <2> QED BY <2>1, <2>2 DEF RingInv
<1> QED BY <1>1, Invariant, PTL

=============================================================================
