----------------------- MODULE TransportLine_proofs -------------------------
(***************************************************************************)
(* Theorems about TransportLine: type correctness, the agreement of the    *)
(* transport layer with the application layer on the connection, the end   *)
(* of a saved request with its connection, and what tool and device may    *)
(* rely on: requests are taken once and in order, an acknowledged one was  *)
(* taken, no answer comes twice; for any number of sequence numbers,       *)
(* repeats, partners' frames and losses.                                   *)
(*                                                                         *)
(* Every handler is a function on the layer, so there is one lemma for     *)
(* each: a sound layer stays sound, and a request is not saved in a closed *)
(* connection.  A second lemma for each says what it does to the           *)
(* connection with the tool (Arrives, Passes); the invariants of the lines *)
(* know of the device no more than that.  LineInv is about the frames to   *)
(* the device in any connection, Core about a fresh one.                   *)
(***************************************************************************)
EXTENDS TransportLine, SequenceTheorems, TLAPS

USE PartnersAssumption, SeqAssumption, RepAssumption, TimeoutAssumption, ApduAssumption

PartnerOrNone == Partners \union {NoAddress}
Sent == [PartnerOrNone -> Seq(Frame)]

Agrees(t) ==
  /\ (t.connectedTsap # NotConnected) <=> Open(t)
  /\ t.connectedTsap \in {NotConnected, NoAddress, t.connectionAddress}

Sound(t) ==
  /\ t \in Layer
  /\ Agrees(t)
  /\ t.state = "Connecting" => t.saved = NoApdu

(* Nothing is saved in a connection that was closed already.               *)
Kept(t, r) == r.state = "Closed" => t.state # "Closed" \/ r.saved = t.saved

Step(t, r) == Sound(r) /\ Kept(t, r)

LEMMA AddressesDiffer == NotConnected \notin PartnerOrNone /\ NoAddress \notin Partners
BY DEF NotConnected, NoAddress, PartnerOrNone

LEMMA ApduType ==
  /\ NoApdu \in Apdu
  /\ \A apdu \in Apdu : Answer(apdu) \in Apdu /\ Answer(apdu) # NoApdu
<1>1. NoApdu \in Apdu BY DEF NoApdu, Apdu
<1>2. ASSUME NEW apdu \in Apdu PROVE Answer(apdu) \in Apdu /\ Answer(apdu) # NoApdu
  <2>1. Answer(apdu).kind = "answer" /\ NoApdu.kind = "none"
    BY DEF Answer, NoApdu
  <2> QED BY <2>1 DEF Apdu, Answer
<1> QED BY <1>1, <1>2

LEMMA SeqType ==
  ASSUME NEW seq \in Seq4
  PROVE  IncSeqNr(seq) \in Seq4 /\ Previous(seq) \in Seq4 /\ 0 \in Seq4
BY DEF Seq4, IncSeqNr, Previous

LEMMA SendType ==
  ASSUME NEW t \in Layer, NEW to \in PartnerOrNone, NEW type \in FrameType,
         NEW seq \in Seq4, NEW apdu \in Apdu
  PROVE  \E s \in Sent : Send(t, to, type, seq, apdu) = [t EXCEPT !.sent = s]
<1>1. t.sent \in Sent BY DEF Layer, Sent, PartnerOrNone
<1>2. FrameOf(type, seq, apdu) \in Frame BY DEF Frame, FrameOf
<1> DEFINE f == FrameOf(type, seq, apdu)
<1> HIDE DEF f
<1>3. [t.sent EXCEPT ![to] = Append(@, f)] \in Sent
  <2>1. t.sent[to] \in Seq(Frame) BY <1>1 DEF Sent
  <2>2. Append(t.sent[to], f) \in Seq(Frame)
    <3> HIDE DEF Frame
    <3> QED BY <2>1, <1>2 DEF f
  <2> QED BY <1>1, <2>2 DEF Sent
<1>4. Send(t, to, type, seq, apdu) = [t EXCEPT !.sent = [t.sent EXCEPT ![to] = Append(@, f)]]
  BY DEF Send, f
<1> QED BY <1>3, <1>4

-----------------------------------------------------------------------------
(* What the actions leave of the fields the invariant is about.            *)

SameView(t, r) ==
  /\ r.state = t.state /\ r.saved = t.saved
  /\ r.connectionAddress = t.connectionAddress /\ r.connectedTsap = t.connectedTsap

LEMMA ViewTypes ==
  ASSUME NEW t \in Layer
  PROVE  /\ t.state \in States /\ t.saved \in Apdu /\ t.savedFrame \in Apdu
         /\ t.connectionAddress \in PartnerOrNone
         /\ t.connectedTsap \in PartnerOrNone \union {NotConnected}
         /\ t.seqNoSend \in Seq4 /\ t.seqNoRecv \in Seq4 /\ t.repCount \in 0 .. MaxRepCount
         /\ 0 \in Off .. ConnectionTimeout + 1 /\ 0 \in Off .. AckTimeout + 1
         /\ Off \in Off .. ConnectionTimeout + 1 /\ Off \in Off .. AckTimeout + 1
         /\ 0 \in 0 .. MaxRepCount /\ 0 \in Seq4
<1>1. /\ t.state \in States /\ t.saved \in Apdu /\ t.savedFrame \in Apdu
      /\ t.connectionAddress \in PartnerOrNone
      /\ t.connectedTsap \in PartnerOrNone \union {NotConnected}
      /\ t.seqNoSend \in Seq4 /\ t.seqNoRecv \in Seq4 /\ t.repCount \in 0 .. MaxRepCount
  BY DEF Layer, PartnerOrNone
<1>2. /\ 0 \in Off .. ConnectionTimeout + 1 /\ 0 \in Off .. AckTimeout + 1
      /\ Off \in Off .. ConnectionTimeout + 1 /\ Off \in Off .. AckTimeout + 1
      /\ 0 \in 0 .. MaxRepCount /\ 0 \in Seq4
  BY DEF Off, Seq4
<1> QED BY <1>1, <1>2

LEMMA SendView ==
  ASSUME NEW t \in Layer, NEW to \in PartnerOrNone, NEW type \in FrameType,
         NEW seq \in Seq4, NEW apdu \in Apdu
  PROVE  /\ Send(t, to, type, seq, apdu) \in Layer
         /\ SameView(t, Send(t, to, type, seq, apdu))
<1>1. PICK s \in Sent : Send(t, to, type, seq, apdu) = [t EXCEPT !.sent = s]
  BY SendType
<1> QED BY <1>1 DEF Layer, SameView, Sent, PartnerOrNone

LEMMA ControlView ==
  ASSUME NEW t \in Layer, NEW type \in FrameType, NEW seq \in Seq4
  PROVE  /\ SendControlTelegram(t, type, seq) \in Layer
         /\ SameView(t, SendControlTelegram(t, type, seq))
BY SendView, ViewTypes, ApduType DEF SendControlTelegram

LEMMA TimerView ==
  ASSUME NEW t \in Layer
  PROVE  /\ EnableConnectionTimeout(t) \in Layer /\ DisableTimeouts(t) \in Layer
         /\ SameView(t, EnableConnectionTimeout(t)) /\ SameView(t, DisableTimeouts(t))
<1>1. EnableConnectionTimeout(t) \in Layer /\ DisableTimeouts(t) \in Layer
  BY ViewTypes DEF EnableConnectionTimeout, DisableTimeouts, Layer
<1> QED BY <1>1 DEF EnableConnectionTimeout, DisableTimeouts, Layer, SameView

LEMMA StateView ==
  ASSUME NEW t \in Layer, NEW s \in States
  PROVE  /\ [t EXCEPT !.state = s] \in Layer
         /\ [t EXCEPT !.state = s].state = s
         /\ [t EXCEPT !.state = s].saved = t.saved
         /\ [t EXCEPT !.state = s].connectionAddress = t.connectionAddress
         /\ [t EXCEPT !.state = s].connectedTsap = t.connectedTsap
BY DEF Layer

LEMMA A7View ==
  ASSUME NEW t \in Layer, NEW apdu \in Apdu
  PROVE  A7(t, apdu) \in Layer /\ SameView(t, A7(t, apdu))
<1> DEFINE v == Send(t, t.connectionAddress, "Data", t.seqNoSend, apdu)
<1>1. v \in Layer /\ SameView(t, v)
  BY SendView, ViewTypes DEF FrameType
<1>2. A7(t, apdu) = [v EXCEPT !.savedFrame = apdu, !.repCount = 0, !.ackTimer = 0, !.connTimer = 0]
  BY DEF A7
<1> HIDE DEF v
<1>3. A7(t, apdu) \in Layer
  BY <1>1, <1>2, ViewTypes DEF Layer
<1> QED BY <1>1, <1>2, <1>3 DEF SameView, Layer

LEMMA A9View ==
  ASSUME NEW t \in Layer, t.repCount < MaxRepCount
  PROVE  A9(t) \in Layer /\ SameView(t, A9(t))
<1> DEFINE v == Send(t, t.connectionAddress, "Data", t.seqNoSend, t.savedFrame)
<1>1. PICK s \in Sent : v = [t EXCEPT !.sent = s]
  BY SMTT(20), SendType, ViewTypes DEF FrameType
<1>2. v \in Layer /\ SameView(t, v)
  BY SendView, ViewTypes DEF FrameType
<1>3. v.repCount = t.repCount /\ t.repCount + 1 \in 0 .. MaxRepCount
  BY SMTT(20), <1>1, ViewTypes DEF Layer
<1>4. A9(t) = [v EXCEPT !.repCount = v.repCount + 1, !.ackTimer = 0, !.connTimer = 0]
  BY DEF A9
<1> HIDE DEF v
<1>5. A9(t) \in Layer
  BY ZenonT(40), <1>2, <1>3, <1>4, ViewTypes DEF Layer
<1> QED BY <1>2, <1>4, <1>5 DEF SameView, Layer

LEMMA A8View ==
  ASSUME NEW t \in Layer
  PROVE  A8(t) \in Layer /\ SameView(t, A8(t))
<1> DEFINE v == [t EXCEPT !.ackTimer = Off, !.seqNoSend = IncSeqNr(t.seqNoSend),
                          !.savedFrame = NoApdu]
<1>1. IncSeqNr(t.seqNoSend) \in Seq4 /\ NoApdu \in Apdu
  BY ViewTypes, SeqType, ApduType
<1>2. v \in Layer /\ SameView(t, v)
  BY <1>1, ViewTypes DEF Layer, SameView
<1>3. A8(t) = EnableConnectionTimeout(v)
  BY DEF A8
<1> HIDE DEF v
<1> QED BY <1>2, <1>3, TimerView DEF SameView

(* A5 and A6 end a connection; what was saved is left.                     *)
LEMMA Ended ==
  ASSUME NEW t \in Layer, NEW r, r \in {A5(t), A6(t)}
  PROVE  /\ r \in Layer /\ r.state = t.state /\ r.saved = t.saved
         /\ r.connectedTsap = NotConnected /\ r.connectionAddress = t.connectionAddress
<1>1. ASSUME NEW v \in Layer
      PROVE  /\ ConnectionClosed(v) \in Layer
             /\ ConnectionClosed(v).state = v.state /\ ConnectionClosed(v).saved = v.saved
             /\ ConnectionClosed(v).connectionAddress = v.connectionAddress
             /\ ConnectionClosed(v).connectedTsap = NotConnected
  BY DEF ConnectionClosed, Layer
<1>2. ASSUME NEW v \in Layer
      PROVE  /\ A5(v) \in Layer /\ A5(v).state = v.state /\ A5(v).saved = v.saved
             /\ A5(v).connectedTsap = NotConnected /\ A5(v).connectionAddress = v.connectionAddress
  BY <1>1, TimerView DEF A5, SameView
<1>3. SendControlTelegram(t, "Disconnect", 0) \in Layer /\ SameView(t, SendControlTelegram(t, "Disconnect", 0))
  BY ControlView, ViewTypes DEF FrameType
<1> QED BY <1>2, <1>3 DEF A6, SameView

LEMMA ClosedBySound ==
  ASSUME NEW t \in Layer, NEW r, r \in {A5(Close(t)), A6(Close(t))}
  PROVE  Sound(r) /\ r.state = "Closed" /\ r.saved = t.saved
<1>1. Close(t) \in Layer /\ Close(t).state = "Closed" /\ Close(t).saved = t.saved
  BY StateView DEF Close, States
<1>2. /\ r \in Layer /\ r.state = "Closed" /\ r.saved = t.saved
      /\ r.connectedTsap = NotConnected
  BY <1>1, Ended
<1> QED BY <1>2 DEF Sound, Agrees, Open

LEMMA ViewSound ==
  ASSUME NEW t, Sound(t), NEW r \in Layer, SameView(t, r)
  PROVE  Step(t, r)
BY DEF Sound, SameView, Agrees, Open, Step, Kept

-----------------------------------------------------------------------------
(* The handlers.                                                           *)

LEMMA StepSelf == ASSUME NEW t, Sound(t) PROVE Step(t, t)
BY DEF Step, Kept

LEMMA OpenStep ==
  ASSUME NEW t, t.state # "Closed", NEW r, Sound(r)
  PROVE  Step(t, r)
BY DEF Step, Kept

LEMMA DataConnectedRequestStep ==
  ASSUME NEW t, Sound(t), NEW apdu \in Apdu, t.state # "Connecting"
  PROVE  /\ Step(t, DataConnectedRequest(t, apdu))
         /\ DataConnectedRequest(t, apdu).state = "Closed" => t.state = "Closed"
<1> DEFINE r == DataConnectedRequest(t, apdu)
<1>0. t \in Layer /\ t.state \in States
  BY ViewTypes DEF Sound
<1>1. CASE t.state = "Closed"
  BY <1>1, StepSelf DEF DataConnectedRequest
<1>2. CASE t.state = "OpenIdle"
  <2> DEFINE u == [t EXCEPT !.state = "OpenWait"]
  <2>1. /\ u \in Layer /\ u.state = "OpenWait" /\ u.saved = t.saved
        /\ u.connectionAddress = t.connectionAddress /\ u.connectedTsap = t.connectedTsap
    BY <1>0, StateView DEF States
  <2>2. r = A7(u, apdu)
    BY <1>2 DEF DataConnectedRequest
  <2> HIDE DEF u, r
  <2>3. r \in Layer /\ SameView(u, r)
    BY <2>1, <2>2, A7View
  <2> QED BY <1>2, <2>1, <2>3, OpenStep DEF Sound, SameView, Agrees, Open, r
<1>3. CASE t.state = "OpenWait"
  <2>1. r = [t EXCEPT !.saved = apdu]
    BY <1>3 DEF DataConnectedRequest, A11
  <2>2. /\ r \in Layer /\ r.state = t.state
        /\ r.connectionAddress = t.connectionAddress /\ r.connectedTsap = t.connectedTsap
    BY <1>0, <2>1 DEF Layer
  <2> HIDE DEF r
  <2> QED BY <1>3, <2>2, OpenStep DEF Sound, Agrees, Open, r
<1> QED BY <1>0, <1>1, <1>2, <1>3 DEF States

LEMMA IndividualSendStep ==
  ASSUME NEW t, Sound(t), NEW asap \in Partners, NEW apdu \in Apdu
  PROVE  Step(t, IndividualSend(t, asap, apdu))
<1>0. t \in Layer BY DEF Sound
<1>1. CASE asap = t.connectedTsap
  <2>1. t.state # "Connecting"
    BY <1>1, AddressesDiffer DEF Sound, Agrees, Open, PartnerOrNone
  <2> QED BY <1>1, <2>1, DataConnectedRequestStep DEF IndividualSend
<1>2. CASE asap # t.connectedTsap
  BY <1>0, <1>2, SendView, ViewTypes, ViewSound DEF IndividualSend, PartnerOrNone, FrameType
<1> QED BY <1>1, <1>2

LEMMA IndicateStep ==
  ASSUME NEW t, Sound(t), NEW source \in Partners, NEW apdu \in Apdu, NEW answers \in BOOLEAN
  PROVE  Step(t, Indicate(t, source, apdu, answers))
BY IndividualSendStep, StepSelf, ApduType DEF Indicate

LEMMA A2Sound ==
  ASSUME NEW t, Sound(t), NEW source \in Partners, NEW apdu \in Apdu, NEW answers \in BOOLEAN
  PROVE  Sound(A2(t, source, apdu, answers))
<1> DEFINE acked == SendControlTelegram(t, "Ack", t.seqNoRecv)
           taking == [acked EXCEPT !.seqNoRecv = IncSeqNr(acked.seqNoRecv),
                                   !.passed = Append(acked.passed, apdu)]
           told == Indicate(taking, source, apdu, answers)
<1>1. acked \in Layer /\ SameView(t, acked)
  BY ControlView, ViewTypes DEF Sound, FrameType
<1>2. taking \in Layer /\ SameView(t, taking)
  <2>1. IncSeqNr(acked.seqNoRecv) \in Seq4
    BY <1>1, ViewTypes, SeqType
  <2>2. Append(acked.passed, apdu) \in Seq(Apdu)
    <3>1. acked.passed \in Seq(Apdu)
      BY <1>1 DEF Layer
    <3> HIDE DEF acked
    <3> QED BY <3>1
  <2> HIDE DEF acked
  <2> QED BY <1>1, <2>1, <2>2 DEF Layer, SameView
<1>3. A2(t, source, apdu, answers) = EnableConnectionTimeout(told)
  BY DEF A2
<1> HIDE DEF acked, taking
<1>4. Sound(taking)
  BY <1>2, ViewSound DEF Step
<1>5. Sound(told)
  BY <1>4, IndicateStep DEF Step
<1> HIDE DEF told
<1>6. EnableConnectionTimeout(told) \in Layer /\ SameView(told, EnableConnectionTimeout(told))
  BY <1>5, TimerView DEF Sound
<1> QED BY <1>3, <1>5, <1>6, ViewSound DEF Step

LEMMA ControlStep ==
  ASSUME NEW t, Sound(t), NEW seq \in Seq4
  PROVE  Step(t, A3(t, seq)) /\ Step(t, A4(t, seq))
<1>1. ASSUME NEW type \in {"Ack", "Nack"}
      PROVE  LET r == EnableConnectionTimeout(SendControlTelegram(t, type, seq))
             IN  r \in Layer /\ SameView(t, r)
  <2>1. /\ SendControlTelegram(t, type, seq) \in Layer
        /\ SameView(t, SendControlTelegram(t, type, seq))
    BY ControlView DEF Sound, FrameType
  <2> QED BY <2>1, TimerView DEF SameView
<1> QED BY <1>1, ViewSound DEF A3, A4

LEMMA A10Step ==
  ASSUME NEW t, Sound(t), NEW source \in Partners
  PROVE  Step(t, A10(t, source)) /\ Step(t, Stranger(t, source))
<1>1. Step(t, A10(t, source))
  BY SendView, ViewTypes, ApduType, ViewSound DEF A10, Sound, PartnerOrNone, FrameType
<1> QED BY <1>1, StepSelf DEF Stranger

LEMMA ClosedByStep ==
  ASSUME NEW t, Sound(t)
  PROVE  Step(t, A5(Close(t))) /\ Step(t, A6(Close(t)))
<1>1. ASSUME NEW r \in {A5(Close(t)), A6(Close(t))} PROVE Step(t, r)
  BY <1>1, ClosedBySound DEF Sound, Step, Kept
<1> QED BY <1>1

(* E6 while connecting: the timers are off, the state stays.               *)
LEMMA A6Connecting ==
  ASSUME NEW t, Sound(t), t.state = "Connecting"
  PROVE  Step(t, A6(t))
<1>1. t \in Layer BY DEF Sound
<1>2. /\ A6(t) \in Layer /\ A6(t).state = t.state /\ A6(t).saved = t.saved
      /\ A6(t).connectedTsap = NotConnected
  BY <1>1, Ended
<1> QED BY <1>2, OpenStep DEF Sound, Agrees, Open

LEMMA DataIndicationStep ==
  ASSUME NEW t, Sound(t), NEW source \in Partners, NEW seq \in Seq4, NEW apdu \in Apdu,
         NEW answers \in BOOLEAN
  PROVE  Step(t, DataIndication(t, source, seq, apdu, answers))
<1>0. t \in Layer /\ t.state \in States
  BY ViewTypes DEF Sound
<1>1. CASE source # t.connectionAddress
  BY <1>1, A10Step DEF DataIndication
<1>2. CASE source = t.connectionAddress /\ t.state = "Closed"
  BY <1>2, StepSelf DEF DataIndication, Open
<1>3. CASE source = t.connectionAddress /\ t.state = "Connecting"
  <2>1. DataIndication(t, source, seq, apdu, answers) = DataWhenConnecting(t, seq)
    BY <1>3 DEF DataIndication, Open
  <2>2. Step(t, A6(Close(t))) /\ Step(t, A3(t, seq)) /\ Step(t, A6(t))
    BY <1>3, ClosedByStep, ControlStep, A6Connecting
  <2>3. DataWhenConnecting(t, seq) \in {A6(Close(t)), A3(t, seq), A6(t)}
    BY DEF DataWhenConnecting
  <2> QED BY <2>1, <2>2, <2>3
<1>4. CASE source = t.connectionAddress /\ Open(t)
  <2>1. DataIndication(t, source, seq, apdu, answers)
          = DataWhenOpen(t, source, seq, apdu, answers)
    BY <1>4 DEF DataIndication, Open
  <2>2. Step(t, A2(t, source, apdu, answers))
    BY <1>4, A2Sound, OpenStep DEF Open
  <2>3. Step(t, A3(t, seq)) /\ Step(t, A4(t, seq))
    BY ControlStep
  <2>4. DataWhenOpen(t, source, seq, apdu, answers)
          \in {A2(t, source, apdu, answers), A3(t, seq), A4(t, seq)}
    BY DEF DataWhenOpen
  <2> QED BY <2>1, <2>2, <2>3, <2>4
<1> QED BY <1>0, <1>1, <1>2, <1>3, <1>4 DEF States, Open

LEMMA A1Step ==
  ASSUME NEW t, Sound(t), NEW source \in Partners, t.state = "Closed"
  PROVE  Step(t, A1([t EXCEPT !.state = "OpenIdle"], source))
<1> DEFINE u == [t EXCEPT !.state = "OpenIdle"]
           v == [u EXCEPT !.connectionAddress = source, !.connectedTsap = source,
                          !.seqNoSend = 0, !.seqNoRecv = 0]
<1>1. u \in Layer /\ u.state = "OpenIdle"
  BY StateView DEF Sound, States
<1>2. A1(u, source) = EnableConnectionTimeout(v)
  BY DEF A1
<1> HIDE DEF u
<1>3. v \in Layer /\ v.state = "OpenIdle" /\ v.connectionAddress = source /\ v.connectedTsap = source
  BY <1>1, ViewTypes DEF Layer
<1> HIDE DEF v
<1>4. A1(u, source) \in Layer /\ SameView(v, A1(u, source))
  BY <1>2, <1>3, TimerView
<1>5. Sound(A1(u, source)) /\ A1(u, source).state = "OpenIdle"
  BY <1>3, <1>4, AddressesDiffer DEF Sound, SameView, Agrees, Open, PartnerOrNone
<1> QED BY <1>5 DEF Step, Kept, u

LEMMA ConnectIndicationStep ==
  ASSUME NEW t, Sound(t), NEW source \in Partners
  PROVE  Step(t, ConnectIndication(t, source))
BY A1Step, A10Step, StepSelf DEF ConnectIndication

LEMMA AckIndicationStep ==
  ASSUME NEW t, Sound(t), NEW source \in Partners, NEW seq \in Seq4
  PROVE  Step(t, AckIndication(t, source, seq))
<1>1. CASE source # t.connectionAddress
  BY <1>1, A10Step DEF AckIndication
<1>2. CASE source = t.connectionAddress /\ t.state = "OpenWait" /\ seq = t.seqNoSend
  <2> DEFINE u == [t EXCEPT !.state = "OpenIdle"]
  <2>1. /\ u \in Layer /\ u.state = "OpenIdle"
        /\ u.connectionAddress = t.connectionAddress /\ u.connectedTsap = t.connectedTsap
    BY StateView DEF Sound, States
  <2>2. AckIndication(t, source, seq) = A8(u)
    BY <1>2 DEF AckIndication
  <2> HIDE DEF u
  <2>3. A8(u) \in Layer /\ SameView(u, A8(u))
    BY <2>1, A8View
  <2> QED BY <1>2, <2>1, <2>2, <2>3, OpenStep DEF Sound, SameView, Agrees, Open
<1>3. CASE source = t.connectionAddress /\ ~(t.state = "OpenWait" /\ seq = t.seqNoSend)
  BY <1>3, ClosedByStep, StepSelf DEF AckIndication
<1> QED BY <1>1, <1>2, <1>3

LEMMA RepeatStep ==
  ASSUME NEW t, Sound(t), t.repCount < MaxRepCount
  PROVE  Step(t, A9(t))
BY A9View, ViewSound DEF Sound

LEMMA NackIndicationStep ==
  ASSUME NEW t, Sound(t), NEW source \in Partners, NEW seq \in Seq4
  PROVE  Step(t, NackIndication(t, source, seq))
<1>1. CASE source # t.connectionAddress
  BY <1>1, A10Step DEF NackIndication
<1>2. CASE source = t.connectionAddress /\ seq # t.seqNoSend
  BY <1>2, ClosedByStep, StepSelf DEF NackIndication
<1>3. CASE source = t.connectionAddress /\ seq = t.seqNoSend
  BY <1>3, ClosedByStep, StepSelf, RepeatStep DEF NackIndication
<1> QED BY <1>1, <1>2, <1>3

LEMMA IndicationStep ==
  ASSUME NEW t, Sound(t), NEW source \in Partners, NEW f \in Frame, NEW answers \in BOOLEAN
  PROVE  Step(t, DataIndividualIndication(t, source, f.type, f.seq, f.apdu, answers))
<1>1. f.type \in FrameType /\ f.seq \in Seq4 /\ f.apdu \in Apdu
  BY DEF Frame
<1>2. Step(t, DisconnectIndication(t, source))
  BY ClosedByStep, StepSelf DEF DisconnectIndication
<1>3. CASE f.type = "Individual"
  BY <1>1, <1>3, IndicateStep DEF DataIndividualIndication
<1>4. CASE f.type = "Data"
  BY <1>1, <1>4, DataIndicationStep DEF DataIndividualIndication
<1>5. CASE f.type \in {"Connect", "Disconnect"}
  BY <1>2, <1>5, ConnectIndicationStep DEF DataIndividualIndication
<1>6. CASE f.type \in {"Ack", "Nack"}
  BY <1>1, <1>6, AckIndicationStep, NackIndicationStep DEF DataIndividualIndication
<1> QED BY <1>1, <1>3, <1>4, <1>5, <1>6 DEF FrameType

LEMMA ConnectConfirmStep ==
  ASSUME NEW t, Sound(t), NEW status \in BOOLEAN
  PROVE  Step(t, ConnectConfirm(t, status))
<1>1. CASE t.state # "Connecting"
  BY <1>1, StepSelf DEF ConnectConfirm
<1>2. CASE t.state = "Connecting" /\ status
  <2> DEFINE u == [t EXCEPT !.state = "OpenIdle"]
  <2>1. u \in Layer /\ u.state = "OpenIdle"
    BY StateView DEF Sound, States
  <2>2. ConnectConfirm(t, status) = A13(u)
    BY <1>2 DEF ConnectConfirm
  <2> HIDE DEF u
  <2>3. A13(u) \in Layer /\ A13(u).state = "OpenIdle" /\ A13(u).connectedTsap = NoAddress
    BY <2>1 DEF A13, Layer
  <2> QED BY <1>2, <2>2, <2>3, OpenStep, AddressesDiffer DEF Sound, Agrees, Open, PartnerOrNone
<1>3. CASE t.state = "Connecting" /\ ~status
  BY <1>3, ClosedByStep DEF ConnectConfirm
<1> QED BY <1>1, <1>2, <1>3

(* The device connects: nothing is saved when it starts.                   *)
LEMMA ConnectRequestSound ==
  ASSUME NEW t, Sound(t), t.state = "Closed", t.saved = NoApdu,
         NEW p \in Partners, NEW con \in {"later", "sent", "failed"}
  PROVE  LET r == ConnectRequest(t, p, con) IN Sound(r) /\ r.saved = NoApdu
<1> DEFINE start == [t EXCEPT !.state = "Connecting"]
           sent == Send(start, p, "Connect", 0, NoApdu)
           asked == [sent EXCEPT !.connectionAddress = p]
           told == IF con = "later" THEN asked ELSE ConnectConfirm(asked, con = "sent")
           numbered == [told EXCEPT !.seqNoSend = 0, !.seqNoRecv = 0]
           r == ConnectRequest(t, p, con)
<1>1. /\ start \in Layer /\ start.state = "Connecting" /\ start.saved = NoApdu
      /\ start.connectedTsap = NotConnected
  BY StateView DEF Sound, States, Agrees, Open
<1>2. r = EnableConnectionTimeout(numbered)
  BY DEF ConnectRequest, A12
<1> HIDE DEF start, r
<1>3. sent \in Layer /\ SameView(start, sent)
  BY <1>1, SendView, ViewTypes, ApduType DEF PartnerOrNone, FrameType
<1> HIDE DEF sent
<1>4. /\ asked \in Layer /\ asked.state = "Connecting" /\ asked.saved = NoApdu
      /\ asked.connectedTsap = NotConnected
  BY <1>1, <1>3 DEF Layer, SameView
<1> HIDE DEF asked
<1>5. Sound(asked)
  BY <1>4 DEF Sound, Agrees, Open
<1>6. Sound(told) /\ told.saved = NoApdu
  <2>1. CASE con = "later"
    BY <1>4, <1>5, <2>1
  <2>2. CASE con = "sent"
    <3> DEFINE u == [asked EXCEPT !.state = "OpenIdle"]
    <3>1. u \in Layer /\ u.state = "OpenIdle" /\ u.saved = NoApdu
      BY <1>4, StateView DEF States
    <3>2. told = A13(u)
      BY <1>4, <2>2 DEF ConnectConfirm
    <3> HIDE DEF u
    <3>3. A13(u).saved = NoApdu
      BY <3>1 DEF A13, Layer
    <3> QED BY <1>5, <2>2, <3>2, <3>3, ConnectConfirmStep DEF Step
  <2>3. CASE con = "failed"
    <3>1. told = A5(Close(asked))
      BY <1>4, <2>3 DEF ConnectConfirm
    <3> QED BY <1>4, <3>1, ClosedBySound
  <2> QED BY <2>1, <2>2, <2>3
<1> HIDE DEF told
<1>7. numbered \in Layer /\ SameView(told, numbered)
  BY <1>6, ViewTypes DEF Layer, SameView, Sound
<1> HIDE DEF numbered
<1>8. r \in Layer /\ SameView(told, r)
  BY <1>2, <1>7, TimerView DEF SameView
<1> QED BY <1>6, <1>8, ViewSound DEF Step, SameView, r

LEMMA RestartSound ==
  ASSUME NEW t, Sound(t), t.state = "Closed" => t.saved = NoApdu,
         NEW p \in Partners, NEW con \in {"later", "sent", "failed"}
  PROVE  LET r == RestartRequest(t, p, con)
         IN  Sound(r) /\ (r.state = "Closed" => r.saved = NoApdu)
<1> DEFINE asked == ConnectRequest(t, p, con)
           r == RestartRequest(t, p, con)
<1>1. CASE t.connectedTsap # NotConnected
  BY <1>1 DEF RestartRequest
<1>2. CASE t.connectedTsap = NotConnected
  <2>1. t.state = "Closed" \/ (t.state = "Connecting" /\ t.saved = NoApdu)
    BY <1>2, ViewTypes DEF Sound, Agrees, Open, States
  <2>2. Sound(asked) /\ asked.saved = NoApdu
    <3>1. CASE t.state = "Closed"
      BY <3>1, ConnectRequestSound
    <3>2. CASE t.state = "Connecting"
      <4>1. asked = A6(Close(t))
        BY <3>2 DEF ConnectRequest
      <4> QED BY <2>1, <3>2, <4>1, ClosedBySound DEF Sound
    <3> QED BY <2>1, <3>1, <3>2
  <2>3. CASE asked.state = "Closed"
    <3>1. r = asked
      BY <1>2, <2>3 DEF RestartRequest
    <3> QED BY <2>2, <3>1
  <2>4. CASE asked.state # "Closed"
    <3>1. r = IndividualSend(asked, p, NoApdu)
      BY <1>2, <2>4 DEF RestartRequest
    <3> HIDE DEF asked, r
    <3>2. Step(asked, r)
      BY <2>2, <3>1, IndividualSendStep, ApduType
    <3>3. r.state # "Closed"
      <4>1. CASE p = asked.connectedTsap
        <5>1. asked.state # "Connecting" /\ r = DataConnectedRequest(asked, NoApdu)
          BY <2>2, <3>1, <4>1, AddressesDiffer DEF IndividualSend, Sound, Agrees, Open, PartnerOrNone
        <5> QED BY <2>2, <2>4, <5>1, DataConnectedRequestStep, ApduType
      <4>2. CASE p # asked.connectedTsap
        <5>1. r = Send(asked, p, "Individual", 0, NoApdu)
          BY <3>1, <4>2 DEF IndividualSend
        <5>2. asked \in Layer /\ p \in PartnerOrNone /\ "Individual" \in FrameType
          BY <2>2 DEF Sound, PartnerOrNone, FrameType
        <5>3. 0 \in Seq4 /\ NoApdu \in Apdu
          BY <5>2, ViewTypes, ApduType
        <5>4. SameView(asked, r)
          BY <5>1, <5>2, <5>3, SendView
        <5> QED BY <2>4, <5>4 DEF SameView
      <4> QED BY <4>1, <4>2
    <3> QED BY <3>2, <3>3 DEF Step, r
  <2> QED BY <2>3, <2>4
<1> QED BY <1>1, <1>2

LEMMA LoopSound ==
  ASSUME NEW t, Sound(t)
  PROVE  LET r == LayerLoop(t)
         IN  Sound(r) /\ (r.state = "Closed" => r.saved = NoApdu)
<1> DEFINE t1 == IF t.connTimer > ConnectionTimeout THEN ConnectionTimeoutIndication(t) ELSE t
           t2 == IF t1.ackTimer > AckTimeout THEN AckTimeoutIndication(t1) ELSE t1
           u == [t2 EXCEPT !.saved = NoApdu]
           r == LayerLoop(t)
<1>1. Sound(t1)
  BY ClosedByStep DEF ConnectionTimeoutIndication, Step
<1>2. r = IF t2.saved = NoApdu THEN t2 ELSE DataConnectedRequest(u, t2.saved)
  BY DEF LayerLoop
<1> HIDE DEF t1, r
<1>3. Sound(t2)
  <2>1. Sound(AckTimeoutIndication(t1))
    <3>1. CASE t1.state # "OpenWait"
      BY <1>1, <3>1 DEF AckTimeoutIndication
    <3>2. CASE t1.state = "OpenWait" /\ t1.repCount < MaxRepCount
      <4>1. ~(t1.repCount >= MaxRepCount)
        BY <1>1, <3>2, ViewTypes DEF Sound
      <4>2. AckTimeoutIndication(t1) = A9(t1)
        BY <3>2, <4>1 DEF AckTimeoutIndication
      <4> QED BY <1>1, <3>2, <4>2, RepeatStep DEF Step
    <3>3. CASE t1.state = "OpenWait" /\ ~(t1.repCount < MaxRepCount)
      <4>1. t1.repCount >= MaxRepCount
        BY <1>1, <3>3, ViewTypes DEF Sound
      <4>2. AckTimeoutIndication(t1) = A6(Close(t1))
        BY <3>3, <4>1 DEF AckTimeoutIndication
      <4> QED BY <1>1, <4>2, ClosedByStep DEF Step
    <3> QED BY <3>1, <3>2, <3>3
  <2> QED BY <1>1, <2>1
<1> HIDE DEF t2
<1>4. CASE t2.saved = NoApdu
  BY <1>2, <1>3, <1>4 DEF r
<1>5. CASE t2.saved # NoApdu
  <2>1. /\ u \in Layer /\ u.state = t2.state /\ u.saved = NoApdu
        /\ u.connectionAddress = t2.connectionAddress /\ u.connectedTsap = t2.connectedTsap
    BY <1>3, ApduType DEF Sound, Layer
  <2> HIDE DEF u
  <2>2. Sound(u) /\ u.state # "Connecting" /\ t2.saved \in Apdu
    BY <1>3, <1>5, <2>1, ViewTypes DEF Sound, Agrees, Open
  <2>3. Step(u, r) /\ (r.state = "Closed" => u.state = "Closed")
    BY <1>2, <1>5, <2>2, DataConnectedRequestStep
  <2> QED BY <2>1, <2>3 DEF Step, Kept, r
<1> QED BY <1>4, <1>5

LEMMA OlderView ==
  ASSUME NEW t \in Layer
  PROVE  /\ Older(t) \in Layer /\ SameView(t, Older(t))
         /\ Older(t).sent = t.sent /\ Older(t).passed = t.passed
<1>1. t.connTimer \in Off .. ConnectionTimeout + 1 /\ t.ackTimer \in Off .. AckTimeout + 1
  BY DEF Layer
<1>2. /\ Age(t.connTimer, ConnectionTimeout) \in Off .. ConnectionTimeout + 1
      /\ Age(t.ackTimer, AckTimeout) \in Off .. AckTimeout + 1
  BY <1>1 DEF Age, Off
<1>3. Older(t) = [t EXCEPT !.connTimer = Age(t.connTimer, ConnectionTimeout),
                           !.ackTimer = Age(t.ackTimer, AckTimeout)]
  BY DEF Older
<1> QED BY <1>2, <1>3 DEF Layer, SameView

-----------------------------------------------------------------------------
(* The line.                                                               *)

LEMMA FillType ==
  ASSUME NEW line \in Seq(Frame), NEW frames \in Seq(Frame)
  PROVE  Fill(line, frames) \in Seq(Frame)
<1> HIDE DEF Frame
<1> DEFINE all == line \o frames
<1>1. all \in Seq(Frame)
  BY ConcatProperties
<1>2. Fill(line, frames) = IF Len(all) <= MaxLine THEN all ELSE SubSeq(all, 1, MaxLine)
  BY DEF Fill
<1> HIDE DEF all
<1>3. CASE Len(all) <= MaxLine
  BY <1>1, <1>2, <1>3
<1>4. CASE ~(Len(all) <= MaxLine)
  <2>1. MaxLine \in Nat /\ Len(all) \in Nat
    BY <1>1, LineAssumption
  <2>2. \A i \in 1 .. MaxLine : i \in 1 .. Len(all)
    BY <1>4, <2>1
  <2>3. \A i \in 1 .. Len(all) : all[i] \in Frame
    BY <1>1
  <2>4. \A i \in 1 .. MaxLine : all[i] \in Frame
    BY <2>2, <2>3
  <2>5. SubSeq(all, 1, MaxLine) \in Seq(Frame)
    BY <2>1, <2>4, SubSeqProperties
  <2> QED BY <1>2, <1>4, <2>5
<1> QED BY <1>3, <1>4

LEMMA LineType ==
  ASSUME NEW line \in Seq(Frame), line # <<>>
  PROVE  Head(line) \in Frame /\ Tail(line) \in Seq(Frame)
<1> HIDE DEF Frame
<1> QED BY HeadTailProperties

LEMMA OneFrame ==
  ASSUME NEW f \in Frame
  PROVE  <<f>> \in Seq(Frame)
<1> HIDE DEF Frame
<1> QED OBVIOUS

(* What became of the layer when a handler has ended.                      *)
Inv == TypeOK /\ Sound(tl) /\ SavedEndsWithConnection

LineFields ==
  /\ tool \in ToolEnd /\ toDevice \in Seq(Frame)
  /\ unconfirmed \in 0 .. restarts /\ restarts \in 0 .. MaxRestarts
  /\ closedSince \in BOOLEAN

LEMMA HandleInv ==
  ASSUME Inv, NEW r, Sound(r), Handle(r), LineFields',
         r.state = "Closed" /\ ~closedSince' => r.saved = NoApdu
  PROVE  Inv'
<1> DEFINE e == [r EXCEPT !.sent = NoneSent, !.passed = <<>>]
<1>1. NoneSent \in Sent /\ <<>> \in Seq(Apdu)
  BY DEF NoneSent, Sent, PartnerOrNone
<1>2. /\ e \in Layer /\ SameView(r, e) /\ e.sent = NoneSent /\ e.passed = <<>>
  BY <1>1 DEF Sound, Layer, Sent, PartnerOrNone, SameView
<1>3. tl' = e
  BY DEF Handle
<1> HIDE DEF e
<1>4. Sound(e)
  BY <1>2, ViewSound DEF Step
<1>5. toTool' \in Seq(Frame)
  <2>1. r.sent[Tool] \in Seq(Frame)
    BY ToolAssumption DEF Sound, Layer
  <2> QED BY <2>1, FillType DEF Handle, Inv, TypeOK
<1>6. taken' \in Seq(Apdu)
  <2>1. r.passed \in Seq(Apdu) /\ taken \in Seq(Apdu)
    BY DEF Sound, Layer, Inv, TypeOK
  <2> HIDE DEF Apdu
  <2>2. taken \o r.passed \in Seq(Apdu)
    BY <2>1, ConcatProperties
  <2> QED BY <2>1, <2>2 DEF Handle
<1>7. TypeOK'
  BY <1>2, <1>3, <1>5, <1>6 DEF TypeOK, LineFields
<1>8. SavedEndsWithConnection'
  BY <1>2, <1>3 DEF SavedEndsWithConnection, SameView
<1> QED BY <1>3, <1>4, <1>7, <1>8 DEF Inv, Sound, Agrees, Open

(* A handler that keeps the layer sound, with the mark on what it closed.  *)
LEMMA StepInv ==
  ASSUME Inv, NEW r, Step(tl, r), Handle(r), LineFields',
         closedSince' = (closedSince \/ ClosedBy(r))
  PROVE  Inv'
<1>1. ASSUME r.state = "Closed", ~closedSince' PROVE r.saved = NoApdu
  <2>1. ~closedSince /\ tl.state = "Closed"
    BY <1>1 DEF ClosedBy
  <2> QED BY <1>1, <2>1 DEF Inv, SavedEndsWithConnection, Step, Kept
<1> QED BY <1>1, HandleInv DEF Step

LEMMA FieldsNow == ASSUME Inv PROVE LineFields
BY DEF Inv, TypeOK, LineFields

LEMMA ToolFields ==
  ASSUME NEW t \in ToolEnd
  PROVE  /\ t.send \in Seq4 /\ t.recv \in Seq4 /\ t.waits \in BOOLEAN
         /\ t.connects \in 0 .. MaxConnects /\ t.requests \in 0 .. MaxApdus
         /\ t.acked \in 0 .. MaxApdus /\ t.got \in Seq(Apdu) /\ t.fresh \in BOOLEAN
         /\ t.role \in {"none", "client", "server"}
BY DEF ToolEnd

LEMMA InitInv == Init => Inv
<1> SUFFICES ASSUME Init PROVE Inv
  OBVIOUS
<1>1. NoneSent \in Sent /\ <<>> \in Seq(Apdu) /\ <<>> \in Seq(Frame)
  BY DEF NoneSent, Sent, PartnerOrNone
<1>2. NoApdu \in Apdu /\ 0 \in Seq4
  BY ApduType DEF Seq4
<1>3. InitLayer \in Layer
  BY <1>1, <1>2 DEF InitLayer, Layer, Sent, PartnerOrNone, States, Off, NotConnected
<1>4. Sound(tl) /\ tl.saved = NoApdu /\ tl.sent = NoneSent /\ tl.passed = <<>>
  BY <1>3 DEF Init, InitLayer, Sound, Agrees, Open
<1>5. InitTool \in ToolEnd
  BY <1>1, <1>2, LineAssumption DEF InitTool, ToolEnd
<1>6. unconfirmed \in 0 .. restarts /\ restarts \in 0 .. MaxRestarts
  BY LineAssumption DEF Init
<1>7. tl \in Layer
  BY <1>3 DEF Init
<1>8. TypeOK
  BY <1>1, <1>4, <1>5, <1>6, <1>7 DEF TypeOK, Init
<1> QED BY <1>4, <1>8 DEF Inv, SavedEndsWithConnection

LEMMA ArriveInv ==
  ASSUME Inv, NEW answers \in BOOLEAN, NEW repeated \in BOOLEAN, Arrive(answers, repeated)
  PROVE  Inv'
<1> DEFINE f == Head(toDevice)
           r == DataIndividualIndication(tl, Tool, f.type, f.seq, f.apdu, answers)
<1>1. f \in Frame /\ Tail(toDevice) \in Seq(Frame)
  BY LineType DEF Arrive, Inv, TypeOK
<1>2. Handle(r) /\ closedSince' = (closedSince \/ ClosedBy(r))
  BY DEF Arrive
<1>3. LineFields'
  <2>1. tool' \in ToolEnd
    BY DEF Arrive, Inv, TypeOK, ToolEnd
  <2>2. closedSince' \in BOOLEAN /\ toDevice' \in Seq(Frame)
    BY <1>1, <1>2 DEF Arrive, Inv, TypeOK, ClosedBy
  <2> QED BY <2>1, <2>2 DEF Arrive, Inv, TypeOK, LineFields
<1> HIDE DEF f
<1>4. Step(tl, r)
  BY <1>1, IndicationStep, ToolAssumption DEF Inv
<1> QED BY <1>2, <1>3, <1>4, StepInv

LEMMA ArriveOtherInv ==
  ASSUME Inv, NEW type \in OtherTypes, ArriveOther(type)
  PROVE  Inv'
<1> DEFINE f == FrameOf(type, 0, NoApdu)
           r == DataIndividualIndication(tl, Other, type, 0, NoApdu, FALSE)
<1>1. f \in Frame /\ f.type = type /\ f.seq = 0 /\ f.apdu = NoApdu
  BY LineAssumption, ApduType DEF FrameOf, Frame, Seq4
<1>2. Handle(r) /\ closedSince' = (closedSince \/ ClosedBy(r))
  BY DEF ArriveOther
<1>3. LineFields'
  BY <1>2, FieldsNow DEF ArriveOther, LineFields, ClosedBy
<1>4. Step(tl, DataIndividualIndication(tl, Other, f.type, f.seq, f.apdu, FALSE))
  <2> HIDE DEF f
  <2> QED BY <1>1, IndicationStep, ToolAssumption DEF Inv
<1>5. Step(tl, r)
  BY <1>1, <1>4
<1> QED BY <1>2, <1>3, <1>5, StepInv

LEMMA ConfirmInv ==
  ASSUME Inv, NEW status \in BOOLEAN, Confirm(status)
  PROVE  Inv'
<1> DEFINE r == ConnectConfirm(tl, status)
<1>1. Handle(r) /\ closedSince' = (closedSince \/ ClosedBy(r)) /\ Step(tl, r)
  BY ConnectConfirmStep DEF Confirm, Inv
<1>2. LineFields'
  BY <1>1, FieldsNow, LineAssumption DEF Confirm, LineFields, ClosedBy
<1> QED BY <1>1, <1>2, StepInv

LEMMA LoopInv == ASSUME Inv, Loop PROVE Inv'
<1> DEFINE r == LayerLoop(tl)
<1>1. Handle(r) /\ ~closedSince' /\ Sound(r) /\ (r.state = "Closed" => r.saved = NoApdu)
  BY LoopSound DEF Loop, Inv
<1>2. LineFields'
  BY FieldsNow DEF Loop, LineFields
<1> HIDE DEF r
<1> QED BY <1>1, <1>2, HandleInv

LEMMA TickInv == ASSUME Inv, Tick PROVE Inv'
<1>1. /\ tl' \in Layer /\ SameView(tl, tl') /\ tl'.sent = NoneSent /\ tl'.passed = <<>>
  BY OlderView DEF Tick, Inv, TypeOK
<1>2. Sound(tl)'
  BY <1>1 DEF Inv, Sound, SameView, Agrees, Open
<1>3. TypeOK' /\ SavedEndsWithConnection'
  BY <1>1 DEF Tick, Inv, TypeOK, SavedEndsWithConnection, SameView
<1> QED BY <1>2, <1>3 DEF Inv

LEMMA AskRestartInv ==
  ASSUME Inv, NEW p \in Partners, NEW con \in {"later", "sent", "failed"}, AskRestart(p, con)
  PROVE  Inv'
<1> DEFINE r == RestartRequest(tl, p, con)
<1>1. Handle(r) /\ ~closedSince /\ closedSince' = closedSince
  BY DEF AskRestart
<1>2. Sound(r) /\ (r.state = "Closed" => r.saved = NoApdu)
  BY <1>1, RestartSound DEF Inv, SavedEndsWithConnection
<1>3. unconfirmed' \in 0 .. restarts' /\ restarts' \in 0 .. MaxRestarts
  BY LineAssumption DEF AskRestart, Inv, TypeOK
<1>4. LineFields'
  <2>1. tool' \in ToolEnd
    BY DEF AskRestart, Inv, TypeOK, ToolEnd
  <2> QED BY <1>1, <1>3, <2>1 DEF AskRestart, Inv, TypeOK, LineFields
<1> HIDE DEF r
<1> QED BY <1>1, <1>2, <1>4, HandleInv

-----------------------------------------------------------------------------
(* The tool's steps leave the layer alone.                                 *)

LEMMA EnvironmentInv ==
  ASSUME Inv, DeviceUnchanged, tool' \in ToolEnd,
         toDevice' \in Seq(Frame), toTool' \in Seq(Frame)
  PROVE  Inv'
<1>1. UNCHANGED <<tl, unconfirmed, restarts, taken, closedSince>>
  BY DEF DeviceUnchanged
<1>2. TypeOK'
  BY <1>1 DEF Inv, TypeOK
<1>3. Sound(tl)' /\ SavedEndsWithConnection'
  BY <1>1 DEF Inv, Sound, Agrees, Open, SavedEndsWithConnection
<1> QED BY <1>2, <1>3 DEF Inv

LEMMA SendsType ==
  ASSUME Inv, NEW type \in FrameType, NEW seq \in Seq4, NEW apdu \in Apdu,
         ToolSends(<<FrameOf(type, seq, apdu)>>)
  PROVE  toDevice' \in Seq(Frame)
<1>1. FrameOf(type, seq, apdu) \in Frame
  BY DEF FrameOf, Frame
<1>2. <<FrameOf(type, seq, apdu)>> \in Seq(Frame)
  <2> HIDE DEF FrameOf
  <2> QED BY <1>1, OneFrame
<1> HIDE DEF FrameOf
<1> QED BY <1>2, FillType DEF ToolSends, Inv, TypeOK

LEMMA GoneType == ASSUME NEW t \in ToolEnd PROVE Gone(t) \in ToolEnd
<1>1. <<>> \in Seq(Apdu) /\ 0 \in Seq4 /\ 0 \in 0 .. MaxApdus
  BY DEF Seq4
<1> QED BY <1>1 DEF Gone, ToolEnd

LEMMA ToolConnectInv == ASSUME Inv, ToolConnect PROVE Inv'
<1>1. tool.connects + 1 \in 0 .. MaxConnects /\ tool.connects + 1 \in Nat
  BY SMTT(20), ToolFields, LineAssumption DEF ToolConnect, Inv, TypeOK
<1>2. tool' = [tool EXCEPT !.role = "client", !.connects = tool.connects + 1]
  BY DEF ToolConnect
<1>3. tool' \in ToolEnd
  BY <1>1, <1>2 DEF Inv, TypeOK, ToolEnd
<1> DEFINE apdu == [kind |-> "none", n |-> tool.connects + 1]
<1>4. apdu \in Apdu /\ ToolSends(<<FrameOf("Connect", 0, apdu)>>)
  BY <1>1 DEF Apdu, ToolConnect, ConnectFrame
<1> HIDE DEF apdu
<1>5. toDevice' \in Seq(Frame)
  BY <1>4, SendsType DEF FrameType, Seq4
<1> QED BY <1>3, <1>5, EnvironmentInv DEF ToolConnect, Inv, TypeOK

LEMMA ToolRequestInv == ASSUME Inv, ToolRequest \/ ToolRepeat PROVE Inv'
<1>1. tool.send \in Seq4 /\ tool.requests \in 0 .. MaxApdus
  BY ToolFields DEF Inv, TypeOK
<1>2. tool' \in ToolEnd
  <2>1. CASE ToolRequest
    <3>1. tool.requests + 1 \in 0 .. MaxApdus
      BY <1>1, <2>1, ApduAssumption DEF ToolRequest
    <3>2. tool' = [tool EXCEPT !.waits = TRUE, !.requests = tool.requests + 1]
      BY <2>1 DEF ToolRequest
    <3> QED BY <3>1, <3>2 DEF Inv, TypeOK, ToolEnd
  <2>2. CASE ToolRepeat
    BY <2>2 DEF ToolRepeat, Inv, TypeOK
  <2> QED BY <2>1, <2>2
<1>3. ASSUME NEW n \in Nat, ToolSends(<<FrameOf("Data", tool.send, Request(n))>>)
      PROVE  toDevice' \in Seq(Frame)
  <2>1. Request(n) \in Apdu
    BY DEF Request, Apdu
  <2> HIDE DEF Request
  <2> QED BY <1>1, <1>3, <2>1, SendsType DEF FrameType
<1>4. tool.requests \in Nat /\ tool.requests + 1 \in Nat
  BY <1>1
<1>5. toDevice' \in Seq(Frame)
  BY <1>3, <1>4 DEF ToolRequest, ToolRepeat
<1> QED BY <1>2, <1>5, EnvironmentInv DEF ToolRequest, ToolRepeat, Inv, TypeOK

LEMMA ToolEndsInv == ASSUME Inv, ToolEnds PROVE Inv'
<1>1. tool' \in ToolEnd
  BY GoneType DEF ToolEnds, Inv, TypeOK
<1>2. toDevice' \in Seq(Frame)
  BY SendsType, ApduType DEF ToolEnds, Inv, TypeOK, FrameType, Seq4
<1> QED BY <1>1, <1>2, EnvironmentInv DEF ToolEnds, Inv, TypeOK

LEMMA ToolTakesType ==
  ASSUME Inv, NEW f \in Frame, ToolTakes(f)
  PROVE  tool' \in ToolEnd /\ toDevice' \in Seq(Frame)
<1>1. f.seq \in Seq4 /\ f.apdu \in Apdu
  BY DEF Frame
<1>2. /\ tool \in ToolEnd /\ toDevice \in Seq(Frame)
      /\ IncSeqNr(tool.send) \in Seq4 /\ IncSeqNr(tool.recv) \in Seq4
      /\ tool.requests \in 0 .. MaxApdus /\ Append(tool.got, f.apdu) \in Seq(Apdu)
  <2>1. tool \in ToolEnd /\ toDevice \in Seq(Frame)
    BY DEF Inv, TypeOK
  <2>2. IncSeqNr(tool.send) \in Seq4 /\ IncSeqNr(tool.recv) \in Seq4
    BY <2>1, ToolFields, SeqType
  <2>3. tool.got \in Seq(Apdu) /\ tool.requests \in 0 .. MaxApdus
    BY <2>1, ToolFields
  <2>4. Append(tool.got, f.apdu) \in Seq(Apdu)
    <3> HIDE DEF Apdu
    <3> QED BY <1>1, <2>3
  <2> QED BY <2>1, <2>2, <2>3, <2>4
<1>3. ASSUME NEW type \in FrameType, ToolSends(<<FrameOf(type, f.seq, NoApdu)>>)
      PROVE  toDevice' \in Seq(Frame)
  BY <1>1, <1>3, SendsType, ApduType
<1>4. ASSUME ToolSends(<<FrameOf("Disconnect", 0, NoApdu)>>)
      PROVE  toDevice' \in Seq(Frame)
  BY <1>4, SendsType, ApduType DEF FrameType, Seq4
<1>5. CASE tool' = [tool EXCEPT !.role = "server"] /\ UNCHANGED toDevice
  BY <1>2, <1>5 DEF ToolEnd
<1>6. CASE tool' = Gone(tool) /\ UNCHANGED toDevice
  BY <1>2, <1>6, GoneType
<1>7. CASE /\ tool' = [tool EXCEPT !.waits = FALSE, !.send = IncSeqNr(@),
                                   !.acked = tool.requests]
           /\ UNCHANGED toDevice
  <2>1. tool' = [tool EXCEPT !.waits = FALSE, !.send = IncSeqNr(tool.send),
                             !.acked = tool.requests]
    BY <1>7
  <2> QED BY <1>2, <1>7, <2>1 DEF ToolEnd
<1>8. CASE tool' = Gone(tool) /\ ToolSends(<<FrameOf("Disconnect", 0, NoApdu)>>)
  BY <1>2, <1>4, <1>8, GoneType
<1>9. CASE /\ tool' = [tool EXCEPT !.recv = IncSeqNr(@), !.got = Append(@, f.apdu)]
           /\ ToolSends(<<FrameOf("Ack", f.seq, NoApdu)>>)
  <2>1. tool' = [tool EXCEPT !.recv = IncSeqNr(tool.recv), !.got = Append(tool.got, f.apdu)]
    BY <1>9
  <2> QED BY <1>2, <1>3, <1>9, <2>1 DEF ToolEnd, FrameType
<1>10. CASE /\ UNCHANGED tool
            /\ ToolSends(<<FrameOf(IF f.seq = Previous(tool.recv) THEN "Ack" ELSE "Nack",
                                   f.seq, NoApdu)>>)
  BY <1>2, <1>3, <1>10 DEF FrameType
<1>11. CASE UNCHANGED <<tool, toDevice>>
  BY <1>2, <1>11
<1> QED BY <1>5, <1>6, <1>7, <1>8, <1>9, <1>10, <1>11 DEF ToolTakes

LEMMA ToolReceiveInv == ASSUME Inv, ToolReceive PROVE Inv'
<1>1. Head(toTool) \in Frame /\ toTool' \in Seq(Frame)
  BY LineType DEF ToolReceive, Inv, TypeOK
<1>2. tool' \in ToolEnd /\ toDevice' \in Seq(Frame)
  BY <1>1, ToolTakesType DEF ToolReceive
<1> QED BY <1>1, <1>2, EnvironmentInv DEF ToolReceive

LEMMA LoseInv == ASSUME Inv, Lose PROVE Inv'
<1>1. toDevice' \in Seq(Frame) /\ toTool' \in Seq(Frame)
  BY LineType DEF Lose, Inv, TypeOK
<1> QED BY <1>1, EnvironmentInv DEF Lose, Inv, TypeOK

-----------------------------------------------------------------------------
LEMMA NextInv == ASSUME Inv, [Next]_vars PROVE Inv'
<1>1. CASE \E answers, repeated \in BOOLEAN : Arrive(answers, repeated)
  BY <1>1, ArriveInv
<1>2. CASE \E type \in OtherTypes : ArriveOther(type)
  BY <1>2, ArriveOtherInv
<1>3. CASE \E status \in BOOLEAN : Confirm(status)
  BY <1>3, ConfirmInv
<1>4. CASE Loop \/ Tick
  BY <1>4, LoopInv, TickInv
<1>5. CASE \E p \in Partners, con \in {"later", "sent", "failed"} : AskRestart(p, con)
  BY <1>5, AskRestartInv
<1>6. CASE ToolConnect \/ ToolRequest \/ ToolRepeat \/ ToolEnds
  BY <1>6, ToolConnectInv, ToolRequestInv, ToolEndsInv
<1>7. CASE ToolReceive \/ Lose
  BY <1>7, ToolReceiveInv, LoseInv
<1>8. CASE UNCHANGED vars
  <2>1. UNCHANGED <<tl, tool, toDevice, toTool, unconfirmed, restarts, taken, closedSince>>
    BY <1>8 DEF vars
  <2> QED BY <2>1 DEF Inv, TypeOK, Sound, Agrees, Open, SavedEndsWithConnection
<1> QED BY <1>1, <1>2, <1>3, <1>4, <1>5, <1>6, <1>7, <1>8 DEF Next

(* The layer stays sound whatever the line and the partners do.            *)
THEOREM Invariant == Spec => []Inv
<1>1. Inv /\ [Next]_vars => Inv'
  BY NextInv
<1> QED BY InitInv, <1>1, PTL DEF Spec

(* Every field of the layer keeps its range (TransportLayer's members).    *)
THEOREM TypeCorrect == Spec => []TypeOK
<1>1. Inv => TypeOK
  BY DEF Inv
<1> QED BY Invariant, <1>1, PTL

(* The application has a connection exactly while the layer has one, and   *)
(* knows its partner (connectIndication to disconnectConfirm).             *)
THEOREM Agreement == Spec => []ApplicationAgrees
<1>1. Inv => ApplicationAgrees
  BY DEF Inv, Sound, Agrees, ApplicationAgrees
<1> QED BY Invariant, <1>1, PTL

(* After the loop of the pass in which a connection was closed, nothing    *)
(* that was saved in it is left (A11, loop).                               *)
THEOREM SavedEnds == Spec => []SavedEndsWithConnection
<1>1. Inv => SavedEndsWithConnection
  BY DEF Inv
<1> QED BY Invariant, <1>1, PTL

-----------------------------------------------------------------------------
(* What a handler does for those on the line.  S has the acknowledges and  *)
(* data it may send to the tool; what else it sends, the tool does not     *)
(* take for a part of its connection.                                      *)

Says(line, S) ==
  \A i \in DOMAIN line : line[i].type \in {"Ack", "Data"} => line[i] \in S

AckOf(seq) == FrameOf("Ack", seq, NoApdu)
DataOf(seq, apdu) == FrameOf("Data", seq, apdu)

SameCore(t, r) ==
  /\ SameView(t, r)
  /\ r.seqNoSend = t.seqNoSend /\ r.seqNoRecv = t.seqNoRecv
  /\ r.savedFrame = t.savedFrame /\ r.passed = t.passed

LEMMA SendCore ==
  ASSUME NEW t \in Layer, NEW to \in PartnerOrNone, NEW type \in FrameType,
         NEW seq \in Seq4, NEW apdu \in Apdu, NEW S,
         Says(t.sent[Tool], S),
         to = Tool /\ type \in {"Ack", "Data"} => FrameOf(type, seq, apdu) \in S
  PROVE  LET r == Send(t, to, type, seq, apdu)
         IN  r \in Layer /\ SameCore(t, r) /\ Says(r.sent[Tool], S)
<1> DEFINE f == FrameOf(type, seq, apdu)
           r == Send(t, to, type, seq, apdu)
<1>1. t.sent \in Sent BY DEF Layer, Sent, PartnerOrNone
<1>2. f \in Frame /\ f.type = type BY DEF Frame, FrameOf
<1>3. r = [t EXCEPT !.sent = [t.sent EXCEPT ![to] = Append(t.sent[to], f)]]
  BY DEF Send
<1>4. r \in Layer
  BY SendView
<1> HIDE DEF f, r
<1>5. SameCore(t, r)
  BY <1>3 DEF SameCore, SameView, Layer
<1>6. r.sent = [t.sent EXCEPT ![to] = Append(t.sent[to], f)]
  BY <1>3 DEF Layer
<1>7. Tool \in PartnerOrNone
  BY ToolAssumption DEF PartnerOrNone
<1>8. CASE to # Tool
  <2>1. r.sent[Tool] = t.sent[Tool]
    BY <1>1, <1>6, <1>7, <1>8 DEF Sent
  <2> QED BY <1>4, <1>5, <2>1 DEF r
<1>9. CASE to = Tool
  <2> DEFINE line == t.sent[Tool]
  <2>1. line \in Seq(Frame)
    BY <1>1, <1>7 DEF Sent
  <2>2. r.sent[Tool] = Append(line, f)
    BY <1>1, <1>6, <1>7, <1>9 DEF Sent
  <2> HIDE DEF line
  <2>3. \A i \in DOMAIN Append(line, f) :
          Append(line, f)[i] = f \/ (i \in DOMAIN line /\ Append(line, f)[i] = line[i])
    <3> HIDE DEF Frame
    <3> QED BY <1>2, <2>1, AppendProperties
  <2>4. Says(Append(line, f), S)
    BY <1>2, <1>9, <2>3 DEF Says, line, f
  <2> QED BY <1>4, <1>5, <2>2, <2>4 DEF r
<1> QED BY <1>8, <1>9

LEMMA ControlCore ==
  ASSUME NEW t \in Layer, NEW type \in FrameType, NEW seq \in Seq4, NEW S,
         Says(t.sent[Tool], S),
         t.connectionAddress = Tool /\ type \in {"Ack", "Data"} => FrameOf(type, seq, NoApdu) \in S
  PROVE  LET r == SendControlTelegram(t, type, seq)
         IN  r \in Layer /\ SameCore(t, r) /\ Says(r.sent[Tool], S)
BY SendCore, ViewTypes, ApduType DEF SendControlTelegram

LEMMA TimerCore ==
  ASSUME NEW t \in Layer
  PROVE  /\ EnableConnectionTimeout(t) \in Layer /\ DisableTimeouts(t) \in Layer
         /\ SameCore(t, EnableConnectionTimeout(t)) /\ SameCore(t, DisableTimeouts(t))
         /\ EnableConnectionTimeout(t).sent = t.sent /\ DisableTimeouts(t).sent = t.sent
<1>1. EnableConnectionTimeout(t) \in Layer /\ DisableTimeouts(t) \in Layer
  BY TimerView
<1> QED BY <1>1 DEF EnableConnectionTimeout, DisableTimeouts, Layer, SameCore, SameView

(* The state alone.                                                        *)
SameRest(t, r) ==
  /\ r.saved = t.saved /\ r.savedFrame = t.savedFrame /\ r.passed = t.passed
  /\ r.connectionAddress = t.connectionAddress /\ r.connectedTsap = t.connectedTsap
  /\ r.seqNoSend = t.seqNoSend /\ r.seqNoRecv = t.seqNoRecv /\ r.sent = t.sent

LEMMA StateCore ==
  ASSUME NEW t \in Layer, NEW s \in States
  PROVE  /\ [t EXCEPT !.state = s] \in Layer /\ [t EXCEPT !.state = s].state = s
         /\ SameRest(t, [t EXCEPT !.state = s])
BY DEF Layer, SameRest

(* Data of the connection: the frame that waits for its acknowledge.       *)
LEMMA A7Core ==
  ASSUME NEW t \in Layer, NEW apdu \in Apdu, NEW S, Says(t.sent[Tool], S),
         t.connectionAddress = Tool => DataOf(t.seqNoSend, apdu) \in S
  PROVE  LET r == A7(t, apdu)
         IN  /\ r \in Layer /\ SameView(t, r) /\ r.savedFrame = apdu
             /\ r.seqNoSend = t.seqNoSend /\ r.seqNoRecv = t.seqNoRecv
             /\ r.passed = t.passed /\ Says(r.sent[Tool], S)
<1> DEFINE v == Send(t, t.connectionAddress, "Data", t.seqNoSend, apdu)
           r == A7(t, apdu)
<1>1. v \in Layer /\ SameCore(t, v) /\ Says(v.sent[Tool], S)
  BY SendCore, ViewTypes DEF FrameType, DataOf
<1>2. r = [v EXCEPT !.savedFrame = apdu, !.repCount = 0, !.ackTimer = 0, !.connTimer = 0]
  BY DEF A7
<1>3. r \in Layer /\ SameView(t, r)
  BY A7View
<1> HIDE DEF v, r
<1>4. /\ r.savedFrame = apdu /\ r.seqNoSend = v.seqNoSend /\ r.seqNoRecv = v.seqNoRecv
      /\ r.passed = v.passed /\ r.sent = v.sent
  BY <1>1, <1>2 DEF Layer
<1> QED BY <1>1, <1>3, <1>4 DEF SameCore, r

LEMMA A9Core ==
  ASSUME NEW t \in Layer, t.repCount < MaxRepCount, NEW S, Says(t.sent[Tool], S),
         t.connectionAddress = Tool => DataOf(t.seqNoSend, t.savedFrame) \in S
  PROVE  LET r == A9(t) IN r \in Layer /\ SameCore(t, r) /\ Says(r.sent[Tool], S)
<1> DEFINE v == Send(t, t.connectionAddress, "Data", t.seqNoSend, t.savedFrame)
           r == A9(t)
<1>1. v \in Layer /\ SameCore(t, v) /\ Says(v.sent[Tool], S)
  BY SendCore, ViewTypes DEF FrameType, DataOf
<1>2. r = [v EXCEPT !.repCount = v.repCount + 1, !.ackTimer = 0, !.connTimer = 0]
  BY DEF A9
<1>3. r \in Layer /\ SameView(t, r)
  BY A9View
<1> HIDE DEF v, r
<1>4. /\ r.savedFrame = v.savedFrame /\ r.seqNoSend = v.seqNoSend /\ r.seqNoRecv = v.seqNoRecv
      /\ r.passed = v.passed /\ r.sent = v.sent
  BY <1>1, <1>2 DEF Layer
<1> QED BY <1>1, <1>3, <1>4 DEF SameCore, r

(* A5 and A6.                                                              *)
Finishes(t, r) ==
  /\ r.state = t.state /\ r.saved = t.saved /\ r.connectedTsap = NotConnected
  /\ r.connectionAddress = t.connectionAddress /\ r.passed = t.passed

LEMMA EndCore ==
  ASSUME NEW t \in Layer, NEW r, r \in {A5(t), A6(t)}, NEW S, Says(t.sent[Tool], S)
  PROVE  r \in Layer /\ Finishes(t, r) /\ Says(r.sent[Tool], S)
<1>1. ASSUME NEW v \in Layer
      PROVE  /\ A5(v) \in Layer /\ Finishes(v, A5(v)) /\ A5(v).sent = v.sent
  <2> DEFINE u == ConnectionClosed(v)
  <2>1. /\ u \in Layer /\ u.state = v.state /\ u.saved = v.saved /\ u.passed = v.passed
        /\ u.connectionAddress = v.connectionAddress /\ u.connectedTsap = NotConnected
        /\ u.sent = v.sent
    BY DEF ConnectionClosed, Layer
  <2> HIDE DEF u
  <2>2. A5(v) = DisableTimeouts(u)
    BY DEF A5, u
  <2> QED BY <2>1, <2>2, TimerCore DEF SameCore, SameView, Finishes
<1> DEFINE v == SendControlTelegram(t, "Disconnect", 0)
<1>2. v \in Layer /\ SameCore(t, v) /\ Says(v.sent[Tool], S)
  BY ControlCore, ViewTypes DEF FrameType
<1>3. A6(t) = A5(v)
  BY DEF A6
<1> HIDE DEF v
<1> QED BY <1>1, <1>2, <1>3 DEF Finishes, SameCore, SameView

LEMMA ClosedCore ==
  ASSUME NEW t \in Layer, NEW r, r \in {A5(Close(t)), A6(Close(t))}, NEW S,
         Says(t.sent[Tool], S)
  PROVE  /\ r \in Layer /\ r.state = "Closed" /\ r.saved = t.saved
         /\ r.connectedTsap = NotConnected /\ r.passed = t.passed /\ Says(r.sent[Tool], S)
<1>1. Close(t) \in Layer /\ Close(t).state = "Closed" /\ SameRest(t, Close(t))
  BY StateCore DEF Close, States
<1> QED BY <1>1, EndCore DEF SameRest, Finishes

(* Between the handlers the layer has sent and passed nothing.             *)
AtRest(t) == Sound(t) /\ t.sent = NoneSent /\ t.passed = <<>>

(* A connection with the tool that is known to the application.            *)
Straight(t) ==
  t.connectionAddress = Tool /\ t.state # "Closed" => t.connectedTsap = Tool

(* What a handler may do, seen from the connection with the tool: nothing; *)
(* end it or stay out of it; acknowledge a request once more; take one and *)
(* answer it, at once, later or not; see its data acknowledged; repeat     *)
(* them; send what was saved; open.                                        *)
Mute(t, r) == SameCore(t, r) /\ Says(r.sent[Tool], {})

Away(t, r) ==
  /\ r.connectedTsap # Tool
  /\ t.connectedTsap = Tool => r.passed = <<>>
  /\ Straight(t) =>
       /\ Straight(r) /\ Says(r.sent[Tool], {})
       /\ r.saved \in {t.saved, NoApdu}
       /\ r.state = "OpenWait" => t.state = "OpenWait" \/ t.saved # NoApdu

AcksAgain(t, r) ==
  /\ t.connectedTsap = Tool /\ SameCore(t, r)
  /\ Says(r.sent[Tool], {AckOf(Previous(t.seqNoRecv))})

Repeats(t, r) ==
  /\ t.connectedTsap = Tool /\ SameCore(t, r) /\ t.state = "OpenWait"
  /\ Says(r.sent[Tool], {DataOf(t.seqNoSend, t.savedFrame)})

Takes(t, r, apdu) ==
  /\ t.connectedTsap = Tool /\ r.connectedTsap = Tool
  /\ r.connectionAddress = t.connectionAddress
  /\ r.seqNoSend = t.seqNoSend /\ r.seqNoRecv = IncSeqNr(t.seqNoRecv)
  /\ r.passed = <<apdu>>
  /\ \/ /\ r.state = t.state /\ r.saved \in {t.saved, Answer(apdu)}
        /\ r.saved = t.saved \/ t.state = "OpenWait"
        /\ r.savedFrame = t.savedFrame
        /\ Says(r.sent[Tool], {AckOf(t.seqNoRecv)})
     \/ /\ t.state = "OpenIdle" /\ r.state = "OpenWait"
        /\ r.saved = t.saved /\ r.savedFrame = Answer(apdu)
        /\ Says(r.sent[Tool], {AckOf(t.seqNoRecv), DataOf(t.seqNoSend, Answer(apdu))})

Settles(t, r) ==
  /\ t.connectedTsap = Tool /\ r.connectedTsap = Tool
  /\ r.connectionAddress = t.connectionAddress
  /\ t.state = "OpenWait" /\ r.state = "OpenIdle"
  /\ r.seqNoSend = IncSeqNr(t.seqNoSend) /\ r.seqNoRecv = t.seqNoRecv
  /\ r.saved = t.saved /\ r.passed = <<>> /\ Says(r.sent[Tool], {})

SendsSaved(t, r) ==
  /\ t.connectedTsap = Tool /\ r.connectedTsap = Tool
  /\ r.connectionAddress = t.connectionAddress
  /\ t.state = "OpenIdle" /\ r.state = "OpenWait"
  /\ r.seqNoSend = t.seqNoSend /\ r.seqNoRecv = t.seqNoRecv
  /\ t.saved # NoApdu /\ r.saved = NoApdu /\ r.savedFrame = t.saved
  /\ r.passed = <<>> /\ Says(r.sent[Tool], {DataOf(t.seqNoSend, t.saved)})

Opens(t, r) ==
  /\ t.state = "Closed" /\ r.state = "OpenIdle"
  /\ r.connectionAddress = Tool /\ r.connectedTsap = Tool
  /\ r.seqNoSend = 0 /\ r.seqNoRecv = 0
  /\ r.saved = t.saved /\ r.passed = <<>> /\ Says(r.sent[Tool], {})

(* A frame of the tool may cause these,                                    *)
Arrives(t, r, f) ==
  \/ Mute(t, r) \/ Away(t, r) \/ Repeats(t, r)
  \/ f.type = "Data" /\ f.seq = Previous(t.seqNoRecv) /\ AcksAgain(t, r)
  \/ f.type = "Data" /\ f.seq = t.seqNoRecv /\ Takes(t, r, f.apdu)
  \/ f.type = "Ack" /\ f.seq = t.seqNoSend /\ Settles(t, r)
  \/ f.type = "Connect" /\ Opens(t, r)

(* anything else these.                                                    *)
Passes(t, r) == Mute(t, r) \/ Away(t, r) \/ Repeats(t, r) \/ SendsSaved(t, r)

LEMMA RestFacts ==
  ASSUME NEW t, AtRest(t)
  PROVE  /\ t \in Layer /\ t.state \in States
         /\ \A S : Says(t.sent[Tool], S)
         /\ t.connectedTsap = Tool => t.connectionAddress = Tool /\ Open(t)
         /\ Other # Tool /\ Tool \in Partners /\ Other \in Partners
         /\ Tool # NotConnected /\ Tool # NoAddress /\ Tool \in PartnerOrNone
         /\ SameCore(t, t) /\ Mute(t, t)
<1>1. t \in Layer /\ t.state \in States
  BY ViewTypes DEF AtRest, Sound
<1>2. /\ Other # Tool /\ Tool \in Partners /\ Other \in Partners /\ Tool \in PartnerOrNone
      /\ Tool # NotConnected /\ Tool # NoAddress
  BY ToolAssumption, AddressesDiffer DEF PartnerOrNone
<1>3. t.sent[Tool] = <<>>
  BY <1>2 DEF AtRest, NoneSent, PartnerOrNone
<1>4. \A S : Says(t.sent[Tool], S)
  BY <1>3 DEF Says
<1>5. t.connectedTsap = Tool => t.connectionAddress = Tool /\ Open(t)
  BY <1>2 DEF AtRest, Sound, Agrees
<1>6. SameCore(t, t) BY DEF SameCore, SameView
<1> QED BY <1>1, <1>2, <1>4, <1>5, <1>6 DEF Mute

(* What a handler closes is closed.                                        *)
LEMMA ClosedAway ==
  ASSUME NEW t, AtRest(t), NEW r, r \in {A5(Close(t)), A6(Close(t))}
  PROVE  Away(t, r)
<1>1. /\ r.state = "Closed" /\ r.saved = t.saved
      /\ r.connectedTsap = NotConnected /\ r.passed = <<>> /\ Says(r.sent[Tool], {})
  BY RestFacts, ClosedCore DEF AtRest
<1> QED BY <1>1, RestFacts DEF Away, Straight

LEMMA MuteSend ==
  ASSUME NEW t, AtRest(t), NEW to \in PartnerOrNone,
         NEW type \in FrameType \ {"Ack", "Data"}, NEW seq \in Seq4, NEW apdu \in Apdu
  PROVE  Mute(t, Send(t, to, type, seq, apdu))
BY RestFacts, SendCore DEF Mute

LEMMA StrangerMute ==
  ASSUME NEW t, AtRest(t), NEW source \in Partners
  PROVE  Mute(t, Stranger(t, source)) /\ Mute(t, A10(t, source))
<1>1. Mute(t, A10(t, source))
  BY MuteSend, RestFacts, ViewTypes, ApduType DEF A10, PartnerOrNone, FrameType
<1> QED BY <1>1, RestFacts DEF Stranger

(* A frame that moves the layer on within a connection that is not ours.   *)
LEMMA SameAway ==
  ASSUME NEW t, AtRest(t), t.connectedTsap # Tool, NEW r, SameCore(t, r),
         Straight(t) => Says(r.sent[Tool], {})
  PROVE  Away(t, r)
BY DEF Away, SameCore, SameView, Straight, AtRest

LEMMA A3Core ==
  ASSUME NEW t, AtRest(t), NEW seq \in Seq4, NEW S,
         t.connectionAddress = Tool => AckOf(seq) \in S
  PROVE  SameCore(t, A3(t, seq)) /\ Says(A3(t, seq).sent[Tool], S)
<1> DEFINE v == SendControlTelegram(t, "Ack", seq)
<1>1. v \in Layer /\ SameCore(t, v) /\ Says(v.sent[Tool], S)
  BY ControlCore, RestFacts DEF FrameType, AckOf
<1>2. A3(t, seq) = EnableConnectionTimeout(v)
  BY DEF A3
<1> HIDE DEF v
<1> QED BY <1>1, <1>2, TimerCore DEF SameCore, SameView

LEMMA A4Mute ==
  ASSUME NEW t, AtRest(t), NEW seq \in Seq4
  PROVE  Mute(t, A4(t, seq))
<1> DEFINE v == SendControlTelegram(t, "Nack", seq)
<1>1. v \in Layer /\ SameCore(t, v) /\ Says(v.sent[Tool], {})
  BY ControlCore, RestFacts DEF FrameType
<1>2. A4(t, seq) = EnableConnectionTimeout(v)
  BY DEF A4
<1> HIDE DEF v
<1> QED BY <1>1, <1>2, TimerCore DEF SameCore, SameView, Mute

(* A2 up to the application.                                               *)
LEMMA TakenCore ==
  ASSUME NEW t, AtRest(t), NEW apdu \in Apdu, NEW S,
         t.connectionAddress = Tool => AckOf(t.seqNoRecv) \in S
  PROVE  LET acked == SendControlTelegram(t, "Ack", t.seqNoRecv)
             u == [acked EXCEPT !.seqNoRecv = IncSeqNr(acked.seqNoRecv),
                                !.passed = Append(acked.passed, apdu)]
         IN  /\ Sound(u) /\ SameView(t, u) /\ u.savedFrame = t.savedFrame
             /\ u.seqNoSend = t.seqNoSend /\ u.seqNoRecv = IncSeqNr(t.seqNoRecv)
             /\ u.passed = <<apdu>> /\ Says(u.sent[Tool], S)
<1> DEFINE acked == SendControlTelegram(t, "Ack", t.seqNoRecv)
           u == [acked EXCEPT !.seqNoRecv = IncSeqNr(acked.seqNoRecv),
                              !.passed = Append(acked.passed, apdu)]
<1>1. acked \in Layer /\ SameCore(t, acked) /\ Says(acked.sent[Tool], S)
  BY ControlCore, RestFacts, ViewTypes DEF FrameType, AckOf
<1> HIDE DEF acked
<1>2. acked.passed = <<>> /\ acked.seqNoRecv = t.seqNoRecv
  BY <1>1 DEF SameCore, AtRest
<1>3. Append(acked.passed, apdu) = <<apdu>>
  BY <1>2
<1>4. IncSeqNr(acked.seqNoRecv) \in Seq4
  BY <1>1, ViewTypes, SeqType
<1>5. <<apdu>> \in Seq(Apdu)
  <2> HIDE DEF Apdu
  <2> QED OBVIOUS
<1>6. u \in Layer
  BY <1>1, <1>3, <1>4, <1>5 DEF Layer
<1>7. /\ u.state = acked.state /\ u.saved = acked.saved /\ u.savedFrame = acked.savedFrame
      /\ u.connectionAddress = acked.connectionAddress
      /\ u.connectedTsap = acked.connectedTsap /\ u.seqNoSend = acked.seqNoSend
      /\ u.seqNoRecv = IncSeqNr(acked.seqNoRecv) /\ u.passed = <<apdu>>
      /\ u.sent = acked.sent
  BY <1>1, <1>3 DEF Layer
<1> HIDE DEF u
<1>8. SameView(t, u)
  BY <1>1, <1>7 DEF SameCore, SameView
<1>9. Sound(u)
  BY <1>6, <1>8, ViewSound DEF Step, AtRest
<1> QED BY <1>1, <1>2, <1>7, <1>8, <1>9 DEF SameCore, acked, u

LEMMA A2Takes ==
  ASSUME NEW t, AtRest(t), t.connectedTsap = Tool, NEW apdu \in Apdu, NEW answers \in BOOLEAN
  PROVE  Takes(t, A2(t, Tool, apdu, answers), apdu)
<1> DEFINE acked == SendControlTelegram(t, "Ack", t.seqNoRecv)
           u == [acked EXCEPT !.seqNoRecv = IncSeqNr(acked.seqNoRecv),
                              !.passed = Append(acked.passed, apdu)]
           told == Indicate(u, Tool, apdu, answers)
           r == A2(t, Tool, apdu, answers)
           S == {AckOf(t.seqNoRecv)}
           SS == {AckOf(t.seqNoRecv), DataOf(t.seqNoSend, Answer(apdu))}
<1>1. ASSUME NEW SX, AckOf(t.seqNoRecv) \in SX
      PROVE  /\ Sound(u) /\ SameView(t, u) /\ u.savedFrame = t.savedFrame
             /\ u.seqNoSend = t.seqNoSend /\ u.seqNoRecv = IncSeqNr(t.seqNoRecv)
             /\ u.passed = <<apdu>> /\ Says(u.sent[Tool], SX)
  BY <1>1, TakenCore
<1>2. r = EnableConnectionTimeout(told)
  BY DEF A2
<1> HIDE DEF acked, u
<1>3. /\ Sound(u) /\ SameView(t, u) /\ u.savedFrame = t.savedFrame
      /\ u.seqNoSend = t.seqNoSend /\ u.seqNoRecv = IncSeqNr(t.seqNoRecv)
      /\ u.passed = <<apdu>> /\ Says(u.sent[Tool], S) /\ Says(u.sent[Tool], SS)
  BY <1>1
<1>4. /\ u \in Layer /\ u.connectedTsap = Tool /\ u.connectionAddress = Tool
      /\ u.state \in {"OpenIdle", "OpenWait"} /\ Answer(apdu) \in Apdu
  BY <1>3, RestFacts, ApduType DEF Sound, SameView, Open
<1> HIDE DEF r
<1>5. ASSUME NEW v \in Layer, told = v
      PROVE  SameCore(v, r) /\ r.sent = v.sent
  BY <1>2, <1>5, TimerCore
<1> HIDE DEF S, SS
<1>6. CASE ~answers
  <2>1. told = u
    BY <1>6 DEF Indicate
  <2> HIDE DEF told
  <2>2. SameCore(u, r) /\ r.sent = u.sent
    BY <1>4, <1>5, <2>1
  <2> QED BY <1>3, <1>4, <2>2 DEF Takes, SameCore, SameView, S, r
<1>7. CASE answers
  <2>1. told = DataConnectedRequest(u, Answer(apdu))
    BY <1>4, <1>7 DEF Indicate, IndividualSend
  <2> HIDE DEF told
  <2>2. CASE u.state = "OpenIdle"
    <3> DEFINE w == [u EXCEPT !.state = "OpenWait"]
               v == A7(w, Answer(apdu))
    <3>1. w \in Layer /\ w.state = "OpenWait" /\ SameRest(u, w)
      BY <1>4, StateCore DEF States
    <3>2. told = v
      BY <2>1, <2>2 DEF DataConnectedRequest
    <3> HIDE DEF w
    <3>3. DataOf(w.seqNoSend, Answer(apdu)) \in SS /\ Says(w.sent[Tool], SS)
      BY <1>3, <3>1 DEF SameRest, SS
    <3>4. /\ v \in Layer /\ SameView(w, v) /\ v.savedFrame = Answer(apdu)
          /\ v.seqNoSend = w.seqNoSend /\ v.seqNoRecv = w.seqNoRecv
          /\ v.passed = w.passed /\ Says(v.sent[Tool], SS)
      BY <1>4, <3>1, <3>3, A7Core
    <3> HIDE DEF v
    <3>5. SameCore(v, r) /\ r.sent = v.sent
      BY <1>5, <3>2, <3>4
    <3> QED BY <1>3, <1>4, <2>2, <3>1, <3>4, <3>5 DEF Takes, SameCore, SameView, SameRest, SS, r
  <2>3. CASE u.state = "OpenWait"
    <3> DEFINE v == [u EXCEPT !.saved = Answer(apdu)]
    <3>1. told = v
      BY <2>1, <2>3 DEF DataConnectedRequest, A11
    <3>2. /\ v \in Layer /\ v.saved = Answer(apdu) /\ v.state = u.state
          /\ v.savedFrame = u.savedFrame /\ v.passed = u.passed
          /\ v.connectionAddress = u.connectionAddress /\ v.connectedTsap = u.connectedTsap
          /\ v.seqNoSend = u.seqNoSend /\ v.seqNoRecv = u.seqNoRecv /\ v.sent = u.sent
      BY <1>4 DEF Layer
    <3> HIDE DEF v
    <3>3. SameCore(v, r) /\ r.sent = v.sent
      BY <1>5, <3>1, <3>2
    <3> QED BY <1>3, <1>4, <2>3, <3>2, <3>3 DEF Takes, SameCore, SameView, S, r
  <2> QED BY <1>4, <2>2, <2>3
<1> QED BY <1>6, <1>7

(* The application of a connection that is not the tool's does not answer  *)
(* in it, and what it may save is not the tool's.                          *)
LEMMA A2Away ==
  ASSUME NEW t, AtRest(t), t.connectedTsap # Tool, t.state # "Closed",
         NEW source \in Partners, source = t.connectionAddress,
         NEW apdu \in Apdu, NEW answers \in BOOLEAN, source = Tool \/ ~answers
  PROVE  Away(t, A2(t, source, apdu, answers))
<1> DEFINE acked == SendControlTelegram(t, "Ack", t.seqNoRecv)
           u == [acked EXCEPT !.seqNoRecv = IncSeqNr(acked.seqNoRecv),
                              !.passed = Append(acked.passed, apdu)]
           told == Indicate(u, source, apdu, answers)
           r == A2(t, source, apdu, answers)
<1>1. /\ Sound(u) /\ SameView(t, u)
      /\ source # Tool => Says(u.sent[Tool], {})
  <2>1. CASE source # Tool
    BY <2>1, TakenCore
  <2>2. CASE source = Tool
    <3>1. AckOf(t.seqNoRecv) \in {AckOf(t.seqNoRecv)} OBVIOUS
    <3> QED BY <2>2, <3>1, TakenCore
  <2> QED BY <2>1, <2>2
<1>2. r = EnableConnectionTimeout(told)
  BY DEF A2
<1> HIDE DEF acked, u, r
<1>3. CASE source = Tool
  <2>1. told.connectedTsap = u.connectedTsap /\ told \in Layer
    <3>1. CASE ~answers
      BY <1>1, <3>1 DEF Indicate, Sound
    <3>2. CASE answers
      <4>1. told = Send(u, Tool, "Individual", 0, Answer(apdu))
        BY <1>1, <1>3, <3>2 DEF Indicate, IndividualSend, SameView
      <4> HIDE DEF told
      <4>2. /\ u \in Layer /\ Tool \in PartnerOrNone /\ "Individual" \in FrameType
            /\ Answer(apdu) \in Apdu /\ 0 \in Seq4
        BY <1>1, RestFacts, ApduType DEF Sound, FrameType, Seq4
      <4> QED BY <4>1, <4>2, SendView DEF SameView
    <3> QED BY <3>1, <3>2
  <2> HIDE DEF told
  <2>2. r.connectedTsap = told.connectedTsap
    BY <1>2, <2>1, TimerCore DEF SameCore, SameView
  <2>3. ~Straight(t)
    BY <1>3 DEF Straight
  <2> QED BY <1>1, <2>1, <2>2, <2>3 DEF Away, SameView, r
<1>4. CASE source # Tool
  <2>1. told = u
    BY <1>4 DEF Indicate
  <2> HIDE DEF told
  <2>2. SameCore(u, r) /\ r.sent = u.sent
    BY <1>1, <1>2, <2>1, TimerCore DEF Sound
  <2> QED BY <1>1, <1>4, <2>2 DEF Away, SameCore, SameView, Straight, r
<1> QED BY <1>3, <1>4

LEMMA SeqMoves ==
  ASSUME NEW seq \in Seq4
  PROVE  /\ Previous(seq) # seq /\ IncSeqNr(seq) # seq /\ Previous(IncSeqNr(seq)) = seq
         /\ IncSeqNr(Previous(seq)) = seq
         /\ Previous(seq) \in Seq4 /\ IncSeqNr(seq) \in Seq4 /\ 0 \in Seq4
BY DEF Seq4, Previous, IncSeqNr

(* The handlers.  A frame the tool sends, or one of the other device whose *)
(* application does not answer.                                            *)
LEMMA DataArrives ==
  ASSUME NEW t, AtRest(t), NEW source \in Partners, NEW seq \in Seq4, NEW apdu \in Apdu,
         NEW answers \in BOOLEAN, source = Tool \/ ~answers
  PROVE  LET r == DataIndication(t, source, seq, apdu, answers)
         IN  \/ Mute(t, r) \/ Away(t, r)
             \/ source = Tool /\ seq = Previous(t.seqNoRecv) /\ AcksAgain(t, r)
             \/ source = Tool /\ seq = t.seqNoRecv /\ Takes(t, r, apdu)
<1> DEFINE r == DataIndication(t, source, seq, apdu, answers)
<1>0. t \in Layer /\ t.state \in States /\ (t.connectedTsap = Tool => t.connectionAddress = Tool /\ Open(t))
  BY RestFacts
<1>1. CASE source # t.connectionAddress
  BY <1>1, StrangerMute DEF DataIndication
<1>2. CASE source = t.connectionAddress /\ t.state = "Closed"
  BY <1>2, RestFacts DEF DataIndication, Open
<1>3. CASE source = t.connectionAddress /\ t.state = "Connecting"
  <2>1. r = DataWhenConnecting(t, seq)
    BY <1>3 DEF DataIndication, Open
  <2>2. t.connectedTsap # Tool
    BY <1>0, <1>3 DEF Open
  <2>3. Straight(t) => t.connectionAddress # Tool
    BY <1>3, <2>2 DEF Straight
  <2>4. Away(t, A3(t, seq))
    <3>1. AckOf(seq) \in {AckOf(seq)} OBVIOUS
    <3>2. SameCore(t, A3(t, seq))
      BY <3>1, A3Core
    <3>3. Straight(t) => Says(A3(t, seq).sent[Tool], {})
      BY <2>3, A3Core
    <3> QED BY <2>2, <3>2, <3>3, SameAway
  <2>5. Away(t, A6(t))
    <3>1. Finishes(t, A6(t)) /\ Says(A6(t).sent[Tool], {})
      BY <1>0, EndCore, RestFacts
    <3> QED BY <2>2, <2>3, <3>1, RestFacts DEF Away, Finishes, Straight
  <2>6. r \in {A6(Close(t)), A3(t, seq), A6(t)}
    BY <2>1 DEF DataWhenConnecting
  <2> QED BY <2>4, <2>5, <2>6, ClosedAway
<1>4. CASE source = t.connectionAddress /\ Open(t)
  <2>1. r = DataWhenOpen(t, source, seq, apdu, answers)
    BY <1>4 DEF DataIndication, Open
  <2>2. CASE seq = t.seqNoRecv
    <3>0. seq # Previous(t.seqNoRecv)
      BY <1>0, <2>2, ViewTypes, SeqMoves
    <3>1. r = A2(t, source, apdu, answers)
      BY <2>1, <2>2, <3>0 DEF DataWhenOpen
    <3>2. CASE t.connectedTsap = Tool
      <4>1. source = Tool BY <1>0, <1>4, <3>2
      <4> QED BY <2>2, <3>1, <3>2, <4>1, A2Takes
    <3>3. CASE t.connectedTsap # Tool
      BY <1>4, <3>1, <3>3, A2Away DEF Open
    <3> QED BY <3>2, <3>3
  <2>3. CASE seq # t.seqNoRecv /\ seq = Previous(t.seqNoRecv)
    <3>1. r = A3(t, seq)
      BY <2>1, <2>3 DEF DataWhenOpen
    <3>2. AckOf(seq) \in {AckOf(seq)} OBVIOUS
    <3>3. SameCore(t, r) /\ Says(r.sent[Tool], {AckOf(seq)})
      BY <3>1, <3>2, A3Core
    <3>4. CASE t.connectedTsap = Tool
      BY <1>0, <1>4, <2>3, <3>3, <3>4 DEF AcksAgain
    <3>5. CASE t.connectedTsap # Tool
      <4>1. Straight(t) => t.connectionAddress # Tool
        BY <1>4, <3>5 DEF Straight, Open
      <4>2. Straight(t) => Says(r.sent[Tool], {})
        BY <3>1, <4>1, A3Core
      <4> QED BY <3>3, <3>5, <4>2, SameAway
    <3> QED BY <3>4, <3>5
  <2>4. CASE seq # t.seqNoRecv /\ seq # Previous(t.seqNoRecv)
    BY <2>1, <2>4, A4Mute DEF DataWhenOpen
  <2> QED BY <2>2, <2>3, <2>4
<1> QED BY <1>0, <1>1, <1>2, <1>3, <1>4 DEF States, Open

LEMMA ConnectArrives ==
  ASSUME NEW t, AtRest(t), NEW source \in Partners
  PROVE  LET r == ConnectIndication(t, source)
         IN  Mute(t, r) \/ Away(t, r) \/ (source = Tool /\ Opens(t, r))
<1> DEFINE r == ConnectIndication(t, source)
<1>1. CASE t.state # "Closed"
  BY <1>1, RestFacts, StrangerMute DEF ConnectIndication
<1>2. CASE t.state = "Closed"
  <2> DEFINE u == [t EXCEPT !.state = "OpenIdle"]
             v == [u EXCEPT !.connectionAddress = source, !.connectedTsap = source,
                            !.seqNoSend = 0, !.seqNoRecv = 0]
  <2>1. u \in Layer /\ u.state = "OpenIdle" /\ SameRest(t, u)
    BY StateCore, RestFacts DEF States
  <2>2. r = EnableConnectionTimeout(v)
    BY <1>2 DEF ConnectIndication, A1
  <2> HIDE DEF u
  <2>3. /\ v \in Layer /\ v.state = "OpenIdle" /\ v.connectionAddress = source
        /\ v.connectedTsap = source /\ v.saved = u.saved /\ v.passed = u.passed
        /\ v.seqNoSend = 0 /\ v.seqNoRecv = 0 /\ v.sent = u.sent
    BY <2>1, ViewTypes DEF Layer
  <2> HIDE DEF v, r
  <2>4. SameCore(v, r) /\ r.sent = v.sent
    BY <2>2, <2>3, TimerCore
  <2>5. /\ r.state = "OpenIdle" /\ r.connectionAddress = source /\ r.connectedTsap = source
        /\ r.seqNoSend = 0 /\ r.seqNoRecv = 0 /\ r.saved = t.saved /\ r.passed = <<>>
        /\ Says(r.sent[Tool], {})
    BY <2>1, <2>3, <2>4, RestFacts DEF SameCore, SameView, SameRest, AtRest
  <2> QED BY <1>2, <2>5 DEF Opens, Away, Straight, r
<1> QED BY <1>1, <1>2

LEMMA AckArrives ==
  ASSUME NEW t, AtRest(t), NEW source \in Partners, NEW seq \in Seq4
  PROVE  LET r == AckIndication(t, source, seq)
         IN  Mute(t, r) \/ Away(t, r) \/ (source = Tool /\ seq = t.seqNoSend /\ Settles(t, r))
<1> DEFINE r == AckIndication(t, source, seq)
<1>1. CASE source # t.connectionAddress
  BY <1>1, StrangerMute DEF AckIndication
<1>2. CASE source = t.connectionAddress /\ t.state = "OpenWait" /\ seq = t.seqNoSend
  <2> DEFINE u == [t EXCEPT !.state = "OpenIdle"]
             v == [u EXCEPT !.ackTimer = Off, !.seqNoSend = IncSeqNr(u.seqNoSend),
                            !.savedFrame = NoApdu]
  <2>1. u \in Layer /\ u.state = "OpenIdle" /\ SameRest(t, u)
    BY StateCore, RestFacts DEF States
  <2>2. r = EnableConnectionTimeout(v)
    BY <1>2 DEF AckIndication, A8
  <2> HIDE DEF u
  <2>3. IncSeqNr(u.seqNoSend) \in Seq4 /\ NoApdu \in Apdu
    BY <2>1, ViewTypes, SeqType, ApduType
  <2>4. /\ v \in Layer /\ v.state = u.state /\ v.connectionAddress = u.connectionAddress
        /\ v.connectedTsap = u.connectedTsap /\ v.saved = u.saved /\ v.passed = u.passed
        /\ v.seqNoSend = IncSeqNr(u.seqNoSend) /\ v.seqNoRecv = u.seqNoRecv /\ v.sent = u.sent
    BY <2>1, <2>3, ViewTypes DEF Layer
  <2> HIDE DEF v, r
  <2>5. SameCore(v, r) /\ r.sent = v.sent
    BY <2>2, <2>4, TimerCore
  <2>6. /\ r.state = "OpenIdle" /\ r.connectionAddress = t.connectionAddress
        /\ r.connectedTsap = t.connectedTsap /\ r.seqNoSend = IncSeqNr(t.seqNoSend)
        /\ r.seqNoRecv = t.seqNoRecv /\ r.saved = t.saved /\ r.passed = <<>>
        /\ Says(r.sent[Tool], {})
    BY <2>1, <2>4, <2>5, RestFacts DEF SameCore, SameView, SameRest, AtRest
  <2>7. CASE t.connectedTsap = Tool
    BY <1>2, <2>6, <2>7, RestFacts DEF Settles, r
  <2>8. CASE t.connectedTsap # Tool
    BY <1>2, <2>6, <2>8 DEF Away, Straight, r
  <2> QED BY <2>7, <2>8
<1>3. CASE source = t.connectionAddress /\ ~(t.state = "OpenWait" /\ seq = t.seqNoSend)
  BY <1>3, ClosedAway, RestFacts DEF AckIndication
<1> QED BY <1>1, <1>2, <1>3

LEMMA RepeatArrives ==
  ASSUME NEW t, AtRest(t), t.state = "OpenWait", t.repCount < MaxRepCount
  PROVE  Away(t, A9(t)) \/ Repeats(t, A9(t))
<1>1. CASE t.connectedTsap = Tool
  <2>1. DataOf(t.seqNoSend, t.savedFrame) \in {DataOf(t.seqNoSend, t.savedFrame)} OBVIOUS
  <2> QED BY <1>1, <2>1, RestFacts, A9Core DEF Repeats
<1>2. CASE t.connectedTsap # Tool
  <2>1. DataOf(t.seqNoSend, t.savedFrame) \in {DataOf(t.seqNoSend, t.savedFrame)} OBVIOUS
  <2>2. SameCore(t, A9(t))
    BY <2>1, RestFacts, A9Core
  <2>3. Straight(t) => Says(A9(t).sent[Tool], {})
    <3>1. Straight(t) => t.connectionAddress # Tool
      BY <1>2 DEF Straight
    <3> QED BY <3>1, RestFacts, A9Core
  <2> QED BY <1>2, <2>2, <2>3, SameAway
<1> QED BY <1>1, <1>2

LEMMA NackArrives ==
  ASSUME NEW t, AtRest(t), NEW source \in Partners, NEW seq \in Seq4
  PROVE  LET r == NackIndication(t, source, seq)
         IN  Mute(t, r) \/ Away(t, r) \/ Repeats(t, r)
<1>1. CASE source # t.connectionAddress
  BY <1>1, StrangerMute DEF NackIndication
<1>2. CASE source = t.connectionAddress /\ seq # t.seqNoSend
  BY <1>2, ClosedAway, RestFacts DEF NackIndication
<1>3. CASE source = t.connectionAddress /\ seq = t.seqNoSend
  <2>1. CASE t.state = "OpenWait" /\ t.repCount < MaxRepCount
    <3>1. NackIndication(t, source, seq) = A9(t)
      BY <1>3, <2>1 DEF NackIndication
    <3> QED BY <2>1, <3>1, RepeatArrives
  <2>2. CASE ~(t.state = "OpenWait" /\ t.repCount < MaxRepCount)
    BY <1>3, <2>2, ClosedAway, RestFacts DEF NackIndication
  <2> QED BY <2>1, <2>2
<1> QED BY <1>1, <1>2, <1>3

LEMMA DisconnectArrives ==
  ASSUME NEW t, AtRest(t), NEW source \in Partners
  PROVE  LET r == DisconnectIndication(t, source) IN Mute(t, r) \/ Away(t, r)
BY ClosedAway, RestFacts DEF DisconnectIndication

LEMMA FrameArrives ==
  ASSUME NEW t, AtRest(t), NEW f \in Frame, f.type # "Individual", NEW answers \in BOOLEAN
  PROVE  Arrives(t, DataIndividualIndication(t, Tool, f.type, f.seq, f.apdu, answers), f)
<1>1. f.type \in FrameType \ {"Individual"} /\ f.seq \in Seq4 /\ f.apdu \in Apdu /\ Tool \in Partners
  BY RestFacts DEF Frame
<1> DEFINE r == DataIndividualIndication(t, Tool, f.type, f.seq, f.apdu, answers)
<1>2. CASE f.type = "Data"
  <2>1. r = DataIndication(t, Tool, f.seq, f.apdu, answers)
    BY <1>2 DEF DataIndividualIndication
  <2> HIDE DEF r
  <2> QED BY <1>1, <1>2, <2>1, DataArrives DEF Arrives, r
<1>3. CASE f.type = "Connect"
  <2>1. r = ConnectIndication(t, Tool)
    BY <1>3 DEF DataIndividualIndication
  <2> HIDE DEF r
  <2> QED BY <1>1, <1>3, <2>1, ConnectArrives DEF Arrives, r
<1>4. CASE f.type = "Disconnect"
  <2>1. r = DisconnectIndication(t, Tool)
    BY <1>4 DEF DataIndividualIndication
  <2> HIDE DEF r
  <2> QED BY <1>1, <1>4, <2>1, DisconnectArrives DEF Arrives, r
<1>5. CASE f.type = "Ack"
  <2>1. r = AckIndication(t, Tool, f.seq)
    BY <1>5 DEF DataIndividualIndication
  <2> HIDE DEF r
  <2> QED BY <1>1, <1>5, <2>1, AckArrives DEF Arrives, r
<1>6. CASE f.type = "Nack"
  <2>1. r = NackIndication(t, Tool, f.seq)
    BY <1>6 DEF DataIndividualIndication
  <2> HIDE DEF r
  <2> QED BY <1>1, <1>6, <2>1, NackArrives DEF Arrives, r
<1> QED BY <1>1, <1>2, <1>3, <1>4, <1>5, <1>6 DEF FrameType

LEMMA OtherPasses ==
  ASSUME NEW t, AtRest(t), NEW type \in FrameType
  PROVE  Passes(t, DataIndividualIndication(t, Other, type, 0, NoApdu, FALSE))
<1>1. 0 \in Seq4 /\ NoApdu \in Apdu /\ Other \in Partners /\ Other # Tool
  BY RestFacts, ApduType DEF Seq4
<1> DEFINE r == DataIndividualIndication(t, Other, type, 0, NoApdu, FALSE)
<1>2. CASE type = "Data"
  <2>1. r = DataIndication(t, Other, 0, NoApdu, FALSE)
    BY <1>2 DEF DataIndividualIndication
  <2> HIDE DEF r
  <2>2. FALSE \in BOOLEAN OBVIOUS
  <2> QED BY <1>1, <2>1, <2>2, DataArrives DEF Passes, r
<1>3. CASE type = "Connect"
  <2>1. r = ConnectIndication(t, Other)
    BY <1>3 DEF DataIndividualIndication
  <2> HIDE DEF r
  <2> QED BY <1>1, <2>1, ConnectArrives DEF Passes, r
<1>4. CASE type = "Disconnect"
  <2>1. r = DisconnectIndication(t, Other)
    BY <1>4 DEF DataIndividualIndication
  <2> HIDE DEF r
  <2> QED BY <1>1, <2>1, DisconnectArrives DEF Passes, r
<1>5. CASE type = "Ack"
  <2>1. r = AckIndication(t, Other, 0)
    BY <1>5 DEF DataIndividualIndication
  <2> HIDE DEF r
  <2> QED BY <1>1, <2>1, AckArrives DEF Passes, r
<1>6. CASE type = "Nack"
  <2>1. r = NackIndication(t, Other, 0)
    BY <1>6 DEF DataIndividualIndication
  <2> HIDE DEF r
  <2> QED BY <1>1, <2>1, NackArrives DEF Passes, r
<1>7. CASE type = "Individual"
  BY <1>7, RestFacts DEF DataIndividualIndication, Indicate, Passes
<1> QED BY <1>2, <1>3, <1>4, <1>5, <1>6, <1>7 DEF FrameType

LEMMA ConfirmPasses ==
  ASSUME NEW t, AtRest(t), NEW status \in BOOLEAN
  PROVE  Passes(t, ConnectConfirm(t, status))
<1> DEFINE r == ConnectConfirm(t, status)
<1>1. CASE t.state # "Connecting"
  BY <1>1, RestFacts DEF ConnectConfirm, Passes
<1>2. CASE t.state = "Connecting" /\ status
  <2> DEFINE u == [t EXCEPT !.state = "OpenIdle"]
  <2>1. u \in Layer /\ u.state = "OpenIdle" /\ SameRest(t, u)
    BY StateCore, RestFacts DEF States
  <2>2. r = [u EXCEPT !.connectedTsap = NoAddress]
    BY <1>2 DEF ConnectConfirm, A13
  <2> HIDE DEF u, r
  <2>3. /\ r.state = u.state /\ r.connectionAddress = u.connectionAddress
        /\ r.connectedTsap = NoAddress /\ r.saved = u.saved /\ r.passed = u.passed
        /\ r.sent = u.sent
    BY <2>1, <2>2 DEF Layer
  <2>4. t.connectedTsap # Tool
    BY <1>2, RestFacts DEF Open
  <2> QED BY <1>2, <2>1, <2>3, <2>4, RestFacts DEF Passes, Away, Straight, SameRest, r
<1>3. CASE t.state = "Connecting" /\ ~status
  BY <1>3, ClosedAway DEF ConnectConfirm, Passes
<1> QED BY <1>1, <1>2, <1>3

LEMMA OlderMute ==
  ASSUME NEW t, AtRest(t)
  PROVE  Mute(t, Older(t))
<1>1. t \in Layer /\ Older(t) \in Layer /\ SameView(t, Older(t)) /\ Older(t).sent = t.sent
      /\ Older(t).passed = t.passed
  BY OlderView, RestFacts
<1>2. Older(t) = [t EXCEPT !.connTimer = Age(t.connTimer, ConnectionTimeout),
                           !.ackTimer = Age(t.ackTimer, AckTimeout)]
  BY DEF Older
<1>3. /\ Older(t).seqNoSend = t.seqNoSend /\ Older(t).seqNoRecv = t.seqNoRecv
      /\ Older(t).savedFrame = t.savedFrame
  BY <1>1, <1>2 DEF Layer
<1> QED BY <1>1, <1>3, RestFacts DEF Mute, SameCore

(* The saved request once more, after the timeouts.                        *)
LEMMA SavedPasses ==
  ASSUME NEW t, AtRest(t), NEW u, Sound(u),
         u = t \/ Away(t, u) \/ Repeats(t, u),
         u.saved # NoApdu,
         ~Open(u) \/ u = t \/ (u.state = "OpenWait" /\ SameCore(t, u))
  PROVE  Passes(t, DataConnectedRequest([u EXCEPT !.saved = NoApdu], u.saved))
<1> DEFINE v == [u EXCEPT !.saved = NoApdu]
           r == DataConnectedRequest(v, u.saved)
<1>0. Says(t.sent[Tool], {})
  BY RestFacts
<1>1. /\ v \in Layer /\ v.state = u.state /\ v.saved = NoApdu
      /\ v.connectionAddress = u.connectionAddress /\ v.connectedTsap = u.connectedTsap
      /\ v.seqNoSend = u.seqNoSend /\ v.seqNoRecv = u.seqNoRecv
      /\ v.savedFrame = u.savedFrame /\ v.passed = u.passed /\ v.sent = u.sent
  BY ApduType DEF Sound, Layer
<1>2. u.saved \in Apdu /\ u \in Layer /\ u.state \in {"Closed", "OpenIdle", "OpenWait"}
  BY ViewTypes DEF Sound, States
<1> HIDE DEF v, r
<1>3. CASE u.state = "Closed"
  <2>1. r = v
    BY <1>1, <1>3 DEF DataConnectedRequest, r
  <2>2. r.connectedTsap # Tool
    BY <1>1, <1>3, <2>1, RestFacts DEF Sound, Agrees, Open
  <2>3. CASE u = t
    <3>1. /\ r.passed = <<>> /\ Says(r.sent[Tool], {}) /\ r.state = "Closed"
          /\ r.saved = NoApdu
      BY <1>0, <1>1, <1>3, <2>1, <2>3 DEF AtRest
    <3> QED BY <2>2, <3>1 DEF Passes, Away, Straight, r, v
  <2>4. CASE Away(t, u)
    BY <1>1, <1>3, <2>1, <2>2, <2>4 DEF Passes, Away, Straight, r, v
  <2>5. CASE Repeats(t, u)
    BY <1>3, <2>5 DEF Repeats, SameCore, SameView
  <2> QED BY <2>3, <2>4, <2>5
<1>4. CASE u.state = "OpenWait"
  <2>1. r = [v EXCEPT !.saved = u.saved]
    BY <1>1, <1>4 DEF DataConnectedRequest, A11, r
  <2>2. SameCore(u, r) /\ r.sent = u.sent
    BY <1>1, <1>2, <2>1 DEF Layer, SameCore, SameView
  <2>3. CASE u = t
    BY <1>0, <2>2, <2>3 DEF Passes, Mute, r, v
  <2>4. CASE Away(t, u)
    BY <2>2, <2>4 DEF Passes, Away, Straight, SameCore, SameView, r, v
  <2>5. CASE Repeats(t, u)
    BY <2>2, <2>5 DEF Passes, Repeats, SameCore, SameView, r, v
  <2> QED BY <2>3, <2>4, <2>5
<1>5. CASE u.state = "OpenIdle"
  <2> DEFINE w == [v EXCEPT !.state = "OpenWait"]
  <2>1. u = t
    BY <1>5 DEF Open
  <2>2. w \in Layer /\ w.state = "OpenWait" /\ SameRest(v, w)
    BY <1>1, StateCore DEF States
  <2>3. r = A7(w, u.saved)
    BY <1>1, <1>5 DEF DataConnectedRequest, r
  <2> HIDE DEF w
  <2>4. ASSUME NEW S, t.connectionAddress = Tool => DataOf(t.seqNoSend, t.saved) \in S
        PROVE  /\ r \in Layer /\ SameView(w, r) /\ r.savedFrame = t.saved
               /\ r.seqNoSend = t.seqNoSend /\ r.seqNoRecv = t.seqNoRecv
               /\ r.passed = <<>> /\ Says(r.sent[Tool], S)
    <3>1. /\ w.seqNoSend = t.seqNoSend /\ w.connectionAddress = t.connectionAddress
          /\ w.seqNoRecv = t.seqNoRecv /\ w.passed = <<>> /\ w.sent = t.sent
      BY <1>1, <2>1, <2>2 DEF SameRest, AtRest
    <3>2. Says(w.sent[Tool], S) /\ (w.connectionAddress = Tool => DataOf(w.seqNoSend, u.saved) \in S)
      BY <2>1, <2>4, <3>1, RestFacts
    <3> QED BY <1>2, <2>1, <2>2, <2>3, <3>1, <3>2, A7Core
  <2>5. CASE t.connectedTsap = Tool
    <3>1. DataOf(t.seqNoSend, t.saved) \in {DataOf(t.seqNoSend, t.saved)} OBVIOUS
    <3> QED BY <1>1, <1>5, <2>1, <2>2, <2>4, <2>5, <3>1 DEF Passes, SendsSaved, SameView, SameRest, r, v
  <2>6. CASE t.connectedTsap # Tool
    <3>1. DataOf(t.seqNoSend, t.saved) \in {DataOf(t.seqNoSend, t.saved)} OBVIOUS
    <3>2. SameView(w, r) /\ r.passed = <<>>
      BY <2>4, <3>1
    <3>3. Straight(t) => t.connectionAddress # Tool
      BY <1>5, <2>1, <2>6 DEF Straight
    <3>4. Straight(t) => Says(r.sent[Tool], {})
      BY <2>4, <3>3
    <3>5. /\ r.state = "OpenWait" /\ r.saved = NoApdu /\ r.connectedTsap = t.connectedTsap
          /\ r.connectionAddress = t.connectionAddress
      BY <1>1, <2>1, <2>2, <3>2 DEF SameView, SameRest
    <3>6. t.saved # NoApdu
      BY <2>1
    <3>7. Straight(t) => Straight(r)
      BY <3>3, <3>5 DEF Straight
    <3>8. Away(t, r)
      BY <2>6, <3>4, <3>5, <3>6, <3>7 DEF Away
    <3> QED BY <3>8 DEF Passes, r, v
  <2> QED BY <2>5, <2>6
<1> QED BY <1>2, <1>3, <1>4, <1>5, RestFacts DEF Sound

LEMMA LoopPasses ==
  ASSUME NEW t, AtRest(t)
  PROVE  Passes(t, LayerLoop(t))
<1> DEFINE t1 == IF t.connTimer > ConnectionTimeout THEN ConnectionTimeoutIndication(t) ELSE t
           t2 == IF t1.ackTimer > AckTimeout THEN AckTimeoutIndication(t1) ELSE t1
           r == LayerLoop(t)
<1>1. t1 = t \/ (t1.state = "Closed" /\ Away(t, t1) /\ Sound(t1))
  <2>1. Away(t, A6(Close(t))) /\ Sound(A6(Close(t))) /\ A6(Close(t)).state = "Closed"
    <3>1. A6(Close(t)) \in {A5(Close(t)), A6(Close(t))} OBVIOUS
    <3> QED BY <3>1, ClosedAway, ClosedBySound DEF AtRest, Sound
  <2> QED BY <2>1 DEF ConnectionTimeoutIndication
<1>2. r = IF t2.saved = NoApdu THEN t2 ELSE DataConnectedRequest([t2 EXCEPT !.saved = NoApdu], t2.saved)
  BY DEF LayerLoop
<1> HIDE DEF t1, r
<1>3. /\ Sound(t2) /\ (t2 = t \/ Away(t, t2) \/ Repeats(t, t2))
      /\ ~Open(t2) \/ t2 = t \/ (t2.state = "OpenWait" /\ SameCore(t, t2))
  <2>1. CASE t1.state # "OpenWait"
    <3>1. t2 = t1
      BY <2>1 DEF AckTimeoutIndication
    <3> QED BY <1>1, <3>1 DEF AtRest, Open
  <2>2. CASE t1.state = "OpenWait"
    <3>1. t1 = t BY <1>1, <2>2
    <3>2. CASE t.ackTimer > AckTimeout /\ t.repCount < MaxRepCount
      <4>1. ~(t.repCount >= MaxRepCount)
        BY <3>2, ViewTypes, RestFacts
      <4>2. t2 = A9(t)
        BY <2>2, <3>1, <3>2, <4>1 DEF AckTimeoutIndication
      <4>3. Sound(A9(t))
        BY <3>2, RepeatStep DEF AtRest, Step
      <4>4. SameCore(t, A9(t))
        <5>1. DataOf(t.seqNoSend, t.savedFrame) \in {DataOf(t.seqNoSend, t.savedFrame)} OBVIOUS
        <5> QED BY <3>2, <5>1, A9Core, RestFacts
      <4>5. A9(t).state = "OpenWait"
        BY <2>2, <3>1, <4>4 DEF SameCore, SameView
      <4>6. Away(t, A9(t)) \/ Repeats(t, A9(t))
        BY <2>2, <3>1, <3>2, RepeatArrives
      <4> QED BY <4>2, <4>3, <4>4, <4>5, <4>6
    <3>3. CASE t.ackTimer > AckTimeout /\ ~(t.repCount < MaxRepCount)
      <4>1. t.repCount >= MaxRepCount
        BY <3>3, ViewTypes, RestFacts
      <4>2. t2 = A6(Close(t))
        BY <2>2, <3>1, <3>3, <4>1 DEF AckTimeoutIndication
      <4>3. A6(Close(t)) \in {A5(Close(t)), A6(Close(t))} OBVIOUS
      <4>4. Away(t, t2) /\ Sound(t2) /\ t2.state = "Closed"
        BY <4>2, <4>3, ClosedAway, ClosedBySound DEF AtRest, Sound
      <4> QED BY <4>4 DEF Open
    <3>4. CASE ~(t.ackTimer > AckTimeout)
      BY <3>1, <3>4 DEF AtRest
    <3> QED BY <3>2, <3>3, <3>4
  <2> QED BY <2>1, <2>2
<1> HIDE DEF t2
<1>4. CASE t2.saved = NoApdu
  <2>1. r = t2 BY <1>2, <1>4
  <2> QED BY <1>3, <2>1, RestFacts DEF Passes, r
<1>5. CASE t2.saved # NoApdu
  <2>1. Passes(t, DataConnectedRequest([t2 EXCEPT !.saved = NoApdu], t2.saved))
    BY <1>3, <1>5, SavedPasses
  <2> QED BY <1>2, <1>5, <2>1 DEF r
<1> QED BY <1>4, <1>5

(* The device connects: to the tool, which makes the connection of the     *)
(* tool a stale one, or elsewhere.                                         *)
Leaves(t, r, p) ==
  /\ r.connectedTsap # Tool /\ t.connectedTsap # Tool
  /\ p # Tool /\ Straight(t) =>
       Straight(r) /\ Says(r.sent[Tool], {}) /\ r.saved = t.saved /\ r.state # "OpenWait"

LEMMA ConnectLeaves ==
  ASSUME NEW t, AtRest(t), t.state = "Closed", t.saved = NoApdu,
         NEW p \in Partners, NEW con \in {"later", "sent", "failed"}
  PROVE  LET r == ConnectRequest(t, p, con)
         IN  /\ r \in Layer /\ r.saved = NoApdu /\ r.state # "OpenWait"
             /\ r.connectedTsap \in {NotConnected, NoAddress}
             /\ Says(r.sent[Tool], {}) /\ (r.connectionAddress = p \/ r.state = "Closed")
<1> DEFINE start == [t EXCEPT !.state = "Connecting"]
           sent == Send(start, p, "Connect", 0, NoApdu)
           asked == [sent EXCEPT !.connectionAddress = p]
           told == IF con = "later" THEN asked ELSE ConnectConfirm(asked, con = "sent")
           numbered == [told EXCEPT !.seqNoSend = 0, !.seqNoRecv = 0]
           r == ConnectRequest(t, p, con)
<1>1. start \in Layer /\ start.state = "Connecting" /\ SameRest(t, start)
  BY StateCore, RestFacts DEF States
<1>2. r = EnableConnectionTimeout(numbered)
  BY DEF ConnectRequest, A12
<1>3. t.connectedTsap = NotConnected
  BY DEF AtRest, Sound, Agrees, Open
<1> HIDE DEF start, r
<1>4. Says(start.sent[Tool], {})
  BY <1>1, RestFacts DEF SameRest
<1>5. sent \in Layer /\ SameCore(start, sent) /\ Says(sent.sent[Tool], {})
  <2>1. p \in PartnerOrNone /\ "Connect" \in FrameType /\ 0 \in Seq4 /\ NoApdu \in Apdu
    BY ApduType DEF PartnerOrNone, FrameType, Seq4
  <2> QED BY <1>1, <1>4, <2>1, SendCore
<1> HIDE DEF sent
<1>6. /\ asked \in Layer /\ asked.state = "Connecting" /\ asked.saved = NoApdu
      /\ asked.connectedTsap = NotConnected /\ asked.connectionAddress = p
      /\ Says(asked.sent[Tool], {})
  BY <1>1, <1>3, <1>5 DEF Layer, SameCore, SameView, SameRest
<1> HIDE DEF asked
<1>7. /\ told \in Layer /\ told.saved = NoApdu /\ told.state # "OpenWait"
      /\ told.connectedTsap \in {NotConnected, NoAddress}
      /\ Says(told.sent[Tool], {}) /\ (told.connectionAddress = p \/ told.state = "Closed")
  <2>1. CASE con = "later"
    BY <1>6, <2>1
  <2>2. CASE con = "sent"
    <3> DEFINE u == [asked EXCEPT !.state = "OpenIdle"]
    <3>1. u \in Layer /\ u.state = "OpenIdle" /\ SameRest(asked, u)
      BY <1>6, StateCore DEF States
    <3>2. told = [u EXCEPT !.connectedTsap = NoAddress]
      BY <1>6, <2>2 DEF ConnectConfirm, A13
    <3> HIDE DEF u, told
    <3>3. /\ told \in Layer /\ told.state = u.state /\ told.saved = u.saved
          /\ told.connectionAddress = u.connectionAddress
          /\ told.connectedTsap = NoAddress /\ told.sent = u.sent
      BY <3>1, <3>2 DEF Layer
    <3> QED BY <1>6, <3>1, <3>3 DEF SameRest
  <2>3. CASE con = "failed"
    <3>1. told = A5(Close(asked))
      BY <1>6, <2>3 DEF ConnectConfirm
    <3> QED BY <1>6, <3>1, ClosedCore
  <2> QED BY <2>1, <2>2, <2>3
<1> HIDE DEF told
<1>8. /\ numbered \in Layer /\ numbered.state = told.state /\ numbered.saved = told.saved
      /\ numbered.connectionAddress = told.connectionAddress
      /\ numbered.connectedTsap = told.connectedTsap /\ numbered.sent = told.sent
  BY <1>7, ViewTypes DEF Layer
<1> HIDE DEF numbered
<1>9. r \in Layer /\ SameCore(numbered, r) /\ r.sent = numbered.sent
  BY <1>2, <1>8, TimerCore
<1> QED BY <1>7, <1>8, <1>9 DEF SameCore, SameView, r

LEMMA RestartLeaves ==
  ASSUME NEW t, AtRest(t), t.state = "Closed" => t.saved = NoApdu,
         NEW p \in Partners, NEW con \in {"later", "sent", "failed"}
  PROVE  LET r == RestartRequest(t, p, con) IN Mute(t, r) \/ Leaves(t, r, p)
<1> DEFINE asked == ConnectRequest(t, p, con)
           r == RestartRequest(t, p, con)
<1>1. CASE t.connectedTsap # NotConnected
  BY <1>1, RestFacts DEF RestartRequest
<1>2. CASE t.connectedTsap = NotConnected
  <2>0. t.connectedTsap # Tool
    BY <1>2, RestFacts
  <2>1. t.state = "Closed" \/ (t.state = "Connecting" /\ t.saved = NoApdu)
    BY <1>2, ViewTypes DEF AtRest, Sound, Agrees, Open, States
  <2>2. /\ asked \in Layer /\ asked.saved = t.saved /\ asked.state # "OpenWait"
        /\ asked.connectedTsap \in {NotConnected, NoAddress}
        /\ Says(asked.sent[Tool], {}) /\ (asked.connectionAddress = p \/ asked.state = "Closed")
    <3>1. CASE t.state = "Closed"
      BY <3>1, ConnectLeaves
    <3>2. CASE t.state = "Connecting"
      <4>1. asked = A6(Close(t))
        BY <3>2 DEF ConnectRequest
      <4>2. A6(Close(t)) \in {A5(Close(t)), A6(Close(t))} OBVIOUS
      <4> QED BY <2>1, <3>2, <4>1, <4>2, ClosedCore, RestFacts
    <3> QED BY <2>1, <3>1, <3>2
  <2>3. NoAddress \notin Partners /\ NotConnected \notin Partners
    BY AddressesDiffer DEF PartnerOrNone
  <2>4. r \in {asked, Send(asked, p, "Individual", 0, NoApdu)}
    BY <1>2, <2>2, <2>3 DEF RestartRequest, IndividualSend
  <2> HIDE DEF asked, r
  <2>5. /\ r.connectedTsap = asked.connectedTsap /\ r.saved = asked.saved
        /\ r.state = asked.state /\ r.connectionAddress = asked.connectionAddress
        /\ Says(r.sent[Tool], {})
    <3>1. CASE r = asked
      BY <2>2, <3>1
    <3>2. CASE r = Send(asked, p, "Individual", 0, NoApdu)
      <4>1. p \in PartnerOrNone /\ "Individual" \in FrameType /\ 0 \in Seq4 /\ NoApdu \in Apdu
        BY ApduType DEF PartnerOrNone, FrameType, Seq4
      <4> QED BY <2>2, <3>2, <4>1, SendCore DEF SameCore, SameView
    <3> QED BY <2>4, <3>1, <3>2
  <2> QED BY <2>0, <2>2, <2>3, <2>5, RestFacts DEF Leaves, Straight, r
<1> QED BY <1>1, <1>2

-----------------------------------------------------------------------------
(* The lines.  One loses frames at its head and gets them at its end.      *)

DataAt(line) == {i \in DOMAIN line : line[i].type = "Data"}
AckAt(line) == {i \in DOMAIN line : line[i].type = "Ack"}
ConnectAt(line) == {i \in DOMAIN line : line[i].type = "Connect"}
Number(f) == f.apdu.n

Shifted(line, new, k) ==
  \A i \in DOMAIN new :
    i \in Nat \ {0} /\ i + k \in DOMAIN line /\ new[i] = line[i + k]

Added(line, new, f) ==
  \A i \in DOMAIN new :
    /\ i \in Nat \ {0}
    /\ \/ i \in DOMAIN line /\ i < Len(line) + 1 /\ new[i] = line[i]
       \/ i = Len(line) + 1 /\ new[i] = f

AddedAll(line, new, frames) ==
  \A i \in DOMAIN new :
    /\ i \in Nat \ {0}
    /\ \/ i \in DOMAIN line /\ i < Len(line) + 1 /\ new[i] = line[i]
       \/ i >= Len(line) + 1 /\ \E k \in DOMAIN frames : new[i] = frames[k]

LEMMA LineDomain ==
  ASSUME NEW line \in Seq(Frame)
  PROVE  /\ Len(line) \in Nat /\ DOMAIN line = 1 .. Len(line)
         /\ \A i \in DOMAIN line : i \in Nat \ {0} /\ i < Len(line) + 1 /\ line[i] \in Frame
         /\ line # <<>> => 1 \in DOMAIN line /\ Head(line) = line[1]
<1> HIDE DEF Frame
<1>1. Len(line) \in Nat /\ DOMAIN line = 1 .. Len(line) /\ \A i \in 1 .. Len(line) : line[i] \in Frame
  OBVIOUS
<1>2. line # <<>> => Len(line) # 0 /\ Head(line) = line[1]
  OBVIOUS
<1> QED BY <1>1, <1>2

LEMMA TailShifts ==
  ASSUME NEW line \in Seq(Frame)
  PROVE  Shifted(line, line, 0) /\ (line # <<>> => Shifted(line, Tail(line), 1))
<1>1. Shifted(line, line, 0)
  BY LineDomain DEF Shifted
<1>2. ASSUME line # <<>> PROVE Shifted(line, Tail(line), 1)
  <2>1. /\ Tail(line) \in Seq(Frame) /\ Len(Tail(line)) = Len(line) - 1
        /\ \A i \in 1 .. Len(Tail(line)) : Tail(line)[i] = line[i + 1]
    <3> HIDE DEF Frame
    <3> QED BY <1>2, HeadTailProperties
  <2>2. /\ Len(line) \in Nat /\ DOMAIN line = 1 .. Len(line)
        /\ DOMAIN Tail(line) = 1 .. Len(Tail(line))
    BY <2>1, LineDomain
  <2> QED BY <2>1, <2>2 DEF Shifted
<1> QED BY <1>1, <1>2

LEMMA FillAdds ==
  ASSUME NEW line \in Seq(Frame), NEW frames \in Seq(Frame)
  PROVE  AddedAll(line, Fill(line, frames), frames)
<1> DEFINE all == line \o frames
           new == Fill(line, frames)
<1>1. /\ Len(line) \in Nat /\ Len(frames) \in Nat
      /\ DOMAIN line = 1 .. Len(line) /\ DOMAIN frames = 1 .. Len(frames)
  BY LineDomain
<1>2. /\ Len(all) = Len(line) + Len(frames)
      /\ \A i \in 1 .. Len(all) : all[i] = IF i <= Len(line) THEN line[i] ELSE frames[i - Len(line)]
  <2> HIDE DEF Frame
  <2> QED BY ConcatProperties
<1>3. all \in Seq(Frame)
  <2> HIDE DEF Frame
  <2> QED BY ConcatProperties
<1>4. new = IF Len(all) <= MaxLine THEN all ELSE SubSeq(all, 1, MaxLine)
  BY DEF Fill
<1> HIDE DEF all, new
<1>5. \A i \in DOMAIN new : i \in 1 .. Len(all) /\ new[i] = all[i]
  <2>1. CASE Len(all) <= MaxLine
    BY <1>3, <1>4, <2>1, LineDomain
  <2>2. CASE ~(Len(all) <= MaxLine)
    <3>1. new = SubSeq(all, 1, MaxLine) /\ MaxLine \in Nat
      BY <1>4, <2>2, LineAssumption
    <3>2. DOMAIN new = 1 .. MaxLine /\ \A i \in 1 .. MaxLine : new[i] = all[i]
      BY <3>1
    <3>3. MaxLine < Len(all)
      BY <1>1, <1>2, <2>2, <3>1
    <3> QED BY <1>1, <1>2, <3>1, <3>2, <3>3
  <2> QED BY <2>1, <2>2
<1>6. ASSUME NEW i \in DOMAIN new
      PROVE  /\ i \in Nat \ {0}
             /\ \/ i \in DOMAIN line /\ i < Len(line) + 1 /\ new[i] = line[i]
                \/ i >= Len(line) + 1 /\ \E k \in DOMAIN frames : new[i] = frames[k]
  <2>1. i \in 1 .. Len(line) + Len(frames) /\ new[i] = all[i]
    BY <1>2, <1>5
  <2>2. CASE i <= Len(line)
    BY <1>1, <1>2, <2>1, <2>2
  <2>3. CASE ~(i <= Len(line))
    <3>1. i - Len(line) \in DOMAIN frames /\ new[i] = frames[i - Len(line)] /\ i >= Len(line) + 1
      BY <1>1, <1>2, <2>1, <2>3
    <3> QED BY <2>1, <3>1, <1>1
  <2> QED BY <2>2, <2>3
<1> QED BY <1>6 DEF AddedAll, new

LEMMA FillAddsOne ==
  ASSUME NEW line \in Seq(Frame), NEW f \in Frame
  PROVE  Added(line, Fill(line, <<f>>), f)
<1> DEFINE new == Fill(line, <<f>>)
           all == line \o <<f>>
<1>1. <<f>> \in Seq(Frame)
  BY OneFrame
<1>2. AddedAll(line, new, <<f>>)
  BY <1>1, FillAdds
<1>3. \A i \in DOMAIN new : i <= Len(line) + 1
  <2>1. all \in Seq(Frame) /\ Len(all) = Len(line) + 1
    <3> HIDE DEF Frame
    <3> QED BY <1>1, ConcatProperties
  <2>2. new = IF Len(all) <= MaxLine THEN all ELSE SubSeq(all, 1, MaxLine)
    BY DEF Fill
  <2> HIDE DEF all, new
  <2>3. CASE Len(all) <= MaxLine
    BY <2>1, <2>2, <2>3, LineDomain
  <2>4. CASE ~(Len(all) <= MaxLine)
    <3>1. DOMAIN new = 1 .. MaxLine /\ MaxLine \in Nat
      BY <2>2, <2>4, LineAssumption
    <3>2. Len(line) \in Nat
      BY LineDomain
    <3> QED BY <2>1, <2>4, <3>1, <3>2
  <2> QED BY <2>3, <2>4
<1> HIDE DEF new, all
<1>4. \A k \in DOMAIN <<f>> : <<f>>[k] = f
  OBVIOUS
<1>5. Len(line) \in Nat
  BY LineDomain
<1>6. ASSUME NEW i \in DOMAIN new
      PROVE  /\ i \in Nat \ {0}
             /\ \/ i \in DOMAIN line /\ i < Len(line) + 1 /\ new[i] = line[i]
                \/ i = Len(line) + 1 /\ new[i] = f
  <2>1. /\ i \in Nat \ {0} /\ i <= Len(line) + 1
        /\ \/ i \in DOMAIN line /\ i < Len(line) + 1 /\ new[i] = line[i]
           \/ i >= Len(line) + 1 /\ \E k \in DOMAIN <<f>> : new[i] = <<f>>[k]
    BY <1>2, <1>3 DEF AddedAll
  <2> QED BY <1>4, <1>5, <2>1
<1> QED BY <1>6 DEF Added, new

-----------------------------------------------------------------------------
(* The requests on their way.  Their numbers do not fall, none is below    *)
(* the last one taken, and one with its number is a repetition, which has  *)
(* the sequence number before the expected one.  Behind a T_Connect there  *)
(* are only requests made since.                                           *)
OrderOf(line, last, requests, waits, send, ours, recv) ==
  /\ \A i \in DOMAIN line : line[i].type # "Individual"
  /\ \A i \in DataAt(line) :
       /\ line[i].apdu = Request(Number(line[i]))
       /\ Number(line[i]) \in 1 .. requests /\ last <= Number(line[i])
       /\ waits /\ Number(line[i]) = requests => line[i].seq = send
       /\ ours /\ Number(line[i]) = last => line[i].seq = Previous(recv)
  /\ \A i, j \in DataAt(line) : i < j =>
       /\ Number(line[i]) <= Number(line[j])
       /\ Number(line[i]) = Number(line[j]) => line[i].seq = line[j].seq
  /\ \A c \in ConnectAt(line), j \in DataAt(line) : c < j => Number(line[j]) > last
  /\ \A c \in ConnectAt(line), i, j \in DataAt(line) :
       i < c /\ c < j => Number(line[i]) < Number(line[j])
  /\ \A c \in ConnectAt(line) : waits => requests > last
  /\ \A c \in ConnectAt(line), i \in DataAt(line) :
       waits /\ i < c => Number(line[i]) < requests
  /\ ours /\ waits /\ last = requests => send = Previous(recv)

LEMMA OrderShifts ==
  ASSUME NEW line, NEW new, NEW k \in Nat, NEW last, NEW requests, NEW waits, NEW send,
         NEW ours, NEW recv, OrderOf(line, last, requests, waits, send, ours, recv),
         Shifted(line, new, k)
  PROVE  OrderOf(new, last, requests, waits, send, ours, recv)
<1> HIDE DEF Number
<1>1. /\ \A i \in DataAt(new) : i \in Nat /\ i + k \in DataAt(line) /\ new[i] = line[i + k]
      /\ \A i \in ConnectAt(new) : i \in Nat /\ i + k \in ConnectAt(line)
      /\ \A i \in DOMAIN new : i \in Nat /\ i + k \in DOMAIN line /\ new[i] = line[i + k]
  BY DEF Shifted, DataAt, ConnectAt
<1>2. \A i, j \in Nat : i < j => i + k < j + k
  OBVIOUS
<1>3. \A i \in DOMAIN new : new[i].type # "Individual"
  BY <1>1 DEF OrderOf
<1>4. \A i \in DataAt(new) :
       /\ new[i].apdu = Request(Number(new[i]))
       /\ Number(new[i]) \in 1 .. requests /\ last <= Number(new[i])
       /\ waits /\ Number(new[i]) = requests => new[i].seq = send
       /\ ours /\ Number(new[i]) = last => new[i].seq = Previous(recv)
  BY <1>1 DEF OrderOf
<1>5. \A i, j \in DataAt(new) : i < j =>
       /\ Number(new[i]) <= Number(new[j])
       /\ Number(new[i]) = Number(new[j]) => new[i].seq = new[j].seq
  BY <1>1, <1>2 DEF OrderOf
<1>6. \A c \in ConnectAt(new), j \in DataAt(new) : c < j => Number(new[j]) > last
  BY <1>1, <1>2 DEF OrderOf
<1>7. \A c \in ConnectAt(new), i, j \in DataAt(new) :
       i < c /\ c < j => Number(new[i]) < Number(new[j])
  BY <1>1, <1>2 DEF OrderOf
<1>8. \A c \in ConnectAt(new) : waits => requests > last
  BY <1>1 DEF OrderOf
<1>9. \A c \in ConnectAt(new), i \in DataAt(new) :
       waits /\ i < c => Number(new[i]) < requests
  BY <1>1, <1>2 DEF OrderOf
<1>10. ours /\ waits /\ last = requests => send = Previous(recv)
  BY DEF OrderOf
<1> QED BY <1>3, <1>4, <1>5, <1>6, <1>7, <1>8, <1>9, <1>10 DEF OrderOf

(* A frame at the end.                                                     *)
LEMMA AddedAt ==
  ASSUME NEW line \in Seq(Frame), NEW new, NEW f, Added(line, new, f)
  PROVE  /\ \A i \in DataAt(new) :
              i \in Nat /\ \/ i \in DataAt(line) /\ new[i] = line[i] /\ i < Len(line) + 1
                           \/ i = Len(line) + 1 /\ new[i] = f /\ f.type = "Data"
         /\ \A i \in ConnectAt(new) :
              i \in Nat /\ \/ i \in ConnectAt(line) /\ new[i] = line[i] /\ i < Len(line) + 1
                           \/ i = Len(line) + 1 /\ new[i] = f /\ f.type = "Connect"
         /\ \A i \in AckAt(new) :
              i \in Nat /\ \/ i \in AckAt(line) /\ new[i] = line[i] /\ i < Len(line) + 1
                           \/ i = Len(line) + 1 /\ new[i] = f /\ f.type = "Ack"
         /\ \A i \in DOMAIN new :
              i \in Nat /\ ((i \in DOMAIN line /\ new[i] = line[i]) \/ new[i] = f)
BY DEF Added, DataAt, ConnectAt, AckAt

LEMMA OrderAddsControl ==
  ASSUME NEW line \in Seq(Frame), NEW new, NEW f \in Frame, Added(line, new, f),
         f.type \in {"Disconnect", "Ack", "Nack"},
         NEW last, NEW requests, NEW waits, NEW send, NEW ours, NEW recv,
         OrderOf(line, last, requests, waits, send, ours, recv)
  PROVE  OrderOf(new, last, requests, waits, send, ours, recv)
<1>1. /\ \A i \in DataAt(new) : i \in DataAt(line) /\ new[i] = line[i]
      /\ \A i \in ConnectAt(new) : i \in ConnectAt(line)
      /\ \A i \in DOMAIN new : (i \in DOMAIN line /\ new[i] = line[i]) \/ new[i] = f
  BY AddedAt
<1> HIDE DEF Frame, Number
<1>2. \A i \in DOMAIN new : new[i].type # "Individual"
  BY <1>1 DEF OrderOf
<1>3. \A i \in DataAt(new) :
       /\ new[i].apdu = Request(Number(new[i]))
       /\ Number(new[i]) \in 1 .. requests /\ last <= Number(new[i])
       /\ waits /\ Number(new[i]) = requests => new[i].seq = send
       /\ ours /\ Number(new[i]) = last => new[i].seq = Previous(recv)
  BY <1>1 DEF OrderOf
<1>4. \A i, j \in DataAt(new) : i < j =>
       /\ Number(new[i]) <= Number(new[j])
       /\ Number(new[i]) = Number(new[j]) => new[i].seq = new[j].seq
  BY <1>1 DEF OrderOf
<1>5. /\ \A c \in ConnectAt(new), j \in DataAt(new) : c < j => Number(new[j]) > last
      /\ \A c \in ConnectAt(new), i, j \in DataAt(new) :
           i < c /\ c < j => Number(new[i]) < Number(new[j])
  BY <1>1 DEF OrderOf
<1>6. /\ \A c \in ConnectAt(new) : waits => requests > last
      /\ \A c \in ConnectAt(new), i \in DataAt(new) :
           waits /\ i < c => Number(new[i]) < requests
      /\ ours /\ waits /\ last = requests => send = Previous(recv)
  BY <1>1 DEF OrderOf
<1> QED BY <1>2, <1>3, <1>4, <1>5, <1>6 DEF OrderOf

LEMMA OrderAddsConnect ==
  ASSUME NEW line \in Seq(Frame), NEW new, NEW f \in Frame, Added(line, new, f),
         f.type = "Connect", NEW last, NEW requests, NEW send, NEW ours, NEW recv,
         OrderOf(line, last, requests, FALSE, send, ours, recv)
  PROVE  OrderOf(new, last, requests, FALSE, send, ours, recv)
<1>0. Len(line) \in Nat /\ \A i \in DataAt(line) : i < Len(line) + 1 /\ i \in Nat
  BY LineDomain DEF DataAt
<1>1. /\ \A i \in DataAt(new) : i \in DataAt(line) /\ new[i] = line[i]
      /\ \A i \in ConnectAt(new) : i \in ConnectAt(line) \/ i = Len(line) + 1
      /\ \A i \in DOMAIN new : (i \in DOMAIN line /\ new[i] = line[i]) \/ new[i] = f
  BY AddedAt
<1> HIDE DEF Frame, Number
<1>2. \A i \in DOMAIN new : new[i].type # "Individual"
  BY <1>1 DEF OrderOf
<1>3. \A i \in DataAt(new) :
       /\ new[i].apdu = Request(Number(new[i]))
       /\ Number(new[i]) \in 1 .. requests /\ last <= Number(new[i])
       /\ ours /\ Number(new[i]) = last => new[i].seq = Previous(recv)
  BY <1>1 DEF OrderOf
<1>4. \A i, j \in DataAt(new) : i < j =>
       /\ Number(new[i]) <= Number(new[j])
       /\ Number(new[i]) = Number(new[j]) => new[i].seq = new[j].seq
  BY <1>1 DEF OrderOf
<1>5. \A c \in ConnectAt(new), j \in DataAt(new) : c < j => c \in ConnectAt(line)
  BY <1>0, <1>1
<1>6. /\ \A c \in ConnectAt(new), j \in DataAt(new) : c < j => Number(new[j]) > last
      /\ \A c \in ConnectAt(new), i, j \in DataAt(new) :
           i < c /\ c < j => Number(new[i]) < Number(new[j])
  BY <1>1, <1>5 DEF OrderOf
<1> QED BY <1>2, <1>3, <1>4, <1>6 DEF OrderOf

LEMMA OrderAddsRequest ==
  ASSUME NEW line \in Seq(Frame), NEW new, NEW requests \in Nat, NEW send,
         NEW last \in Nat, last <= requests, NEW ours, NEW recv,
         Added(line, new, FrameOf("Data", send, Request(requests + 1))),
         OrderOf(line, last, requests, FALSE, send, ours, recv)
  PROVE  OrderOf(new, last, requests + 1, TRUE, send, ours, recv)
<1> DEFINE f == FrameOf("Data", send, Request(requests + 1))
<1>0. /\ Len(line) \in Nat
      /\ \A i \in DataAt(line) : i < Len(line) + 1 /\ i \in Nat
      /\ \A i \in ConnectAt(line) : i < Len(line) + 1 /\ i \in Nat
  BY LineDomain DEF DataAt, ConnectAt
<1>1. /\ f.type = "Data" /\ f.seq = send /\ f.apdu = Request(requests + 1)
      /\ Number(f) = requests + 1
  BY DEF FrameOf, Number, Request
<1> HIDE DEF f
<1>2. /\ \A i \in DataAt(new) : \/ i \in DataAt(line) /\ new[i] = line[i]
                                \/ i = Len(line) + 1 /\ new[i] = f
      /\ \A i \in ConnectAt(new) : i \in ConnectAt(line)
      /\ \A i \in DOMAIN new : (i \in DOMAIN line /\ new[i] = line[i]) \/ new[i] = f
  BY <1>1, AddedAt DEF f
<1> HIDE DEF Number
<1>3. \A i \in DOMAIN new : new[i].type # "Individual"
  BY <1>1, <1>2 DEF OrderOf
<1>4. \A i \in DataAt(line) :
       /\ line[i].apdu = Request(Number(line[i]))
       /\ Number(line[i]) \in 1 .. requests /\ last <= Number(line[i])
       /\ ours /\ Number(line[i]) = last => line[i].seq = Previous(recv)
  BY DEF OrderOf
<1>5. \A i \in DataAt(new) :
       /\ new[i].apdu = Request(Number(new[i]))
       /\ Number(new[i]) \in 1 .. requests + 1 /\ last <= Number(new[i])
       /\ Number(new[i]) = requests + 1 => new[i].seq = send
       /\ ours /\ Number(new[i]) = last => new[i].seq = Previous(recv)
  BY <1>1, <1>2, <1>4
<1>6. \A i, j \in DataAt(new) : i < j => i \in DataAt(line) /\ new[i] = line[i]
  BY <1>0, <1>2
<1>7. \A i, j \in DataAt(new) : i < j =>
       /\ Number(new[i]) <= Number(new[j])
       /\ Number(new[i]) = Number(new[j]) => new[i].seq = new[j].seq
  BY <1>1, <1>2, <1>4, <1>6 DEF OrderOf
<1>8. \A c \in ConnectAt(new), j \in DataAt(new) : c < j => Number(new[j]) > last
  BY <1>1, <1>2 DEF OrderOf
<1>9. \A c \in ConnectAt(new), i \in DataAt(new) : i < c => i \in DataAt(line) /\ new[i] = line[i]
  BY <1>0, <1>2
<1>10. \A c \in ConnectAt(new), i, j \in DataAt(new) :
         i < c /\ c < j => Number(new[i]) < Number(new[j])
  BY <1>1, <1>2, <1>4, <1>9 DEF OrderOf
<1>11. /\ requests + 1 > last /\ last # requests + 1
       /\ \A c \in ConnectAt(new), i \in DataAt(new) : i < c => Number(new[i]) < requests + 1
  BY <1>4, <1>9
<1> QED BY <1>3, <1>5, <1>7, <1>8, <1>10, <1>11 DEF OrderOf

LEMMA OrderRepeats ==
  ASSUME NEW new, NEW requests \in Nat \ {0}, NEW send, NEW last \in Nat, last <= requests,
         NEW ours, NEW recv,
         Added(<<>>, new, FrameOf("Data", send, Request(requests))),
         OrderOf(<<>>, last, requests, TRUE, send, ours, recv)
  PROVE  OrderOf(new, last, requests, TRUE, send, ours, recv)
<1> DEFINE f == FrameOf("Data", send, Request(requests))
<1>1. /\ f.type = "Data" /\ f.seq = send /\ f.apdu = Request(requests) /\ Number(f) = requests
  BY DEF FrameOf, Number, Request
<1> HIDE DEF f
<1>2. \A i \in DOMAIN new : i = 1 /\ new[i] = f
  BY DEF Added, f
<1>3. ConnectAt(new) = {} /\ \A i \in DataAt(new) : i = 1 /\ new[i] = f
  BY <1>1, <1>2 DEF ConnectAt, DataAt
<1>4. ours /\ last = requests => send = Previous(recv)
  BY DEF OrderOf
<1> HIDE DEF Number
<1>5. \A i \in DataAt(new) :
       /\ new[i].apdu = Request(Number(new[i]))
       /\ Number(new[i]) \in 1 .. requests /\ last <= Number(new[i])
       /\ new[i].seq = send
       /\ ours /\ Number(new[i]) = last => new[i].seq = Previous(recv)
  BY <1>1, <1>3, <1>4
<1>6. \A i, j \in DataAt(new) : ~(i < j)
  BY <1>3
<1> QED BY <1>1, <1>2, <1>3, <1>4, <1>5, <1>6 DEF OrderOf

(* The tool waits no more, the device has left.                            *)
LEMMA OrderWeaker ==
  ASSUME NEW line, NEW last, NEW requests, NEW waits, NEW send, NEW ours, NEW recv,
         OrderOf(line, last, requests, waits, send, ours, recv)
  PROVE  /\ \A s : OrderOf(line, last, requests, FALSE, s, ours, recv)
         /\ \A q : OrderOf(line, last, requests, waits, send, FALSE, q)
<1> HIDE DEF Number, DataAt, ConnectAt
<1> QED BY DEF OrderOf

LEMMA OrderOpens ==
  ASSUME NEW line, NEW last \in Nat, NEW requests \in Nat, NEW waits, NEW send, NEW ours, NEW recv,
         OrderOf(line, last, requests, waits, send, ours, recv),
         \A i \in DOMAIN line : i \in Nat \ {0},
         1 \in ConnectAt(line)
  PROVE  \A q : OrderOf(line, last, requests, waits, send, TRUE, q)
<1>1. \A j \in DataAt(line) : 1 < j
  BY DEF DataAt, ConnectAt
<1>2. \A j \in DataAt(line) : Number(line[j]) > last
  BY <1>1 DEF OrderOf
<1>3. waits => requests > last
  BY DEF OrderOf
<1>4. \A j \in DataAt(line) : Number(line[j]) \in 1 .. requests
  BY DEF OrderOf
<1>5. (\A j \in DataAt(line) : Number(line[j]) # last) /\ (waits => last # requests)
  BY <1>2, <1>3, <1>4
<1> HIDE DEF Number, DataAt, ConnectAt
<1> QED BY <1>5 DEF OrderOf

LEMMA OrderTakes ==
  ASSUME NEW line, NEW last \in Nat, NEW requests \in Nat, NEW waits, NEW send,
         NEW recv \in Seq4,
         OrderOf(line, last, requests, waits, send, TRUE, recv),
         \A i \in DOMAIN line : i \in Nat \ {0},
         1 \in DataAt(line), line[1].seq = recv
  PROVE  /\ Number(line[1]) > last /\ Number(line[1]) <= requests
         /\ line[1].apdu = Request(Number(line[1])) /\ Number(line[1]) \in Nat
         /\ OrderOf(line, Number(line[1]), requests, waits, send, TRUE, IncSeqNr(recv))
<1> DEFINE n == Number(line[1])
<1>1. /\ n \in 1 .. requests /\ last <= n /\ line[1].apdu = Request(n)
      /\ n = last => line[1].seq = Previous(recv)
      /\ waits /\ n = requests => recv = send
  BY DEF OrderOf
<1>2. Previous(IncSeqNr(recv)) = recv /\ Previous(recv) # recv
  BY SeqMoves
<1>3. n > last
  BY <1>1, <1>2
<1>4. \A j \in DataAt(line) : j = 1 \/ 1 < j
  BY DEF DataAt
<1> HIDE DEF n
<1>5. \A j \in DataAt(line) : n <= Number(line[j]) /\ (Number(line[j]) = n => line[j].seq = recv)
  BY <1>1, <1>4 DEF OrderOf, n
<1>6. \A c \in ConnectAt(line) : 1 < c
  BY DEF ConnectAt, DataAt
<1>7. \A c \in ConnectAt(line), j \in DataAt(line) : c < j => Number(line[j]) > n
  <2>1. SUFFICES ASSUME NEW c \in ConnectAt(line), NEW j \in DataAt(line), c < j
                 PROVE  Number(line[j]) > n
    OBVIOUS
  <2>2. n < Number(line[j]) /\ Number(line[j]) \in 1 .. requests
    BY <1>6, <2>1 DEF OrderOf, n
  <2> QED BY <1>1, <2>2
<1>8. \A c \in ConnectAt(line) : waits => requests > n
  <2>1. SUFFICES ASSUME NEW c \in ConnectAt(line), waits PROVE requests > n
    OBVIOUS
  <2>2. n < requests
    BY <1>6, <2>1 DEF OrderOf, n
  <2> QED BY <1>1, <2>2
<1> HIDE DEF Number
<1>9. OrderOf(line, n, requests, waits, send, TRUE, IncSeqNr(recv))
  <2>1. \A i \in DataAt(line) :
       /\ line[i].apdu = Request(Number(line[i]))
       /\ Number(line[i]) \in 1 .. requests
       /\ waits /\ Number(line[i]) = requests => line[i].seq = send
    BY DEF OrderOf
  <2>2. waits /\ n = requests => send = Previous(IncSeqNr(recv))
    BY <1>1, <1>2
  <2>3. \A i \in DataAt(line) :
          n <= Number(line[i]) /\ (Number(line[i]) = n => line[i].seq = Previous(IncSeqNr(recv)))
    BY <1>2, <1>5
  <2>4. /\ \A i \in DOMAIN line : line[i].type # "Individual"
        /\ \A i, j \in DataAt(line) : i < j =>
             /\ Number(line[i]) <= Number(line[j])
             /\ Number(line[i]) = Number(line[j]) => line[i].seq = line[j].seq
        /\ \A c \in ConnectAt(line), i, j \in DataAt(line) :
             i < c /\ c < j => Number(line[i]) < Number(line[j])
        /\ \A c \in ConnectAt(line), i \in DataAt(line) :
             waits /\ i < c => Number(line[i]) < requests
    BY DEF OrderOf
  <2> HIDE DEF DataAt, ConnectAt
  <2> QED BY <1>7, <1>8, <2>1, <2>2, <2>3, <2>4 DEF OrderOf
<1>10. n <= requests /\ n \in Nat /\ line[1].apdu = Request(n)
  BY <1>1
<1> QED BY <1>3, <1>9, <1>10 DEF n

LastTaken == IF taken = <<>> THEN 0 ELSE taken[Len(taken)].n

TakenInv ==
  /\ \A i \in DOMAIN taken : taken[i] = Request(taken[i].n) /\ taken[i].n \in 1 .. LastTaken
  /\ TakenInOrder
  /\ LastTaken \in 0 .. tool.requests

OrderInv ==
  OrderOf(toDevice, LastTaken, tool.requests, tool.waits, tool.send,
          tl.connectedTsap = Tool, tl.seqNoRecv)

(* The tool's account of its connection.                                   *)
ToolInv ==
  /\ tool.role = "none" => ~tool.waits /\ ~tool.fresh /\ tool.acked = 0 /\ tool.got = <<>>
  /\ tool.acked = 0 => tool.send = 0
  /\ tool.got = <<>> => tool.recv = 0
  /\ tool.waits => tool.requests > 0
  /\ tool.fresh => tool.role = "client"

LEMMA NowFacts ==
  ASSUME Inv
  PROVE  /\ AtRest(tl) /\ toDevice \in Seq(Frame) /\ toTool \in Seq(Frame) /\ tool \in ToolEnd
         /\ taken \in Seq(Apdu) /\ tool.requests \in Nat /\ tool.requests <= MaxApdus
         /\ tool.send \in Seq4 /\ tool.recv \in Seq4 /\ tool.waits \in BOOLEAN
         /\ tl.seqNoRecv \in Seq4 /\ tl.seqNoSend \in Seq4 /\ tool.got \in Seq(Apdu)
<1>1. /\ AtRest(tl) /\ toDevice \in Seq(Frame) /\ toTool \in Seq(Frame) /\ tool \in ToolEnd
      /\ taken \in Seq(Apdu) /\ tl \in Layer
  BY DEF Inv, TypeOK, AtRest
<1>2. /\ tool.requests \in 0 .. MaxApdus /\ tool.send \in Seq4 /\ tool.recv \in Seq4
      /\ tool.waits \in BOOLEAN /\ tool.got \in Seq(Apdu)
  BY <1>1, ToolFields
<1>3. tl.seqNoRecv \in Seq4 /\ tl.seqNoSend \in Seq4
  BY <1>1, ViewTypes
<1>4. tool.requests \in Nat /\ tool.requests <= MaxApdus
  BY <1>2
<1> QED BY <1>1, <1>2, <1>3, <1>4

LEMMA HandleFields ==
  ASSUME NEW r \in Layer, Handle(r)
  PROVE  /\ tl'.state = r.state /\ tl'.saved = r.saved /\ tl'.savedFrame = r.savedFrame
         /\ tl'.connectionAddress = r.connectionAddress
         /\ tl'.connectedTsap = r.connectedTsap
         /\ tl'.seqNoSend = r.seqNoSend /\ tl'.seqNoRecv = r.seqNoRecv
         /\ toTool' = Fill(toTool, r.sent[Tool])
         /\ taken' = IF tl.connectedTsap = Tool THEN taken \o r.passed ELSE taken
BY DEF Handle, Layer

LEMMA SaidType ==
  ASSUME NEW r \in Layer
  PROVE  r.sent[Tool] \in Seq(Frame)
BY ToolAssumption DEF Layer

(* Steps that give the application nothing of the tool's.                  *)
Quiet(t, r) ==
  /\ t.connectedTsap = Tool => r.passed = <<>>
  /\ r.connectedTsap = Tool => t.connectedTsap = Tool /\ r.seqNoRecv = t.seqNoRecv

LEMMA PassesQuiet ==
  ASSUME NEW t, AtRest(t), NEW r,
         Passes(t, r) \/ AcksAgain(t, r) \/ Settles(t, r) \/ \E p \in Partners : Leaves(t, r, p)
  PROVE  Quiet(t, r)
<1>0. t.passed = <<>>
  BY DEF AtRest
<1>1. CASE SameCore(t, r)
  BY <1>0, <1>1 DEF SameCore, SameView, Quiet
<1>2. CASE Away(t, r)
  BY <1>2 DEF Away, Quiet
<1>3. CASE SendsSaved(t, r) \/ Settles(t, r)
  BY <1>3 DEF SendsSaved, Settles, Quiet
<1>4. CASE \E p \in Partners : Leaves(t, r, p)
  <2>1. t.connectedTsap # Tool /\ r.connectedTsap # Tool
    BY <1>4 DEF Leaves
  <2> QED BY <2>1 DEF Quiet
<1> QED BY <1>1, <1>2, <1>3, <1>4 DEF Passes, Mute, Repeats, AcksAgain

SameTool ==
  /\ tool'.requests = tool.requests /\ tool'.waits = tool.waits /\ tool'.send = tool.send

LEMMA SameTaken ==
  ASSUME Inv, TakenInv, taken' = taken, tool'.requests = tool.requests
  PROVE  TakenInv' /\ LastTaken' = LastTaken
BY DEF TakenInv, LastTaken, TakenInOrder

LEMMA QuietKeeps ==
  ASSUME Inv, TakenInv, OrderInv, NEW r \in Layer, Handle(r), Quiet(tl, r), SameTool,
         NEW k \in Nat, Shifted(toDevice, toDevice', k)
  PROVE  TakenInv' /\ OrderInv' /\ LastTaken' = LastTaken /\ taken' = taken
<1>1. taken \in Seq(Apdu)
  BY NowFacts
<1>2. taken' = taken
  <2> HIDE DEF Apdu
  <2>1. taken \o <<>> = taken
    BY <1>1, ConcatEmptySeq
  <2> QED BY <2>1, HandleFields DEF Quiet
<1>3. TakenInv' /\ LastTaken' = LastTaken
  BY <1>2, SameTaken DEF SameTool
<1> DEFINE Now(line, ours, recv) ==
             OrderOf(line, LastTaken, tool.requests, tool.waits, tool.send, ours, recv)
<1>4. Now(toDevice', tl.connectedTsap = Tool, tl.seqNoRecv)
  <2>1. Now(toDevice, tl.connectedTsap = Tool, tl.seqNoRecv)
    BY DEF OrderInv
  <2> QED BY <2>1, OrderShifts
<1>5. Now(toDevice', FALSE, tl'.seqNoRecv)
  BY <1>4, OrderWeaker
<1>6. (tl.connectedTsap = Tool) \in BOOLEAN /\ (tl'.connectedTsap = Tool) \in BOOLEAN
  OBVIOUS
<1>7. tl'.connectedTsap = Tool => tl.connectedTsap = Tool /\ tl'.seqNoRecv = tl.seqNoRecv
  BY HandleFields DEF Quiet
<1> HIDE DEF Now
<1>8. Now(toDevice', tl'.connectedTsap = Tool, tl'.seqNoRecv)
  <2>1. CASE tl'.connectedTsap = Tool
    <3>1. (tl.connectedTsap = Tool) = TRUE /\ (tl'.connectedTsap = Tool) = TRUE
      BY <1>7, <2>1
    <3> QED BY <1>4, <1>7, <2>1, <3>1
  <2>2. CASE tl'.connectedTsap # Tool
    <3>1. (tl'.connectedTsap = Tool) = FALSE
      BY <2>2
    <3> QED BY <1>5, <3>1
  <2> QED BY <2>1, <2>2
<1>9. OrderInv'
  BY <1>3, <1>8 DEF OrderInv, SameTool, Now
<1> QED BY <1>2, <1>3, <1>9

LEMMA TakenAppends ==
  ASSUME Inv, TakenInv, NEW n \in Nat, n > LastTaken, n <= tool.requests,
         taken' = taken \o <<Request(n)>>, tool'.requests = tool.requests
  PROVE  TakenInv' /\ LastTaken' = n /\ (\E i \in DOMAIN taken' : taken'[i] = Request(n))
<1> DEFINE e == Request(n)
<1>1. taken \in Seq(Apdu) /\ e \in Apdu /\ e.n = n /\ e.kind = "request"
  BY NowFacts DEF Request, Apdu
<1>2. /\ Len(taken) \in Nat /\ DOMAIN taken = 1 .. Len(taken)
      /\ taken' \in Seq(Apdu) /\ Len(taken') = Len(taken) + 1
      /\ DOMAIN taken' = 1 .. Len(taken) + 1
      /\ \A i \in 1 .. Len(taken) : taken'[i] = taken[i]
      /\ taken'[Len(taken) + 1] = e
  <2> HIDE DEF Apdu, e
  <2>1. <<e>> \in Seq(Apdu) /\ Len(<<e>>) = 1 /\ <<e>>[1] = e
    BY <1>1
  <2>2. taken' \in Seq(Apdu) /\ Len(taken') = Len(taken) + 1
    BY <1>1, <2>1, ConcatProperties DEF e
  <2>3. \A i \in 1 .. Len(taken) + 1 : taken'[i] = IF i <= Len(taken) THEN taken[i] ELSE <<e>>[i - Len(taken)]
    BY <1>1, <2>1, ConcatProperties DEF e
  <2>4. Len(taken) \in Nat /\ DOMAIN taken = 1 .. Len(taken) /\ DOMAIN taken' = 1 .. Len(taken')
    BY <1>1, <2>2
  <2> QED BY <2>1, <2>2, <2>3, <2>4
<1>3. LastTaken' = n
  <2>1. taken' # <<>>
    BY <1>2
  <2> QED BY <1>1, <1>2, <2>1 DEF LastTaken
<1>4. LastTaken \in Nat /\ n \in 1 .. n /\ n \in 0 .. tool.requests
  BY NowFacts DEF TakenInv
<1> HIDE DEF e, LastTaken
<1>5. \A i \in 1 .. Len(taken) : taken[i] = Request(taken[i].n) /\ taken[i].n \in 1 .. LastTaken
  BY <1>2 DEF TakenInv
<1>6. \A i \in 1 .. Len(taken) + 1 :
        taken'[i] = Request(taken'[i].n) /\ taken'[i].n \in 1 .. n
  <2>1. \A i \in 1 .. Len(taken) + 1 : i \in 1 .. Len(taken) \/ i = Len(taken) + 1
    BY <1>2
  <2>2. \A k \in 1 .. LastTaken : k \in 1 .. n
    BY <1>4
  <2>3. e = Request(e.n)
    BY <1>1 DEF e
  <2> HIDE DEF Request
  <2> QED BY <1>1, <1>2, <1>4, <1>5, <2>1, <2>2, <2>3
<1>7. TakenInOrder'
  <2>1. SUFFICES ASSUME NEW i \in 1 .. Len(taken) + 1, NEW j \in 1 .. Len(taken) + 1, i < j,
                        taken'[i].kind = "request", taken'[j].kind = "request"
                 PROVE  taken'[i].n < taken'[j].n
    BY <1>2 DEF TakenInOrder
  <2>2. i \in 1 .. Len(taken) /\ taken'[i] = taken[i]
    BY <1>2, <2>1
  <2>3. CASE j \in 1 .. Len(taken)
    BY <1>2, <2>1, <2>2, <2>3 DEF TakenInv, TakenInOrder
  <2>4. CASE j = Len(taken) + 1
    <3>1. taken[i].n \in 1 .. LastTaken
      BY <1>5, <2>2
    <3> QED BY <1>1, <1>2, <1>4, <2>2, <2>4, <3>1
  <2> QED BY <1>2, <2>3, <2>4
<1>8. TakenInv'
  BY <1>2, <1>3, <1>4, <1>6, <1>7 DEF TakenInv
<1>9. Len(taken) + 1 \in DOMAIN taken' /\ taken'[Len(taken) + 1] = Request(n)
  BY <1>2 DEF e
<1> QED BY <1>3, <1>8, <1>9

(* What a handler of the tool's frame does with its requests.              *)
LEMMA ArriveKeeps ==
  ASSUME Inv, TakenInv, OrderInv, NEW r \in Layer, Handle(r), SameTool,
         toDevice # <<>>, Arrives(tl, r, Head(toDevice)),
         toDevice' = toDevice \/ toDevice' = Tail(toDevice)
  PROVE  /\ TakenInv' /\ OrderInv'
         /\ \/ taken' = taken /\ LastTaken' = LastTaken
            \/ /\ Head(toDevice).type = "Data" /\ Takes(tl, r, Head(toDevice).apdu)
               /\ LastTaken' = Number(Head(toDevice)) /\ LastTaken' > LastTaken
               /\ \E i \in DOMAIN taken' : taken'[i] = Request(LastTaken')
<1> DEFINE f == Head(toDevice)
<1>0. /\ AtRest(tl) /\ toDevice \in Seq(Frame) /\ f = toDevice[1] /\ 1 \in DOMAIN toDevice
      /\ \A i \in DOMAIN toDevice : i \in Nat \ {0}
  BY NowFacts, LineDomain
<1>1. \E k \in Nat : Shifted(toDevice, toDevice', k)
  <2>1. Shifted(toDevice, toDevice, 0) /\ Shifted(toDevice, Tail(toDevice), 1)
    BY <1>0, TailShifts
  <2>2. 0 \in Nat /\ 1 \in Nat OBVIOUS
  <2> QED BY <2>1, <2>2
<1> HIDE DEF f
<1>2. CASE Passes(tl, r) \/ AcksAgain(tl, r) \/ Settles(tl, r)
  <2>1. Quiet(tl, r)
    BY <1>0, <1>2, PassesQuiet
  <2> QED BY <1>1, <2>1, QuietKeeps
<1>3. CASE f.type = "Connect" /\ Opens(tl, r)
  <2>1. r.passed = <<>> /\ r.connectedTsap = Tool
    BY <1>3 DEF Opens
  <2>2. taken' = taken
    <3> HIDE DEF Apdu
    <3>1. taken \in Seq(Apdu) BY NowFacts
    <3>2. taken \o <<>> = taken BY <3>1, ConcatEmptySeq
    <3> QED BY <2>1, <3>2, HandleFields
  <2>3. TakenInv' /\ LastTaken' = LastTaken
    BY <2>2, SameTaken DEF SameTool
  <2>4. 1 \in ConnectAt(toDevice)
    BY <1>0, <1>3 DEF ConnectAt
  <2>5. LastTaken \in Nat /\ tool.requests \in Nat
    BY NowFacts DEF TakenInv
  <2> DEFINE Now(line) == OrderOf(line, LastTaken, tool.requests, tool.waits, tool.send,
                                  TRUE, tl'.seqNoRecv)
  <2>6. Now(toDevice)
    BY <1>0, <2>4, <2>5, OrderOpens DEF OrderInv
  <2>7. Now(toDevice')
    BY <1>1, <2>6, OrderShifts
  <2>8. (tl'.connectedTsap = Tool) = TRUE
    BY <2>1, HandleFields
  <2> HIDE DEF OrderOf
  <2>9. OrderInv'
    BY <2>3, <2>7, <2>8 DEF OrderInv, SameTool
  <2> QED BY <2>2, <2>3, <2>9
<1>4. CASE f.type = "Data" /\ f.seq = tl.seqNoRecv /\ Takes(tl, r, f.apdu)
  <2>1. /\ tl.connectedTsap = Tool /\ r.connectedTsap = Tool /\ r.passed = <<f.apdu>>
        /\ r.seqNoRecv = IncSeqNr(tl.seqNoRecv)
    BY <1>4 DEF Takes
  <2>2. 1 \in DataAt(toDevice) /\ toDevice[1].seq = tl.seqNoRecv
    BY <1>0, <1>4 DEF DataAt
  <2>3. LastTaken \in Nat /\ tool.requests \in Nat /\ tl.seqNoRecv \in Seq4
    BY NowFacts DEF TakenInv
  <2>4. (tl.connectedTsap = Tool) = TRUE /\ (tl'.connectedTsap = Tool) = TRUE
        /\ tl'.seqNoRecv = IncSeqNr(tl.seqNoRecv)
    BY <2>1, HandleFields
  <2>5. OrderOf(toDevice, LastTaken, tool.requests, tool.waits, tool.send, TRUE, tl.seqNoRecv)
    BY <2>4 DEF OrderInv
  <2> DEFINE n == Number(toDevice[1])
  <2>6. /\ n > LastTaken /\ n <= tool.requests /\ toDevice[1].apdu = Request(n) /\ n \in Nat
        /\ OrderOf(toDevice, n, tool.requests, tool.waits, tool.send, TRUE, IncSeqNr(tl.seqNoRecv))
    BY <1>0, <2>2, <2>3, <2>5, OrderTakes
  <2> HIDE DEF n
  <2>7. taken' = taken \o <<Request(n)>>
    BY <1>0, <2>1, <2>6, HandleFields
  <2>8. TakenInv' /\ LastTaken' = n /\ \E i \in DOMAIN taken' : taken'[i] = Request(n)
    BY <2>6, <2>7, TakenAppends DEF SameTool
  <2>9. OrderOf(toDevice', n, tool.requests, tool.waits, tool.send, TRUE, IncSeqNr(tl.seqNoRecv))
    BY <1>1, <2>6, OrderShifts
  <2> HIDE DEF OrderOf
  <2>10. OrderInv'
    BY <2>4, <2>8, <2>9 DEF OrderInv, SameTool
  <2> QED BY <1>0, <1>4, <2>6, <2>8, <2>10 DEF n, f
<1> QED BY <1>2, <1>3, <1>4 DEF Arrives, Passes, f

-----------------------------------------------------------------------------
(* The T_Connects on their way.  Behind the one of the tool's connection,  *)
(* as long as nothing of an earlier one was taken for a part of it, is the *)
(* first request only, and no acknowledge of a frame it took.              *)
ConnectOf(line, connects, live, unacked, none, waits, requests) ==
  /\ \A c \in ConnectAt(line) : Number(line[c]) <= connects
  /\ \A c, d \in ConnectAt(line) : c < d => Number(line[c]) < Number(line[d])
  /\ \A c \in ConnectAt(line), j \in DataAt(line) :
       live /\ unacked /\ Number(line[c]) = connects /\ c < j =>
         waits /\ Number(line[j]) = requests
  /\ \A c \in ConnectAt(line), j \in AckAt(line) :
       live /\ none /\ Number(line[c]) = connects /\ c < j => line[j].seq = Previous(0)

ConnectInv ==
  ConnectOf(toDevice, tool.connects, tool.role = "client", tool.acked = 0, tool.got = <<>>,
            tool.waits, tool.requests)

LEMMA ConnectShifts ==
  ASSUME NEW line, NEW new, NEW k \in Nat, NEW connects, NEW live, NEW unacked, NEW none,
         NEW waits, NEW requests,
         ConnectOf(line, connects, live, unacked, none, waits, requests),
         Shifted(line, new, k)
  PROVE  ConnectOf(new, connects, live, unacked, none, waits, requests)
<1> HIDE DEF Number
<1>1. /\ \A i \in DataAt(new) : i \in Nat /\ i + k \in DataAt(line) /\ new[i] = line[i + k]
      /\ \A i \in AckAt(new) : i \in Nat /\ i + k \in AckAt(line) /\ new[i] = line[i + k]
      /\ \A i \in ConnectAt(new) : i \in Nat /\ i + k \in ConnectAt(line) /\ new[i] = line[i + k]
  BY DEF Shifted, DataAt, ConnectAt, AckAt
<1>2. \A i, j \in Nat : i < j => i + k < j + k
  OBVIOUS
<1>3. \A c \in ConnectAt(new) : Number(new[c]) <= connects
  BY <1>1 DEF ConnectOf
<1>4. \A c, d \in ConnectAt(new) : c < d => Number(new[c]) < Number(new[d])
  BY <1>1, <1>2 DEF ConnectOf
<1>5. \A c \in ConnectAt(new), j \in DataAt(new) :
        live /\ unacked /\ Number(new[c]) = connects /\ c < j =>
          waits /\ Number(new[j]) = requests
  BY <1>1, <1>2 DEF ConnectOf
<1>6. \A c \in ConnectAt(new), j \in AckAt(new) :
        live /\ none /\ Number(new[c]) = connects /\ c < j => new[j].seq = Previous(0)
  BY <1>1, <1>2 DEF ConnectOf
<1> QED BY <1>3, <1>4, <1>5, <1>6 DEF ConnectOf

(* A frame at the end that is no T_Connect; of data and acknowledges see   *)
(* what the tool may send.                                                 *)
LEMMA ConnectAdds ==
  ASSUME NEW line \in Seq(Frame), NEW new, NEW f \in Frame, Added(line, new, f),
         f.type # "Connect",
         NEW connects, NEW live, NEW unacked, NEW none, NEW waits, NEW requests,
         ConnectOf(line, connects, live, unacked, none, waits, requests),
         f.type = "Data" /\ live /\ unacked => waits /\ Number(f) = requests,
         f.type = "Ack" /\ live /\ none => f.seq = Previous(0)
  PROVE  ConnectOf(new, connects, live, unacked, none, waits, requests)
<1>1. /\ \A i \in DataAt(new) : (i \in DataAt(line) /\ new[i] = line[i]) \/ (new[i] = f /\ f.type = "Data")
      /\ \A i \in AckAt(new) : (i \in AckAt(line) /\ new[i] = line[i]) \/ (new[i] = f /\ f.type = "Ack")
      /\ \A i \in ConnectAt(new) : i \in ConnectAt(line) /\ new[i] = line[i]
  BY AddedAt
<1> HIDE DEF Frame, Number, DataAt, AckAt, ConnectAt
<1>3. \A c \in ConnectAt(new) : Number(new[c]) <= connects
  BY <1>1 DEF ConnectOf
<1>4. \A c, d \in ConnectAt(new) : c < d => Number(new[c]) < Number(new[d])
  BY <1>1 DEF ConnectOf
<1>5. \A c \in ConnectAt(new), j \in DataAt(new) :
        live /\ unacked /\ Number(new[c]) = connects /\ c < j =>
          waits /\ Number(new[j]) = requests
  BY <1>1 DEF ConnectOf
<1>6. \A c \in ConnectAt(new), j \in AckAt(new) :
        live /\ none /\ Number(new[c]) = connects /\ c < j => new[j].seq = Previous(0)
  BY <1>1 DEF ConnectOf
<1> QED BY <1>3, <1>4, <1>5, <1>6 DEF ConnectOf

LEMMA ConnectAddsConnect ==
  ASSUME NEW line \in Seq(Frame), NEW new, NEW f \in Frame, Added(line, new, f),
         f.type = "Connect", NEW connects \in Nat, Number(f) = connects + 1,
         NEW live, NEW unacked, NEW none, NEW waits, NEW requests,
         ConnectOf(line, connects, live, unacked, none, waits, requests)
  PROVE  \A l, u, n, w, q : ConnectOf(new, connects + 1, l, u, n, w, q)
<1>0. Len(line) \in Nat /\ \A i \in DOMAIN line : i < Len(line) + 1 /\ i \in Nat /\ line[i] \in Frame
  BY LineDomain
<1>1. /\ \A i \in DataAt(new) : i \in DataAt(line)
      /\ \A i \in AckAt(new) : i \in AckAt(line)
      /\ \A i \in ConnectAt(new) : \/ i \in ConnectAt(line) /\ new[i] = line[i]
                                   \/ i = Len(line) + 1 /\ new[i] = f
  BY AddedAt
<1>2. \A c \in ConnectAt(line) :
        Number(line[c]) \in Nat /\ Number(line[c]) <= connects /\ c < Len(line) + 1 /\ c \in Nat
  BY <1>0 DEF ConnectOf, ConnectAt, Number, Frame, Apdu
<1>3. \A c \in ConnectAt(new), j \in DataAt(new) \union AckAt(new) : c < j => c \in ConnectAt(line) /\ new[c] = line[c]
  BY <1>0, <1>1 DEF DataAt, AckAt
<1> HIDE DEF Frame, Number
<1>4. \A c \in ConnectAt(new) : Number(new[c]) <= connects + 1
  BY <1>1, <1>2
<1>5. \A c, d \in ConnectAt(new) : c < d => Number(new[c]) < Number(new[d])
  <2>1. SUFFICES ASSUME NEW c \in ConnectAt(new), NEW d \in ConnectAt(new), c < d
                 PROVE  Number(new[c]) < Number(new[d])
    OBVIOUS
  <2>2. c \in ConnectAt(line) /\ new[c] = line[c]
    BY <1>0, <1>1, <1>2, <2>1
  <2>3. CASE d \in ConnectAt(line) /\ new[d] = line[d]
    BY <2>1, <2>2, <2>3 DEF ConnectOf
  <2>4. CASE new[d] = f
    BY <1>2, <2>2, <2>4
  <2> QED BY <1>1, <2>3, <2>4
<1>6. \A c \in ConnectAt(new), j \in DataAt(new) \union AckAt(new) :
        c < j => Number(new[c]) # connects + 1
  BY <1>2, <1>3
<1> HIDE DEF DataAt, AckAt, ConnectAt
<1> QED BY <1>4, <1>5, <1>6 DEF ConnectOf

(* A field of the tool that changes what is asked.                         *)
LEMMA ConnectWeaker ==
  ASSUME NEW line, NEW connects, NEW live, NEW unacked, NEW none, NEW waits, NEW requests,
         ConnectOf(line, connects, live, unacked, none, waits, requests)
  PROVE  /\ \A u, n, w, q : ConnectOf(line, connects, FALSE, u, n, w, q)
         /\ \A w, q : ConnectOf(line, connects, live, FALSE, none, w, q)
         /\ ConnectOf(line, connects, live, unacked, FALSE, waits, requests)
BY DEF ConnectOf

(* A request that is the first of its connection is behind no other.       *)
LEMMA ConnectFirst ==
  ASSUME NEW line, NEW connects, NEW live, NEW unacked, NEW none, NEW requests,
         ConnectOf(line, connects, live, unacked, none, FALSE, requests)
  PROVE  \A w, q : ConnectOf(line, connects, live, unacked, none, w, q)
BY DEF ConnectOf

-----------------------------------------------------------------------------
(* What holds of the line to the device.                                   *)
LineInv == ToolInv /\ TakenInv /\ OrderInv /\ ConnectInv

SameEnd ==
  /\ tool'.role = tool.role /\ tool'.send = tool.send /\ tool'.recv = tool.recv
  /\ tool'.waits = tool.waits /\ tool'.connects = tool.connects
  /\ tool'.requests = tool.requests /\ tool'.acked = tool.acked /\ tool'.got = tool.got

(* The steps of the device: a frame of the tool arrives, something else    *)
(* happens, or nothing that the line or the tool could know of.            *)
Freshens ==
  /\ Head(toDevice).type = "Connect" /\ Number(Head(toDevice)) = tool.connects
  /\ tool.role = "client" /\ tl.state = "Closed" /\ tl.saved = NoApdu
  /\ toTool = <<>> /\ tool.acked = 0 /\ tool.got = <<>>

ArrivesBy(r) ==
  /\ r \in Layer /\ Handle(r) /\ SameEnd
  /\ toDevice # <<>> /\ (toDevice' = toDevice \/ toDevice' = Tail(toDevice))
  /\ Arrives(tl, r, Head(toDevice))
  /\ tool'.fresh => tool.fresh \/ Freshens

PassesBy(r) ==
  /\ r \in Layer /\ Handle(r) /\ SameEnd /\ toDevice' = toDevice /\ Quiet(tl, r)
  /\ tool'.fresh => tool.fresh /\ Passes(tl, r)

Still ==
  /\ SameCore(tl, tl')
  /\ tool' = tool /\ toDevice' = toDevice /\ toTool' = toTool /\ taken' = taken

LEMMA ArriveSteps ==
  ASSUME Inv, LineInv, NEW answers \in BOOLEAN, NEW repeated \in BOOLEAN,
         Arrive(answers, repeated)
  PROVE  \E r : ArrivesBy(r)
<1> DEFINE f == Head(toDevice)
           r == DataIndividualIndication(tl, Tool, f.type, f.seq, f.apdu, answers)
<1>0. AtRest(tl) /\ toDevice \in Seq(Frame) /\ tool \in ToolEnd
  BY NowFacts
<1>1. f \in Frame /\ f = toDevice[1] /\ 1 \in DOMAIN toDevice
  BY <1>0, LineType, LineDomain DEF Arrive
<1>2. f.type # "Individual"
  BY <1>1 DEF LineInv, OrderInv, OrderOf
<1>3. Handle(r) /\ toDevice # <<>> /\ (toDevice' = toDevice \/ toDevice' = Tail(toDevice))
  BY DEF Arrive
<1>4. SameEnd
  BY <1>0 DEF Arrive, SameEnd, ToolEnd
<1>5. tool'.fresh => tool.fresh \/ Freshens
  BY <1>0 DEF Arrive, Freshens, Number, Inv, SavedEndsWithConnection
<1> HIDE DEF f
<1>6. Arrives(tl, r, f)
  BY <1>0, <1>1, <1>2, FrameArrives
<1>7. r \in Layer
  BY <1>1, IndicationStep, ToolAssumption DEF Inv, Step, Sound
<1> HIDE DEF r
<1> QED BY <1>3, <1>4, <1>5, <1>6, <1>7 DEF ArrivesBy, f

LEMMA PassesStep ==
  ASSUME Inv, NEW r \in Layer, Handle(r), Passes(tl, r), tool' = tool, toDevice' = toDevice
  PROVE  PassesBy(r)
<1>1. Quiet(tl, r)
  BY NowFacts, PassesQuiet
<1> QED BY <1>1 DEF PassesBy, SameEnd

LEMMA OtherSteps ==
  ASSUME Inv, \/ \E type \in OtherTypes : ArriveOther(type)
              \/ \E status \in BOOLEAN : Confirm(status)
              \/ Loop
  PROVE  \E r : PassesBy(r)
<1>0. AtRest(tl) /\ Sound(tl)
  BY NowFacts DEF AtRest
<1>1. CASE \E type \in OtherTypes : ArriveOther(type)
  <2>1. PICK type \in OtherTypes : ArriveOther(type)
    BY <1>1
  <2> DEFINE f == FrameOf(type, 0, NoApdu)
             r == DataIndividualIndication(tl, Other, type, 0, NoApdu, FALSE)
  <2>2. f \in Frame /\ f.type = type /\ f.seq = 0 /\ f.apdu = NoApdu /\ type \in FrameType
    BY LineAssumption, ApduType DEF FrameOf, Frame, Seq4
  <2>3. Sound(r)
    <3> HIDE DEF f
    <3>1. Step(tl, DataIndividualIndication(tl, Other, f.type, f.seq, f.apdu, FALSE))
      BY <1>0, <2>2, IndicationStep, ToolAssumption
    <3> QED BY <2>2, <3>1 DEF Step
  <2>4. Passes(tl, r)
    BY <1>0, <2>2, OtherPasses
  <2>5. Handle(r) /\ tool' = tool /\ toDevice' = toDevice
    BY <2>1 DEF ArriveOther
  <2> HIDE DEF r
  <2>6. r \in Layer BY <2>3 DEF Sound
  <2> QED BY <2>4, <2>5, <2>6, PassesStep
<1>2. CASE \E status \in BOOLEAN : Confirm(status)
  <2>1. PICK status \in BOOLEAN : Confirm(status)
    BY <1>2
  <2> DEFINE r == ConnectConfirm(tl, status)
  <2>2. r \in Layer /\ Passes(tl, r)
    BY <1>0, ConnectConfirmStep, ConfirmPasses DEF Step, Sound
  <2>3. Handle(r) /\ tool' = tool /\ toDevice' = toDevice
    BY <2>1 DEF Confirm
  <2> HIDE DEF r
  <2> QED BY <2>2, <2>3, PassesStep
<1>3. CASE Loop
  <2> DEFINE r == LayerLoop(tl)
  <2>2. r \in Layer /\ Passes(tl, r)
    BY <1>0, LoopSound, LoopPasses DEF Sound
  <2>3. Handle(r) /\ tool' = tool /\ toDevice' = toDevice
    BY <1>3 DEF Loop
  <2> HIDE DEF r
  <2> QED BY <2>2, <2>3, PassesStep
<1> QED BY <1>1, <1>2, <1>3

(* A connection of the device that is not one to the tool.                 *)
LEMMA LeavesAway ==
  ASSUME NEW t, NEW r, NEW p, p # Tool, Leaves(t, r, p)
  PROVE  Away(t, r)
BY DEF Leaves, Away

LEMMA RestartSteps ==
  ASSUME Inv, NEW p \in Partners, NEW con \in {"later", "sent", "failed"}, AskRestart(p, con)
  PROVE  \E r : PassesBy(r)
<1> DEFINE r == RestartRequest(tl, p, con)
<1>0. AtRest(tl) /\ tool \in ToolEnd
  BY NowFacts
<1>1. Handle(r) /\ ~closedSince /\ toDevice' = toDevice
  BY DEF AskRestart
<1>2. tl.state = "Closed" => tl.saved = NoApdu
  BY <1>1 DEF Inv, SavedEndsWithConnection
<1>3. r \in Layer
  BY <1>2, RestartSound DEF Inv, Sound
<1>4. Mute(tl, r) \/ Leaves(tl, r, p)
  BY <1>0, <1>2, RestartLeaves
<1>5. SameEnd /\ (tool'.fresh => tool.fresh /\ p # Tool)
  BY <1>0 DEF AskRestart, SameEnd, ToolEnd
<1> HIDE DEF r
<1>6. Quiet(tl, r)
  BY <1>0, <1>4, PassesQuiet DEF Passes
<1>7. tool'.fresh => tool.fresh /\ Passes(tl, r)
  BY <1>4, <1>5, LeavesAway DEF Passes
<1> QED BY <1>1, <1>3, <1>5, <1>6, <1>7 DEF PassesBy

LEMMA TickSteps ==
  ASSUME Inv, Tick \/ UNCHANGED vars
  PROVE  Still
<1>1. SameCore(tl, tl')
  BY NowFacts, RestFacts, OlderMute DEF Tick, vars, Mute
<1> QED BY <1>1 DEF Still, Tick, vars

-----------------------------------------------------------------------------
(* The steps of the device.                                                *)

LEMMA LineFacts ==
  ASSUME Inv, LineInv
  PROVE  /\ LastTaken \in Nat /\ LastTaken <= tool.requests
         /\ tool.waits => tool.requests \in Nat \ {0}
<1>1. LastTaken \in 0 .. tool.requests /\ tool.requests \in Nat
  BY NowFacts DEF LineInv, TakenInv
<1> QED BY <1>1 DEF LineInv, ToolInv

LEMMA DeviceKeeps ==
  ASSUME Inv, LineInv, SameEnd, TakenInv', OrderInv',
         tool'.fresh => tool.role = "client",
         NEW k \in Nat, Shifted(toDevice, toDevice', k)
  PROVE  LineInv'
<1>1. ConnectOf(toDevice', tool.connects, tool.role = "client", tool.acked = 0, tool.got = <<>>,
                tool.waits, tool.requests)
  BY ConnectShifts DEF LineInv, ConnectInv
<1>2. ConnectInv'
  BY <1>1 DEF ConnectInv, SameEnd
<1>3. ToolInv'
  BY DEF LineInv, ToolInv, SameEnd
<1> QED BY <1>2, <1>3 DEF LineInv

LEMMA ArrivesByShifts ==
  ASSUME Inv, NEW r, ArrivesBy(r)
  PROVE  \E k \in Nat : Shifted(toDevice, toDevice', k)
<1>1. Shifted(toDevice, toDevice, 0) /\ Shifted(toDevice, Tail(toDevice), 1)
  BY NowFacts, TailShifts DEF ArrivesBy
<1>2. 0 \in Nat /\ 1 \in Nat OBVIOUS
<1> QED BY <1>1, <1>2 DEF ArrivesBy

LEMMA ArrivesLine ==
  ASSUME Inv, LineInv, NEW r, ArrivesBy(r)
  PROVE  LineInv'
<1>1. SameTool
  BY DEF ArrivesBy, SameEnd, SameTool
<1>2. TakenInv' /\ OrderInv'
  BY <1>1, ArriveKeeps DEF ArrivesBy, LineInv
<1>3. tool'.fresh => tool.role = "client"
  BY DEF ArrivesBy, Freshens, LineInv, ToolInv
<1> QED BY <1>2, <1>3, ArrivesByShifts, DeviceKeeps DEF ArrivesBy

LEMMA PassesLine ==
  ASSUME Inv, LineInv, NEW r, PassesBy(r)
  PROVE  LineInv' /\ taken' = taken /\ LastTaken' = LastTaken
<1>1. SameTool
  BY DEF PassesBy, SameEnd, SameTool
<1>2. 0 \in Nat /\ Shifted(toDevice, toDevice', 0)
  BY NowFacts, TailShifts DEF PassesBy
<1>3. TakenInv' /\ OrderInv' /\ taken' = taken /\ LastTaken' = LastTaken
  BY <1>1, <1>2, QuietKeeps DEF PassesBy, LineInv
<1>4. tool'.fresh => tool.role = "client"
  BY DEF PassesBy, LineInv, ToolInv
<1> QED BY <1>2, <1>3, <1>4, DeviceKeeps DEF PassesBy

LEMMA StillLine ==
  ASSUME Inv, LineInv, Still
  PROVE  LineInv' /\ LastTaken' = LastTaken
<1>1. TakenInv' /\ LastTaken' = LastTaken
  BY SameTaken DEF Still, LineInv
<1>2. tl'.connectedTsap = tl.connectedTsap /\ tl'.seqNoRecv = tl.seqNoRecv
  BY DEF Still, SameCore, SameView
<1>3. OrderInv' /\ ConnectInv' /\ ToolInv'
  BY <1>1, <1>2 DEF Still, LineInv, OrderInv, ConnectInv, ToolInv
<1> QED BY <1>1, <1>3 DEF LineInv

-----------------------------------------------------------------------------
(* The steps of the tool that matter for a connection that goes on.        *)
Leaving ==
  /\ tool' = Gone(tool) /\ taken' = taken
  /\ toDevice' = toDevice \/ ToolSends(<<FrameOf("Disconnect", 0, NoApdu)>>)

AckTaken(f) ==
  /\ f.type = "Ack" /\ tool.waits /\ f.seq = tool.send
  /\ tool' = [tool EXCEPT !.waits = FALSE, !.send = IncSeqNr(@), !.acked = tool.requests]
  /\ toDevice' = toDevice

DataTaken(f) ==
  /\ f.type = "Data" /\ f.seq = tool.recv /\ tool.role # "none"
  /\ tool' = [tool EXCEPT !.recv = IncSeqNr(@), !.got = Append(@, f.apdu)]
  /\ ToolSends(<<FrameOf("Ack", f.seq, NoApdu)>>)

DataAgain(f) ==
  /\ f.type = "Data" /\ f.seq # tool.recv /\ tool' = tool
  /\ ToolSends(<<FrameOf(IF f.seq = Previous(tool.recv) THEN "Ack" ELSE "Nack",
                         f.seq, NoApdu)>>)

Serves ==
  /\ tool.role = "none" /\ tool' = [tool EXCEPT !.role = "server"] /\ toDevice' = toDevice

LEMMA ReceiveSteps ==
  ASSUME Inv, NEW f, ToolTakes(f), taken' = taken
  PROVE  \/ Leaving \/ Serves \/ AckTaken(f) \/ DataTaken(f) \/ DataAgain(f)
         \/ (tool' = tool /\ toDevice' = toDevice)
BY DEF ToolTakes, Leaving, Serves, AckTaken, DataTaken, DataAgain

LEMMA SendsOne ==
  ASSUME Inv, NEW f \in Frame, ToolSends(<<f>>)
  PROVE  Added(toDevice, toDevice', f)
<1> HIDE DEF Frame
<1> QED BY NowFacts, FillAddsOne DEF ToolSends

LEMMA ControlFrame ==
  ASSUME NEW type \in {"Disconnect", "Ack", "Nack"}, NEW seq \in Seq4
  PROVE  LET f == FrameOf(type, seq, NoApdu)
         IN  f \in Frame /\ f.type = type /\ f.seq = seq
BY ApduType DEF FrameOf, Frame, FrameType

LEMMA ControlKeeps ==
  ASSUME Inv, NEW type \in {"Disconnect", "Ack", "Nack"}, NEW seq \in Seq4,
         ToolSends(<<FrameOf(type, seq, NoApdu)>>),
         NEW live, NEW unacked, NEW none, NEW waits, NEW send,
         OrderOf(toDevice, LastTaken, tool.requests, waits, send,
                 tl.connectedTsap = Tool, tl.seqNoRecv),
         ConnectOf(toDevice, tool.connects, live, unacked, none, waits, tool.requests),
         type = "Ack" /\ live /\ none => seq = Previous(0)
  PROVE  /\ OrderOf(toDevice', LastTaken, tool.requests, waits, send,
                    tl.connectedTsap = Tool, tl.seqNoRecv)
         /\ ConnectOf(toDevice', tool.connects, live, unacked, none, waits, tool.requests)
<1> DEFINE f == FrameOf(type, seq, NoApdu)
<1>1. f \in Frame /\ f.type = type /\ f.seq = seq
  BY ControlFrame
<1> HIDE DEF f, LastTaken
<1>2. Added(toDevice, toDevice', f) /\ toDevice \in Seq(Frame)
  BY <1>1, SendsOne, NowFacts DEF f
<1>3. OrderOf(toDevice', LastTaken, tool.requests, waits, send,
              tl.connectedTsap = Tool, tl.seqNoRecv)
  BY <1>1, <1>2, OrderAddsControl
<1>4. ConnectOf(toDevice', tool.connects, live, unacked, none, waits, tool.requests)
  BY <1>1, <1>2, ConnectAdds
<1> QED BY <1>3, <1>4

(* What the proofs of the tool's steps show.                               *)
LEMMA ToolKeeps ==
  ASSUME Inv, LineInv, tl' = tl, taken' = taken, tool'.requests = tool.requests,
         OrderOf(toDevice', LastTaken, tool'.requests, tool'.waits, tool'.send,
                 tl.connectedTsap = Tool, tl.seqNoRecv),
         ConnectInv', ToolInv'
  PROVE  LineInv'
<1>1. TakenInv' /\ LastTaken' = LastTaken
  BY SameTaken DEF LineInv
<1>2. OrderInv'
  BY <1>1 DEF OrderInv
<1> QED BY <1>1, <1>2 DEF LineInv

LEMMA LeavingLine ==
  ASSUME Inv, LineInv, tl' = tl, Leaving
  PROVE  LineInv'
<1>1. /\ tool'.role = "none" /\ tool'.waits = FALSE /\ tool'.send = 0 /\ tool'.recv = 0
      /\ tool'.acked = 0 /\ tool'.got = <<>> /\ tool'.fresh = FALSE
      /\ tool'.requests = tool.requests /\ tool'.connects = tool.connects
  BY NowFacts DEF Leaving, Gone, ToolEnd
<1>2. (tool'.role = "client") = FALSE
  BY <1>1
<1> DEFINE Order(line) == OrderOf(line, LastTaken, tool.requests, FALSE, 0,
                                  tl.connectedTsap = Tool, tl.seqNoRecv)
           Connects(line) == ConnectOf(line, tool.connects, FALSE, tool'.acked = 0,
                                       tool'.got = <<>>, FALSE, tool.requests)
<1>3. Order(toDevice) /\ Connects(toDevice)
  BY OrderWeaker, ConnectWeaker DEF LineInv, OrderInv, ConnectInv
<1>4. Order(toDevice') /\ Connects(toDevice')
  <2>1. CASE toDevice' = toDevice
    BY <1>3, <2>1
  <2>2. CASE ToolSends(<<FrameOf("Disconnect", 0, NoApdu)>>)
    <3>1. 0 \in Seq4 BY SeqType DEF Seq4
    <3> QED BY <1>3, <2>2, <3>1, ControlKeeps
  <2> QED BY <2>1, <2>2 DEF Leaving
<1>5. OrderOf(toDevice', LastTaken, tool'.requests, tool'.waits, tool'.send,
              tl.connectedTsap = Tool, tl.seqNoRecv)
  BY <1>1, <1>4
<1>6. ConnectInv'
  BY <1>1, <1>2, <1>4 DEF ConnectInv
<1>7. ToolInv'
  BY <1>1 DEF ToolInv
<1> QED BY <1>1, <1>5, <1>6, <1>7, ToolKeeps DEF Leaving

LEMMA ConnectLine ==
  ASSUME Inv, LineInv, ToolConnect
  PROVE  LineInv'
<1>1. /\ tool'.role = "client" /\ tool'.connects = tool.connects + 1
      /\ tool'.waits = FALSE /\ tool'.send = tool.send /\ tool'.recv = tool.recv
      /\ tool'.acked = tool.acked /\ tool'.got = tool.got /\ tool'.requests = tool.requests
      /\ tool.waits = FALSE /\ tool.acked = 0 /\ tool.got = <<>>
      /\ tool'.fresh = tool.fresh /\ tool.role = "none"
  BY NowFacts DEF ToolConnect, LineInv, ToolInv, ToolEnd
<1>2. tool.connects \in Nat
  BY NowFacts, ToolFields, LineAssumption
<1> DEFINE f == ConnectFrame(tool.connects + 1)
<1>3. f \in Frame /\ f.type = "Connect" /\ Number(f) = tool.connects + 1
  <2>1. tool.connects + 1 \in Nat /\ 0 \in Seq4 BY <1>2, SeqType DEF Seq4
  <2> QED BY <2>1 DEF ConnectFrame, FrameOf, Frame, FrameType, Apdu, Number
<1> HIDE DEF f
<1>4. Added(toDevice, toDevice', f) /\ toDevice \in Seq(Frame) /\ tl' = tl /\ taken' = taken
  BY <1>3, SendsOne, NowFacts DEF ToolConnect, DeviceUnchanged, f
<1>5. OrderOf(toDevice, LastTaken, tool.requests, FALSE, tool.send, tl.connectedTsap = Tool, tl.seqNoRecv)
  BY <1>1 DEF LineInv, OrderInv
<1>6. OrderOf(toDevice', LastTaken, tool'.requests, tool'.waits, tool'.send,
              tl.connectedTsap = Tool, tl.seqNoRecv)
  <2>1. OrderOf(toDevice', LastTaken, tool.requests, FALSE, tool.send,
                tl.connectedTsap = Tool, tl.seqNoRecv)
    BY <1>3, <1>4, <1>5, OrderAddsConnect
  <2> QED BY <1>1, <2>1
<1>7. \A l, u, n, w, q : ConnectOf(toDevice', tool.connects + 1, l, u, n, w, q)
  <2>1. ConnectOf(toDevice, tool.connects, tool.role = "client", tool.acked = 0,
                  tool.got = <<>>, tool.waits, tool.requests)
    BY DEF LineInv, ConnectInv
  <2> QED BY <1>2, <1>3, <1>4, <2>1, ConnectAddsConnect
<1>8. ConnectInv'
  BY <1>1, <1>7 DEF ConnectInv
<1>9. ToolInv'
  BY <1>1 DEF LineInv, ToolInv
<1> QED BY <1>1, <1>4, <1>6, <1>8, <1>9, ToolKeeps

(* A request, a new one or again.                                          *)
LEMMA RequestFrame ==
  ASSUME Inv, NEW n \in Nat
  PROVE  LET f == FrameOf("Data", tool.send, Request(n))
         IN  f \in Frame /\ f.type = "Data" /\ Number(f) = n /\ f.seq = tool.send
BY NowFacts DEF FrameOf, Frame, FrameType, Apdu, Request, Number

LEMMA RequestLine ==
  ASSUME Inv, LineInv, ToolRequest
  PROVE  LineInv' /\ LastTaken' = LastTaken
<1>1. /\ tool'.role = tool.role /\ tool'.connects = tool.connects
      /\ tool'.waits = TRUE /\ tool'.send = tool.send /\ tool'.recv = tool.recv
      /\ tool'.acked = tool.acked /\ tool'.got = tool.got
      /\ tool'.requests = tool.requests + 1 /\ tool'.fresh = tool.fresh
      /\ tool.waits = FALSE /\ tool.role = "client"
  BY NowFacts DEF ToolRequest, ToolEnd
<1>2. /\ tool.requests \in Nat /\ LastTaken \in Nat /\ LastTaken <= tool.requests
      /\ LastTaken \in 0 .. tool.requests
  BY NowFacts, LineFacts DEF LineInv, TakenInv
<1> DEFINE f == FrameOf("Data", tool.send, Request(tool.requests + 1))
<1>3. f \in Frame /\ f.type = "Data" /\ Number(f) = tool.requests + 1
  <2>1. tool.requests + 1 \in Nat BY <1>2
  <2> QED BY <2>1, RequestFrame
<1> HIDE DEF f
<1>4. Added(toDevice, toDevice', f) /\ toDevice \in Seq(Frame) /\ tl' = tl /\ taken' = taken
  BY <1>3, SendsOne, NowFacts DEF ToolRequest, DeviceUnchanged, f
<1>5. OrderOf(toDevice, LastTaken, tool.requests, FALSE, tool.send, tl.connectedTsap = Tool, tl.seqNoRecv)
  BY <1>1 DEF LineInv, OrderInv
<1>6. LastTaken' = LastTaken
  BY <1>4 DEF LastTaken
<1> HIDE DEF LastTaken
<1>7. OrderInv'
  <2>1. OrderOf(toDevice', LastTaken, tool.requests + 1, TRUE, tool.send,
                tl.connectedTsap = Tool, tl.seqNoRecv)
    BY <1>2, <1>4, <1>5, OrderAddsRequest DEF f
  <2> QED BY <1>1, <1>4, <1>6, <2>1 DEF OrderInv
<1>8. ConnectInv'
  <2>1. ConnectOf(toDevice, tool.connects, tool.role = "client", tool.acked = 0,
                  tool.got = <<>>, FALSE, tool.requests)
    BY <1>1 DEF LineInv, ConnectInv
  <2>2. ConnectOf(toDevice, tool.connects, tool.role = "client", tool.acked = 0,
                  tool.got = <<>>, tool'.waits, tool'.requests)
    BY <2>1, ConnectFirst
  <2>3. f.type # "Connect" /\ f.type # "Ack" /\ tool'.waits /\ Number(f) = tool'.requests
    BY <1>1, <1>3
  <2>4. ConnectOf(toDevice', tool.connects, tool.role = "client", tool.acked = 0,
                  tool.got = <<>>, tool'.waits, tool'.requests)
    BY <1>3, <1>4, <2>2, <2>3, ConnectAdds
  <2> QED BY <1>1, <2>4 DEF ConnectInv
<1>9. ToolInv'
  BY <1>1, <1>2 DEF LineInv, ToolInv
<1>10. TakenInv'
  <2>1. LastTaken' \in 0 .. tool'.requests
    BY <1>1, <1>2, <1>6
  <2> QED BY <1>4, <1>6, <2>1 DEF LineInv, TakenInv, TakenInOrder
<1> QED BY <1>6, <1>7, <1>8, <1>9, <1>10 DEF LineInv

LEMMA RepeatLine ==
  ASSUME Inv, LineInv, ToolRepeat
  PROVE  LineInv'
<1>1. /\ tool.requests \in Nat \ {0} /\ LastTaken \in Nat /\ LastTaken <= tool.requests
      /\ tool.waits = TRUE /\ toDevice = <<>>
  BY LineFacts, NowFacts DEF ToolRepeat
<1> DEFINE f == FrameOf("Data", tool.send, Request(tool.requests))
<1>3. f \in Frame /\ f.type = "Data" /\ Number(f) = tool.requests
  BY <1>1, RequestFrame
<1> HIDE DEF f
<1>4. /\ Added(toDevice, toDevice', f) /\ toDevice \in Seq(Frame) /\ tl' = tl /\ taken' = taken
      /\ tool' = tool
  BY <1>3, SendsOne, NowFacts DEF ToolRepeat, DeviceUnchanged, f
<1>5. OrderOf(toDevice, LastTaken, tool.requests, TRUE, tool.send, tl.connectedTsap = Tool, tl.seqNoRecv)
  BY <1>1 DEF LineInv, OrderInv
<1>6. OrderOf(toDevice', LastTaken, tool'.requests, tool'.waits, tool'.send,
              tl.connectedTsap = Tool, tl.seqNoRecv)
  <2> HIDE DEF LastTaken
  <2> QED BY <1>1, <1>4, <1>5, OrderRepeats DEF f
<1>8. ConnectInv'
  <2>2. ConnectOf(toDevice, tool.connects, tool.role = "client", tool.acked = 0,
                  tool.got = <<>>, tool.waits, tool.requests)
    BY DEF LineInv, ConnectInv
  <2>3. ConnectOf(toDevice', tool.connects, tool.role = "client", tool.acked = 0,
                  tool.got = <<>>, tool.waits, tool.requests)
    BY <1>1, <1>3, <1>4, <2>2, ConnectAdds, ZenonT(60)
  <2> QED BY <1>4, <2>3 DEF ConnectInv
<1>9. ToolInv'
  BY <1>4 DEF LineInv, ToolInv
<1> QED BY <1>4, <1>6, <1>8, <1>9, ToolKeeps

LEMMA ServesLine ==
  ASSUME Inv, LineInv, tl' = tl, taken' = taken, Serves
  PROVE  LineInv'
<1>1. /\ tool'.role = "server" /\ tool'.connects = tool.connects
      /\ tool'.waits = tool.waits /\ tool'.send = tool.send /\ tool'.recv = tool.recv
      /\ tool'.acked = tool.acked /\ tool'.got = tool.got
      /\ tool'.requests = tool.requests /\ tool'.fresh = tool.fresh /\ tool.role = "none"
  BY NowFacts DEF Serves, ToolEnd
<1>2. (tool'.role = "client") = (tool.role = "client")
  BY <1>1
<1>3. ConnectInv' /\ ToolInv'
  BY <1>1, <1>2 DEF LineInv, ConnectInv, ToolInv, Serves
<1>4. OrderOf(toDevice', LastTaken, tool'.requests, tool'.waits, tool'.send,
              tl.connectedTsap = Tool, tl.seqNoRecv)
  BY <1>1 DEF LineInv, OrderInv, Serves
<1> QED BY <1>1, <1>3, <1>4, ToolKeeps

LEMMA AckTakenFields ==
  ASSUME Inv, NEW f, AckTaken(f)
  PROVE  /\ tool'.role = tool.role /\ tool'.connects = tool.connects
         /\ tool'.waits = FALSE /\ tool'.send = IncSeqNr(tool.send) /\ tool'.recv = tool.recv
         /\ tool'.acked = tool.requests /\ tool'.got = tool.got
         /\ tool'.requests = tool.requests /\ tool'.fresh = tool.fresh
<1>1. tool' = [tool EXCEPT !.waits = FALSE, !.send = IncSeqNr(tool.send), !.acked = tool.requests]
  BY DEF AckTaken
<1> QED BY <1>1, NowFacts DEF ToolEnd

LEMMA AckTakenLine ==
  ASSUME Inv, LineInv, tl' = tl, taken' = taken, NEW f, AckTaken(f)
  PROVE  LineInv'
<1>1. tool.requests \in Nat \ {0}
  BY LineFacts DEF AckTaken
<1>2. (tool'.acked = 0) = FALSE
  BY <1>1, AckTakenFields
<1>3. OrderOf(toDevice', LastTaken, tool'.requests, tool'.waits, tool'.send,
              tl.connectedTsap = Tool, tl.seqNoRecv)
  <2>1. \A s : OrderOf(toDevice, LastTaken, tool.requests, FALSE, s,
                       tl.connectedTsap = Tool, tl.seqNoRecv)
    BY OrderWeaker DEF LineInv, OrderInv
  <2> QED BY <2>1, AckTakenFields DEF AckTaken
<1>4. ConnectInv'
  <2>1. \A w, q : ConnectOf(toDevice, tool.connects, tool.role = "client", FALSE,
                            tool.got = <<>>, w, q)
    BY ConnectWeaker DEF LineInv, ConnectInv
  <2> QED BY <1>2, <2>1, AckTakenFields DEF AckTaken, ConnectInv
<1>5. ToolInv'
  BY <1>1, AckTakenFields DEF LineInv, ToolInv, AckTaken
<1> QED BY <1>3, <1>4, <1>5, AckTakenFields, ToolKeeps

LEMMA DataTakenFields ==
  ASSUME Inv, NEW f \in Frame, DataTaken(f)
  PROVE  /\ tool'.role = tool.role /\ tool'.connects = tool.connects
         /\ tool'.waits = tool.waits /\ tool'.send = tool.send
         /\ tool'.recv = IncSeqNr(tool.recv) /\ tool'.got = Append(tool.got, f.apdu)
         /\ tool'.acked = tool.acked /\ tool'.requests = tool.requests
         /\ tool'.fresh = tool.fresh
         /\ Append(tool.got, f.apdu) # <<>>
<1>1. tool' = [tool EXCEPT !.recv = IncSeqNr(tool.recv), !.got = Append(tool.got, f.apdu)]
  BY DEF DataTaken
<1>2. tool.got \in Seq(Apdu) /\ f.apdu \in Apdu
  BY NowFacts DEF Frame
<1>3. Append(tool.got, f.apdu) # <<>>
  <2> HIDE DEF Apdu
  <2> QED BY <1>2, AppendProperties
<1> QED BY <1>1, <1>3, NowFacts DEF ToolEnd

LEMMA DataTakenLine ==
  ASSUME Inv, LineInv, tl' = tl, taken' = taken, NEW f \in Frame, DataTaken(f)
  PROVE  LineInv'
<1>1. f.seq \in Seq4 /\ (tool'.got = <<>>) = FALSE
  BY DataTakenFields DEF Frame
<1>2. /\ OrderOf(toDevice, LastTaken, tool.requests, tool.waits, tool.send,
                 tl.connectedTsap = Tool, tl.seqNoRecv)
      /\ ConnectOf(toDevice, tool.connects, tool.role = "client", tool.acked = 0, FALSE,
                   tool.waits, tool.requests)
  BY ConnectWeaker DEF LineInv, OrderInv, ConnectInv
<1>3. /\ OrderOf(toDevice', LastTaken, tool.requests, tool.waits, tool.send,
                 tl.connectedTsap = Tool, tl.seqNoRecv)
      /\ ConnectOf(toDevice', tool.connects, tool.role = "client", tool.acked = 0, FALSE,
                   tool.waits, tool.requests)
  BY <1>1, <1>2, ControlKeeps DEF DataTaken
<1>4. OrderOf(toDevice', LastTaken, tool'.requests, tool'.waits, tool'.send,
              tl.connectedTsap = Tool, tl.seqNoRecv)
  BY <1>3, DataTakenFields
<1>5. ConnectInv'
  BY <1>1, <1>3, DataTakenFields DEF ConnectInv
<1>6. ToolInv'
  BY <1>1, DataTakenFields DEF LineInv, ToolInv, DataTaken
<1> QED BY <1>4, <1>5, <1>6, DataTakenFields, ToolKeeps

LEMMA DataAgainLine ==
  ASSUME Inv, LineInv, tl' = tl, taken' = taken, NEW f \in Frame, DataAgain(f)
  PROVE  LineInv'
<1> DEFINE type == IF f.seq = Previous(tool.recv) THEN "Ack" ELSE "Nack"
<1>1. /\ f.seq \in Seq4 /\ type \in {"Disconnect", "Ack", "Nack"}
      /\ type = "Ack" /\ tool.got = <<>> => f.seq = Previous(0)
  BY DEF Frame, LineInv, ToolInv
<1>2. /\ OrderOf(toDevice, LastTaken, tool.requests, tool.waits, tool.send,
                 tl.connectedTsap = Tool, tl.seqNoRecv)
      /\ ConnectOf(toDevice, tool.connects, tool.role = "client", tool.acked = 0, tool.got = <<>>,
                   tool.waits, tool.requests)
  BY DEF LineInv, OrderInv, ConnectInv
<1>3. ToolSends(<<FrameOf(type, f.seq, NoApdu)>>) /\ tool' = tool
  BY DEF DataAgain
<1> HIDE DEF type
<1>4. /\ OrderOf(toDevice', LastTaken, tool.requests, tool.waits, tool.send,
                 tl.connectedTsap = Tool, tl.seqNoRecv)
      /\ ConnectOf(toDevice', tool.connects, tool.role = "client", tool.acked = 0, tool.got = <<>>,
                   tool.waits, tool.requests)
  BY <1>1, <1>2, <1>3, ControlKeeps, ZenonT(60)
<1>5. OrderOf(toDevice', LastTaken, tool'.requests, tool'.waits, tool'.send,
              tl.connectedTsap = Tool, tl.seqNoRecv)
  BY <1>3, <1>4
<1>6. ConnectInv'
  BY <1>3, <1>4 DEF ConnectInv
<1>7. ToolInv'
  BY <1>3 DEF LineInv, ToolInv
<1> QED BY <1>3, <1>5, <1>6, <1>7, ToolKeeps

LEMMA ShiftLine ==
  ASSUME Inv, LineInv, tl' = tl, taken' = taken, tool' = tool,
         NEW k \in Nat, Shifted(toDevice, toDevice', k)
  PROVE  LineInv'
<1>1. OrderOf(toDevice', LastTaken, tool'.requests, tool'.waits, tool'.send,
              tl.connectedTsap = Tool, tl.seqNoRecv)
  <2>1. OrderOf(toDevice, LastTaken, tool.requests, tool.waits, tool.send,
                tl.connectedTsap = Tool, tl.seqNoRecv)
    BY DEF LineInv, OrderInv
  <2>2. OrderOf(toDevice', LastTaken, tool.requests, tool.waits, tool.send,
                tl.connectedTsap = Tool, tl.seqNoRecv)
    BY <2>1, OrderShifts
  <2> QED BY <2>2
<1>2. ConnectInv'
  <2>1. ConnectOf(toDevice, tool.connects, tool.role = "client", tool.acked = 0,
                  tool.got = <<>>, tool.waits, tool.requests)
    BY DEF LineInv, ConnectInv
  <2>2. ConnectOf(toDevice', tool.connects, tool.role = "client", tool.acked = 0,
                  tool.got = <<>>, tool.waits, tool.requests)
    BY <2>1, ConnectShifts
  <2> QED BY <2>2 DEF ConnectInv
<1>3. ToolInv'
  BY DEF LineInv, ToolInv
<1> QED BY <1>1, <1>2, <1>3, ToolKeeps

LEMMA ReceiveLine ==
  ASSUME Inv, LineInv, ToolReceive
  PROVE  LineInv'
<1> DEFINE f == Head(toTool)
<1>1. f \in Frame /\ ToolTakes(f) /\ tl' = tl /\ taken' = taken
  BY NowFacts, LineType DEF ToolReceive, DeviceUnchanged
<1> HIDE DEF f
<1>2. 0 \in Nat /\ Shifted(toDevice, toDevice, 0)
  BY NowFacts, TailShifts
<1>3. CASE tool' = tool /\ toDevice' = toDevice
  <2>1. Shifted(toDevice, toDevice', 0)
    BY <1>2, <1>3
  <2> QED BY <1>1, <1>2, <1>3, <2>1, ShiftLine
<1> QED BY <1>1, <1>3, ReceiveSteps, LeavingLine, ServesLine, AckTakenLine, DataTakenLine,
           DataAgainLine

LEMMA LoseLine ==
  ASSUME Inv, LineInv, Lose
  PROVE  LineInv'
<1>1. tl' = tl /\ taken' = taken /\ tool' = tool
  BY DEF Lose, DeviceUnchanged
<1>2. 0 \in Nat /\ 1 \in Nat
  OBVIOUS
<1>3. Shifted(toDevice, toDevice', 0) \/ Shifted(toDevice, toDevice', 1)
  BY NowFacts, TailShifts DEF Lose
<1> QED BY <1>1, <1>2, <1>3, ShiftLine

LEMMA NextLine ==
  ASSUME Inv, LineInv, [Next]_vars
  PROVE  LineInv'
<1>1. CASE \E answers, repeated \in BOOLEAN : Arrive(answers, repeated)
  BY <1>1, ArriveSteps, ArrivesLine
<1>2. CASE \/ \E type \in OtherTypes : ArriveOther(type)
           \/ \E status \in BOOLEAN : Confirm(status)
           \/ Loop
  BY <1>2, OtherSteps, PassesLine
<1>3. CASE \E p \in Partners, con \in {"later", "sent", "failed"} : AskRestart(p, con)
  BY <1>3, RestartSteps, PassesLine
<1>4. CASE Tick \/ UNCHANGED vars
  BY <1>4, TickSteps, StillLine
<1>5. CASE ToolConnect \/ ToolRequest \/ ToolRepeat
  BY <1>5, ConnectLine, RequestLine, RepeatLine
<1>6. CASE ToolEnds
  <2>1. Leaving /\ tl' = tl
    BY <1>6 DEF ToolEnds, Leaving, DeviceUnchanged
  <2> QED BY <2>1, LeavingLine
<1>7. CASE ToolReceive \/ Lose
  BY <1>7, ReceiveLine, LoseLine
<1> QED BY <1>1, <1>2, <1>3, <1>4, <1>5, <1>6, <1>7 DEF Next

LEMMA InitLine == Init => LineInv
<1> SUFFICES ASSUME Init PROVE LineInv
  OBVIOUS
<1>1. /\ toDevice = <<>> /\ taken = <<>> /\ tool.role = "none" /\ tool.waits = FALSE
      /\ tool.acked = 0 /\ tool.send = 0 /\ tool.got = <<>> /\ tool.recv = 0
      /\ tool.requests = 0 /\ tool.fresh = FALSE
  BY DEF Init, InitTool
<1>2. DOMAIN <<>> = {} /\ LastTaken = 0
  BY <1>1 DEF LastTaken
<1>3. TakenInv /\ ToolInv
  BY <1>1, <1>2 DEF TakenInv, ToolInv, TakenInOrder
<1>4. DataAt(toDevice) = {} /\ AckAt(toDevice) = {} /\ ConnectAt(toDevice) = {}
      /\ DOMAIN toDevice = {}
  BY <1>1, <1>2 DEF DataAt, AckAt, ConnectAt
<1>5. OrderInv
  BY <1>1, <1>4 DEF OrderInv, OrderOf
<1>6. ConnectInv
  BY <1>4 DEF ConnectInv, ConnectOf
<1> QED BY <1>3, <1>5, <1>6 DEF LineInv

THEOREM LineInvariant == Spec => [](Inv /\ LineInv)
<1>1. Inv /\ LineInv /\ [Next]_vars => (Inv /\ LineInv)'
  BY NextInv, NextLine
<1> QED BY InitInv, InitLine, <1>1, PTL DEF Spec

(* The application gets the tool's requests once each and in order: a      *)
(* number is taken again only for a request that was not taken yet, even   *)
(* over connections that ended and began anew (A2, A3, _seqNoRecv).        *)
THEOREM TakenOrdered == Spec => []TakenInOrder
<1>1. LineInv => TakenInOrder
  BY DEF LineInv, TakenInv
<1> QED BY LineInvariant, <1>1, PTL

-----------------------------------------------------------------------------
(* Acknowledges and answers on a line.  S has what was added.              *)
Grown(line, new, S) ==
  \A i \in DOMAIN new :
    /\ i \in Nat \ {0}
    /\ \/ i \in DOMAIN line /\ i < Len(line) + 1 /\ new[i] = line[i]
       \/ i >= Len(line) + 1 /\ (new[i].type \in {"Ack", "Data"} => new[i] \in S)

LEMMA HandleGrows ==
  ASSUME Inv, NEW r \in Layer, Handle(r), NEW S, Says(r.sent[Tool], S)
  PROVE  Grown(toTool, toTool', S)
<1> DEFINE frames == r.sent[Tool]
<1>1. toTool \in Seq(Frame) /\ frames \in Seq(Frame) /\ toTool' = Fill(toTool, frames)
  BY NowFacts, HandleFields, SaidType
<1>2. \A k \in DOMAIN frames : frames[k].type \in {"Ack", "Data"} => frames[k] \in S
  BY DEF Says
<1> HIDE DEF frames
<1>3. AddedAll(toTool, toTool', frames)
  BY <1>1, FillAdds
<1> QED BY <1>2, <1>3 DEF AddedAll, Grown

LEMMA AddedGrows ==
  ASSUME NEW line \in Seq(Frame), NEW new, NEW f, Added(line, new, f)
  PROVE  Grown(line, new, {f})
<1>1. Len(line) \in Nat
  BY LineDomain
<1>2. f \in {f} /\ Len(line) + 1 >= Len(line) + 1
  BY <1>1
<1> QED BY <1>2 DEF Added, Grown

LEMMA ShiftedAt ==
  ASSUME NEW line, NEW new, NEW k \in Nat, Shifted(line, new, k)
  PROVE  /\ \A i \in DataAt(new) : i \in Nat /\ i + k \in DataAt(line) /\ new[i] = line[i + k]
         /\ \A i \in AckAt(new) : i \in Nat /\ i + k \in AckAt(line) /\ new[i] = line[i + k]
         /\ \A i \in ConnectAt(new) :
              i \in Nat \ {0} /\ i + k \in ConnectAt(line) /\ new[i] = line[i + k]
         /\ \A i, j \in Nat : i < j => i + k < j + k
BY DEF Shifted, DataAt, ConnectAt, AckAt

LEMMA GrownAt ==
  ASSUME NEW line \in Seq(Frame), NEW new, NEW S, Grown(line, new, S)
  PROVE  /\ \A i \in DataAt(new) :
              \/ i \in DataAt(line) /\ new[i] = line[i]
              \/ new[i] \in S /\ new[i].type = "Data"
                   /\ \A j \in DataAt(new) : i < j => new[j] \in S /\ new[j].type = "Data"
         /\ \A i \in AckAt(new) :
              \/ i \in AckAt(line) /\ new[i] = line[i]
              \/ new[i] \in S /\ new[i].type = "Ack"
                   /\ \A j \in AckAt(new) : i < j => new[j] \in S /\ new[j].type = "Ack"
<1>1. Len(line) \in Nat
  BY LineDomain
<1>2. ASSUME NEW i \in DOMAIN new, new[i].type \in {"Ack", "Data"}
      PROVE  /\ i \in Nat
             /\ \/ i \in DOMAIN line /\ new[i] = line[i] /\ i < Len(line) + 1
                \/ new[i] \in S /\ i >= Len(line) + 1
  BY <1>2 DEF Grown
<1>3. ASSUME NEW i \in DataAt(new)
      PROVE  \/ i \in DataAt(line) /\ new[i] = line[i]
             \/ new[i] \in S /\ new[i].type = "Data"
                  /\ \A j \in DataAt(new) : i < j => new[j] \in S /\ new[j].type = "Data"
  <2>1. i \in DOMAIN new /\ new[i].type = "Data"
    BY DEF DataAt
  <2>2. CASE i \in DOMAIN line /\ new[i] = line[i]
    BY <2>1, <2>2 DEF DataAt
  <2>3. CASE new[i] \in S /\ i \in Nat /\ i >= Len(line) + 1
    <3>1. ASSUME NEW j \in DataAt(new), i < j PROVE new[j] \in S /\ new[j].type = "Data"
      <4>1. j \in DOMAIN new /\ new[j].type = "Data"
        BY DEF DataAt
      <4>2. j \in Nat
        BY <1>2, <4>1
      <4>3. ~(j < Len(line) + 1)
        BY <1>1, <2>3, <3>1, <4>2
      <4> QED BY <1>2, <4>1, <4>3
    <3> QED BY <2>1, <2>3, <3>1
  <2> QED BY <1>2, <2>1, <2>2, <2>3
<1>4. ASSUME NEW i \in AckAt(new)
      PROVE  \/ i \in AckAt(line) /\ new[i] = line[i]
             \/ new[i] \in S /\ new[i].type = "Ack"
                  /\ \A j \in AckAt(new) : i < j => new[j] \in S /\ new[j].type = "Ack"
  <2>1. i \in DOMAIN new /\ new[i].type = "Ack"
    BY DEF AckAt
  <2>2. CASE i \in DOMAIN line /\ new[i] = line[i]
    BY <2>1, <2>2 DEF AckAt
  <2>3. CASE new[i] \in S /\ i \in Nat /\ i >= Len(line) + 1
    <3>1. ASSUME NEW j \in AckAt(new), i < j PROVE new[j] \in S /\ new[j].type = "Ack"
      <4>1. j \in DOMAIN new /\ new[j].type = "Ack"
        BY DEF AckAt
      <4>2. j \in Nat
        BY <1>2, <4>1
      <4>3. ~(j < Len(line) + 1)
        BY <1>1, <2>3, <3>1, <4>2
      <4> QED BY <1>2, <4>1, <4>3
    <3> QED BY <2>1, <2>3, <3>1
  <2> QED BY <1>2, <2>1, <2>2, <2>3
<1> QED BY <1>3, <1>4

(* The acknowledges of one who waits for that of send: there may be some   *)
(* of the frame before; one of send there is only when it was taken, and   *)
(* then no other comes after it.                                           *)
AcksOf(line, send, done) ==
  /\ \A i \in AckAt(line) : line[i].seq = Previous(send) \/ (line[i].seq = send /\ done)
  /\ \A i, j \in AckAt(line) : i < j /\ line[i].seq = send => line[j].seq = send

LEMMA AcksNone ==
  ASSUME NEW line, AckAt(line) = {}
  PROVE  \A send, done : AcksOf(line, send, done)
BY DEF AcksOf

LEMMA AcksShift ==
  ASSUME NEW line, NEW new, NEW k \in Nat, Shifted(line, new, k), NEW send, NEW done,
         AcksOf(line, send, done)
  PROVE  AcksOf(new, send, done)
<1> HIDE DEF AckAt
<1> QED BY ShiftedAt DEF AcksOf

LEMMA AcksWeaker ==
  ASSUME NEW line, NEW send, NEW done, NEW more, AcksOf(line, send, done), done => more
  PROVE  AcksOf(line, send, more)
BY DEF AcksOf

LEMMA AcksGrow ==
  ASSUME NEW line \in Seq(Frame), NEW new, NEW S, Grown(line, new, S),
         NEW send \in Seq4, NEW done, AcksOf(line, send, done),
         \A f \in S : f.type = "Ack" =>
           (f.seq = send /\ done) \/ (f.seq = Previous(send) /\ ~done)
  PROVE  AcksOf(new, send, done)
<1>1. Previous(send) # send
  BY SeqMoves
<1>2. \A i \in AckAt(new) :
        \/ i \in AckAt(line) /\ new[i] = line[i]
        \/ new[i] \in S /\ new[i].type = "Ack"
             /\ \A j \in AckAt(new) : i < j => new[j] \in S /\ new[j].type = "Ack"
  BY GrownAt
<1> HIDE DEF AckAt
<1>3. \A i \in AckAt(new) : new[i].seq = Previous(send) \/ (new[i].seq = send /\ done)
  BY <1>2 DEF AcksOf
<1>4. ASSUME NEW i \in AckAt(new), NEW j \in AckAt(new), i < j, new[i].seq = send
      PROVE  new[j].seq = send
  <2>1. done
    BY <1>1, <1>3, <1>4
  <2>2. CASE j \in AckAt(line) /\ new[j] = line[j] /\ i \in AckAt(line) /\ new[i] = line[i]
    BY <1>4, <2>2 DEF AcksOf
  <2>3. CASE new[j] \in S /\ new[j].type = "Ack"
    BY <2>1, <2>3
  <2> QED BY <1>2, <1>4, <2>2, <2>3
<1> QED BY <1>3, <1>4 DEF AcksOf

LEMMA AcksMove ==
  ASSUME NEW line, \A i \in DOMAIN line : i \in Nat \ {0},
         NEW send \in Seq4, NEW done, AcksOf(line, send, done),
         1 \in AckAt(line), line[1].seq = send
  PROVE  \A more : AcksOf(line, IncSeqNr(send), more)
<1>1. Previous(IncSeqNr(send)) = send /\ IncSeqNr(send) # send
  BY SeqMoves
<1>2. \A i \in AckAt(line) : i = 1 \/ 1 < i
  BY DEF AckAt
<1> HIDE DEF AckAt
<1>3. \A i \in AckAt(line) : line[i].seq = send
  BY <1>2 DEF AcksOf
<1> QED BY <1>1, <1>3 DEF AcksOf

(* The answers for one who expects recv: repetitions of the one before, or *)
(* the next, which is among P, and then no other comes after it.           *)
AnswersOf(line, recv, P) ==
  /\ \A i \in DataAt(line) :
       line[i].seq = Previous(recv) \/ (line[i].seq = recv /\ line[i].apdu \in P)
  /\ \A i, j \in DataAt(line) :
       i < j /\ line[i].seq = recv => line[j].seq = recv /\ line[j].apdu = line[i].apdu

LEMMA AnswersNone ==
  ASSUME NEW line, DataAt(line) = {}
  PROVE  \A recv, P : AnswersOf(line, recv, P)
BY DEF AnswersOf

LEMMA AnswersShift ==
  ASSUME NEW line, NEW new, NEW k \in Nat, Shifted(line, new, k), NEW recv, NEW P,
         AnswersOf(line, recv, P)
  PROVE  AnswersOf(new, recv, P)
<1> HIDE DEF DataAt
<1> QED BY ShiftedAt DEF AnswersOf

LEMMA AnswersWeaker ==
  ASSUME NEW line, NEW recv, NEW P, NEW Q, AnswersOf(line, recv, P), P \subseteq Q
  PROVE  AnswersOf(line, recv, Q)
BY DEF AnswersOf

LEMMA AnswersGrow ==
  ASSUME NEW line \in Seq(Frame), NEW new, NEW S, Grown(line, new, S),
         NEW recv \in Seq4, NEW P, AnswersOf(line, recv, P),
         \A f \in S : f.type = "Data" =>
           \/ f.seq = recv /\ f.apdu \in P /\ P \subseteq {f.apdu}
           \/ f.seq = Previous(recv) /\ P = {}
  PROVE  AnswersOf(new, recv, P)
<1>1. Previous(recv) # recv
  BY SeqMoves
<1>2. \A i \in DataAt(new) :
        \/ i \in DataAt(line) /\ new[i] = line[i]
        \/ new[i] \in S /\ new[i].type = "Data"
             /\ \A j \in DataAt(new) : i < j => new[j] \in S /\ new[j].type = "Data"
  BY GrownAt
<1> HIDE DEF DataAt
<1>3. \A i \in DataAt(new) : 
        new[i].seq = Previous(recv) \/ (new[i].seq = recv /\ new[i].apdu \in P)
  BY <1>2 DEF AnswersOf
<1>4. ASSUME NEW i \in DataAt(new), NEW j \in DataAt(new), i < j, new[i].seq = recv
      PROVE  new[j].seq = recv /\ new[j].apdu = new[i].apdu
  <2>1. new[i].apdu \in P
    BY <1>1, <1>3, <1>4
  <2>2. CASE j \in DataAt(line) /\ new[j] = line[j] /\ i \in DataAt(line) /\ new[i] = line[i]
    BY <1>4, <2>2 DEF AnswersOf
  <2>3. CASE new[j] \in S /\ new[j].type = "Data"
    BY <2>1, <2>3
  <2> QED BY <1>2, <1>4, <2>2, <2>3
<1> QED BY <1>3, <1>4 DEF AnswersOf

LEMMA AnswersMove ==
  ASSUME NEW line, \A i \in DOMAIN line : i \in Nat \ {0},
         NEW recv \in Seq4, NEW P, AnswersOf(line, recv, P),
         1 \in DataAt(line), line[1].seq = recv
  PROVE  \A Q : AnswersOf(line, IncSeqNr(recv), Q)
<1>1. Previous(IncSeqNr(recv)) = recv /\ IncSeqNr(recv) # recv
  BY SeqMoves
<1>2. \A i \in DataAt(line) : i = 1 \/ 1 < i
  BY DEF DataAt
<1> HIDE DEF DataAt
<1>3. \A i \in DataAt(line) : line[i].seq = recv
  BY <1>2 DEF AnswersOf
<1> QED BY <1>1, <1>3 DEF AnswersOf

-----------------------------------------------------------------------------
(* A fresh connection.  Nothing in the device or on the lines is of an     *)
(* earlier one, except repetitions of the frame before the first; as long  *)
(* as its T_Connect is on the line, it can arrive once more, nothing was   *)
(* sent to the tool.                                                       *)
Ours == tl.connectedTsap = Tool
Waiting == tl.state = "OpenWait"

Untouched ==
  /\ tool.acked = 0 /\ tool.got = <<>>
  /\ AckAt(toTool) = {} /\ DataAt(toTool) = {}
  /\ tl.saved = NoApdu /\ ~Waiting

FreshCore ==
  /\ Straight(tl)
  /\ \A c \in ConnectAt(toDevice) : c = 1 /\ Number(toDevice[c]) = tool.connects /\ Untouched

(* The requests.  Unless the one the tool waits for was taken, its number  *)
(* is the expected one.                                                    *)
LastWasTaken == tool.waits /\ LastTaken = tool.requests

RequestCore ==
  /\ tool.acked # 0 => \E i \in DOMAIN taken : taken[i] = Request(tool.acked)
  /\ Ours /\ ~LastWasTaken => tl.seqNoRecv = tool.send
  /\ \A i \in DataAt(toDevice) :
       \/ Number(toDevice[i]) <= LastTaken
       \/ tool.waits /\ Number(toDevice[i]) = tool.requests
  /\ AcksOf(toTool, tool.send, LastWasTaken)

(* The answers.  Those the tool does not have yet: the one the device      *)
(* waits with, or of a connection that is gone; and the saved one, that    *)
(* was not sent yet.                                                       *)
Issued(apdu) == apdu.kind = "answer" /\ apdu.n <= LastTaken
Got(apdu) == \E i \in DOMAIN tool.got : tool.got[i] = apdu
GotLast == Waiting /\ tl.seqNoSend = Previous(tool.recv)

Pending ==
  {a \in Apdu :
     /\ Issued(a) /\ ~Got(a) /\ a # tl.saved
     /\ Ours => Waiting /\ tl.seqNoSend = tool.recv /\ a = tl.savedFrame}

GotCore ==
  /\ \A i \in DOMAIN tool.got : Issued(tool.got[i])
  /\ \A i, j \in DOMAIN tool.got : tool.got[i] = tool.got[j] => i = j
  /\ tl.saved # NoApdu => Issued(tl.saved) /\ ~Got(tl.saved)

AnswerCore ==
  /\ GotCore
  /\ Ours /\ ~GotLast =>
       tl.seqNoSend = tool.recv /\ (Waiting => tl.savedFrame \in Pending)
  /\ AnswersOf(toTool, tool.recv, Pending)
  /\ Ours => AcksOf(toDevice, tl.seqNoSend, GotLast)

Core == FreshCore /\ RequestCore /\ AnswerCore

LEMMA CoreFacts ==
  ASSUME Inv, LineInv
  PROVE  /\ AtRest(tl) /\ tool.send \in Seq4 /\ tool.recv \in Seq4
         /\ tl.seqNoSend \in Seq4 /\ tl.seqNoRecv \in Seq4
         /\ tl.saved \in Apdu /\ tl.savedFrame \in Apdu
         /\ toDevice \in Seq(Frame) /\ toTool \in Seq(Frame)
         /\ LastTaken \in Nat /\ tool.requests \in Nat
         /\ \A i \in DOMAIN toDevice : i \in Nat \ {0}
         /\ \A i \in DOMAIN toTool : i \in Nat \ {0}
         /\ toDevice # <<>> => 1 \in DOMAIN toDevice /\ Head(toDevice) = toDevice[1]
         /\ toTool # <<>> => 1 \in DOMAIN toTool /\ Head(toTool) = toTool[1]
         /\ Tool # NotConnected /\ Tool # NoAddress
<1>1. AtRest(tl) /\ toDevice \in Seq(Frame) /\ toTool \in Seq(Frame)
  BY NowFacts
<1>2. tl \in Layer
  BY <1>1, RestFacts
<1>3. tl.saved \in Apdu /\ tl.savedFrame \in Apdu
  BY <1>2, ViewTypes
<1> HIDE DEF Frame
<1>4. /\ \A i \in DOMAIN toDevice : i \in Nat \ {0}
      /\ toDevice # <<>> => 1 \in DOMAIN toDevice /\ Head(toDevice) = toDevice[1]
  BY <1>1, LineDomain
<1>5. /\ \A i \in DOMAIN toTool : i \in Nat \ {0}
      /\ toTool # <<>> => 1 \in DOMAIN toTool /\ Head(toTool) = toTool[1]
  BY <1>1, LineDomain
<1> QED BY <1>1, <1>3, <1>4, <1>5, NowFacts, LineFacts, RestFacts

(* Nothing of the connection was sent while its T_Connect is on the line.  *)
LEMMA ConnectStays ==
  ASSUME Inv, FreshCore, NEW k \in Nat, Shifted(toDevice, toDevice', k)
  PROVE  \A c \in ConnectAt(toDevice') :
           /\ c = 1 /\ 1 \in ConnectAt(toDevice) /\ toDevice'[c] = toDevice[1] /\ Untouched
           /\ Number(toDevice'[c]) = tool.connects
<1>1. SUFFICES ASSUME NEW c \in ConnectAt(toDevice')
               PROVE  /\ c = 1 /\ 1 \in ConnectAt(toDevice) /\ toDevice'[c] = toDevice[1]
                      /\ Untouched /\ Number(toDevice'[c]) = tool.connects
  OBVIOUS
<1>2. c \in Nat \ {0} /\ c + k \in ConnectAt(toDevice) /\ toDevice'[c] = toDevice[c + k]
  BY ShiftedAt
<1> HIDE DEF Number, Untouched, ConnectAt
<1>3. c + k = 1 /\ Untouched /\ Number(toDevice[c + k]) = tool.connects
  BY <1>2 DEF FreshCore
<1>4. c = 1 /\ k = 0
  BY <1>2, <1>3
<1> QED BY <1>2, <1>3, <1>4

LEMMA DeviceFresh ==
  ASSUME Inv, LineInv, FreshCore, SameEnd, NEW r \in Layer, Handle(r),
         NEW k \in Nat, Shifted(toDevice, toDevice', k),
         \/ toDevice # <<>> /\ Arrives(tl, r, Head(toDevice))
         \/ Passes(tl, r)
  PROVE  FreshCore'
<1>0. AtRest(tl) /\ Straight(tl)
  BY CoreFacts DEF FreshCore
<1>1. Straight(r)
  BY <1>0 DEF Arrives, Passes, Mute, Away, AcksAgain, Repeats, Takes, Settles, SendsSaved, Opens,
              SameCore, SameView, Straight
<1>2. Straight(tl)'
  BY <1>1, HandleFields DEF Straight
<1>3. ASSUME 1 \in ConnectAt(toDevice), Untouched
      PROVE  Says(r.sent[Tool], {}) /\ r.saved = NoApdu /\ r.state # "OpenWait"
  <2>1. toDevice # <<>> => Head(toDevice).type = "Connect"
    BY <1>3, CoreFacts DEF ConnectAt
  <2>2. tl.saved = NoApdu /\ tl.state # "OpenWait"
    BY <1>3 DEF Untouched, Waiting
  <2>3. Mute(tl, r) \/ Away(tl, r) \/ Opens(tl, r)
    BY <2>1, <2>2 DEF Arrives, Passes, Repeats, SendsSaved
  <2> QED BY <1>0, <2>2, <2>3 DEF Mute, Away, Opens, SameCore, SameView
<1>4. ASSUME NEW c \in ConnectAt(toDevice')
      PROVE  c = 1 /\ Number(toDevice'[c]) = tool'.connects /\ Untouched'
  <2>1. /\ c = 1 /\ 1 \in ConnectAt(toDevice) /\ Untouched
        /\ Number(toDevice'[c]) = tool.connects
    BY <1>4, ConnectStays
  <2>2. Says(r.sent[Tool], {}) /\ r.saved = NoApdu /\ r.state # "OpenWait"
    BY <1>3, <2>1
  <2>3. Grown(toTool, toTool', {})
    BY <2>2, HandleGrows
  <2>4. AckAt(toTool) = {} /\ DataAt(toTool) = {}
    BY <2>1 DEF Untouched
  <2>5. AckAt(toTool') = {} /\ DataAt(toTool') = {}
    <3> HIDE DEF AckAt, DataAt
    <3> QED BY <2>3, <2>4, CoreFacts, GrownAt
  <2>6. tl'.saved = NoApdu /\ tl'.state # "OpenWait"
    BY <2>2, HandleFields
  <2> QED BY <2>1, <2>5, <2>6 DEF Untouched, Waiting, SameEnd
<1> QED BY <1>2, <1>4 DEF FreshCore

-----------------------------------------------------------------------------
(* The requests, and what the device does.                                 *)

LEMMA RequestQuiet ==
  ASSUME Inv, LineInv, RequestCore, SameEnd, taken' = taken, LastTaken' = LastTaken,
         NEW k \in Nat, Shifted(toDevice, toDevice', k),
         Ours' => Ours /\ tl'.seqNoRecv = tl.seqNoRecv,
         NEW S, Grown(toTool, toTool', S),
         \A f \in S : f.type = "Ack" =>
           \/ f.seq = tool.send /\ LastWasTaken
           \/ f.seq = Previous(tool.send) /\ ~LastWasTaken
  PROVE  RequestCore'
<1>1. LastWasTaken' = LastWasTaken
  BY DEF LastWasTaken, SameEnd
<1>2. AcksOf(toTool', tool.send, LastWasTaken)
  <2> HIDE DEF LastWasTaken
  <2> QED BY CoreFacts, AcksGrow DEF RequestCore
<1>3. \A i \in DataAt(toDevice') :
        Number(toDevice'[i]) <= LastTaken \/ (tool.waits /\ Number(toDevice'[i]) = tool.requests)
  <2> HIDE DEF DataAt, Number
  <2> QED BY ShiftedAt DEF RequestCore
<1> QED BY <1>1, <1>2, <1>3 DEF RequestCore, SameEnd

LEMMA TakenStays ==
  ASSUME Inv, NEW r \in Layer, Handle(r)
  PROVE  \A i \in DOMAIN taken : i \in DOMAIN taken' /\ taken'[i] = taken[i]
<1>1. taken \in Seq(Apdu) /\ r.passed \in Seq(Apdu)
  BY NowFacts DEF Layer
<1>2. taken' = taken \/ taken' = taken \o r.passed
  BY HandleFields
<1> DEFINE more == r.passed
<1> HIDE DEF Apdu, more
<1>3. /\ Len(taken) \in Nat /\ Len(more) \in Nat /\ DOMAIN taken = 1 .. Len(taken)
      /\ Len(taken \o more) = Len(taken) + Len(more)
      /\ DOMAIN (taken \o more) = 1 .. Len(taken \o more)
      /\ \A i \in 1 .. Len(taken) + Len(more) :
           (taken \o more)[i] = IF i <= Len(taken) THEN taken[i] ELSE more[i - Len(taken)]
  BY <1>1, ConcatProperties DEF more
<1> QED BY <1>2, <1>3 DEF more

LEMMA RequestTakes ==
  ASSUME Inv, LineInv, RequestCore, SameEnd, NEW r \in Layer, Handle(r),
         NEW k \in Nat, Shifted(toDevice, toDevice', k), toDevice # <<>>,
         Head(toDevice).type = "Data", Takes(tl, r, Head(toDevice).apdu),
         LastTaken' = Number(Head(toDevice)), LastTaken' > LastTaken
  PROVE  RequestCore'
<1> DEFINE n == Number(Head(toDevice))
<1>1. 1 \in DataAt(toDevice) /\ n = Number(toDevice[1])
  BY CoreFacts DEF DataAt
<1>2. n \in 1 .. tool.requests /\ LastTaken \in Nat /\ tool.requests \in Nat
  BY <1>1, CoreFacts DEF LineInv, OrderInv, OrderOf
<1> HIDE DEF n
<1>3. LastTaken' = n /\ n > LastTaken
  BY DEF n
<1>4. tool.waits /\ n = tool.requests
  BY <1>1, <1>2, <1>3 DEF RequestCore
<1>5. ~LastWasTaken /\ LastWasTaken'
  BY <1>2, <1>3, <1>4 DEF LastWasTaken, SameEnd
<1>6. Ours /\ tl.seqNoRecv = tool.send
  BY <1>5 DEF RequestCore, Takes, Ours
<1> DEFINE S == {AckOf(tl.seqNoRecv), DataOf(tl.seqNoSend, r.savedFrame)}
<1>7. Grown(toTool, toTool', S)
  <2>1. Says(r.sent[Tool], S)
    BY DEF Takes, Says
  <2> QED BY <2>1, HandleGrows
<1>8. \A f \in S : f.type = "Ack" => f.seq = tool.send
  BY <1>6 DEF AckOf, DataOf, FrameOf
<1> HIDE DEF S
<1>9. AcksOf(toTool', tool.send, TRUE)
  <2>1. AcksOf(toTool, tool.send, TRUE)
    BY DEF RequestCore, AcksOf
  <2> QED BY <1>7, <1>8, <2>1, CoreFacts, AcksGrow
<1>10. AcksOf(toTool', tool.send, LastWasTaken')
  <2>1. LastWasTaken' = TRUE BY <1>5 DEF LastWasTaken
  <2> QED BY <1>9, <2>1
<1>11. \A i \in DataAt(toDevice') :
         Number(toDevice'[i]) <= n \/ (tool.waits /\ Number(toDevice'[i]) = tool.requests)
  <2>1. SUFFICES ASSUME NEW i \in DataAt(toDevice')
                 PROVE  Number(toDevice'[i]) <= n
    OBVIOUS
  <2>2. i + k \in DataAt(toDevice) /\ toDevice'[i] = toDevice[i + k]
    BY ShiftedAt
  <2>3. Number(toDevice'[i]) \in 1 .. tool.requests
    <3> HIDE DEF DataAt, Number
    <3> QED BY <2>2 DEF LineInv, OrderInv, OrderOf
  <2> QED BY <1>2, <1>4, <2>3
<1>12. tool.acked # 0 => \E i \in DOMAIN taken' : taken'[i] = Request(tool.acked)
  BY TakenStays DEF RequestCore
<1> QED BY <1>3, <1>5, <1>10, <1>11, <1>12 DEF RequestCore, SameEnd

LEMMA RequestOpens ==
  ASSUME Inv, LineInv, FreshCore, RequestCore, SameEnd, NEW r \in Layer, Handle(r),
         taken' = taken, LastTaken' = LastTaken,
         NEW k \in Nat, Shifted(toDevice, toDevice', k), toDevice # <<>>,
         Head(toDevice).type = "Connect", Opens(tl, r)
  PROVE  RequestCore'
<1>1. 1 \in ConnectAt(toDevice)
  BY CoreFacts DEF ConnectAt
<1>2. Untouched
  BY <1>1 DEF FreshCore
<1>3. tool.acked = 0 /\ tool.send = 0 /\ AckAt(toTool) = {}
  BY <1>2 DEF Untouched, LineInv, ToolInv
<1>4. tl'.seqNoRecv = 0 /\ Says(r.sent[Tool], {})
  BY HandleFields DEF Opens
<1>5. AckAt(toTool') = {}
  <2>1. Grown(toTool, toTool', {})
    BY <1>4, HandleGrows
  <2> HIDE DEF AckAt
  <2> QED BY <1>3, <2>1, CoreFacts, GrownAt
<1>6. AcksOf(toTool', tool.send, LastWasTaken')
  <2> HIDE DEF LastWasTaken
  <2> QED BY <1>5, AcksNone
<1>7. \A i \in DataAt(toDevice') :
        Number(toDevice'[i]) <= LastTaken \/ (tool.waits /\ Number(toDevice'[i]) = tool.requests)
  <2> HIDE DEF DataAt, Number
  <2> QED BY ShiftedAt DEF RequestCore
<1> QED BY <1>3, <1>4, <1>6, <1>7 DEF RequestCore, SameEnd

LEMMA RequestDevice ==
  ASSUME Inv, LineInv, FreshCore, RequestCore, SameEnd, NEW r \in Layer, Handle(r),
         NEW k \in Nat, Shifted(toDevice, toDevice', k),
         \/ toDevice # <<>> /\ Arrives(tl, r, Head(toDevice))
         \/ Passes(tl, r),
         \/ taken' = taken /\ LastTaken' = LastTaken
         \/ /\ toDevice # <<>> /\ Head(toDevice).type = "Data"
            /\ Takes(tl, r, Head(toDevice).apdu)
            /\ LastTaken' = Number(Head(toDevice)) /\ LastTaken' > LastTaken
  PROVE  RequestCore'
<1>0. AtRest(tl) /\ Straight(tl)
  BY CoreFacts DEF FreshCore
<1>1. CASE /\ toDevice # <<>> /\ Head(toDevice).type = "Data"
           /\ Takes(tl, r, Head(toDevice).apdu)
           /\ LastTaken' = Number(Head(toDevice)) /\ LastTaken' > LastTaken
  BY <1>1, RequestTakes
<1>2. CASE taken' = taken /\ LastTaken' = LastTaken
  <2>1. CASE toDevice # <<>> /\ Head(toDevice).type = "Connect" /\ Opens(tl, r)
    BY <1>2, <2>1, RequestOpens
  <2>2. CASE Mute(tl, r) \/ Away(tl, r) \/ Settles(tl, r)
    <3>1. Says(r.sent[Tool], {}) /\ (r.connectedTsap = Tool => tl.connectedTsap = Tool /\ r.seqNoRecv = tl.seqNoRecv)
      BY <1>0, <2>2 DEF Mute, Away, Settles, SameCore, SameView
    <3>2. Grown(toTool, toTool', {})
      BY <3>1, HandleGrows
    <3>3. Ours' => Ours /\ tl'.seqNoRecv = tl.seqNoRecv
      BY <3>1, HandleFields DEF Ours
    <3> QED BY <1>2, <3>2, <3>3, RequestQuiet
  <2>3. CASE Repeats(tl, r) \/ SendsSaved(tl, r)
    <3> DEFINE S == {DataOf(tl.seqNoSend, r.savedFrame)}
    <3>1. /\ Says(r.sent[Tool], S) /\ tl.connectedTsap = Tool /\ r.seqNoRecv = tl.seqNoRecv
      BY <2>3 DEF Repeats, SendsSaved, SameCore
    <3>2. Grown(toTool, toTool', S) /\ \A f \in S : f.type # "Ack"
      BY <3>1, HandleGrows DEF DataOf, FrameOf
    <3>3. Ours' => Ours /\ tl'.seqNoRecv = tl.seqNoRecv
      BY <3>1, HandleFields DEF Ours
    <3> HIDE DEF S
    <3> QED BY <1>2, <3>2, <3>3, RequestQuiet
  <2>4. CASE AcksAgain(tl, r)
    <3> DEFINE S == {AckOf(Previous(tl.seqNoRecv))}
    <3>1. /\ Says(r.sent[Tool], S) /\ tl.connectedTsap = Tool /\ r.seqNoRecv = tl.seqNoRecv
      BY <2>4 DEF AcksAgain, SameCore
    <3>2. Grown(toTool, toTool', S) /\ \A f \in S : f.type = "Ack" => f.seq = Previous(tl.seqNoRecv)
      BY <3>1, HandleGrows DEF AckOf, FrameOf
    <3>3. Ours /\ (Ours' => Ours /\ tl'.seqNoRecv = tl.seqNoRecv)
      BY <3>1, HandleFields DEF Ours
    <3>4. LastWasTaken => tool.send = Previous(tl.seqNoRecv)
      BY <3>1 DEF LineInv, OrderInv, OrderOf, LastWasTaken
    <3>5. ~LastWasTaken => tool.send = tl.seqNoRecv
      BY <3>3 DEF RequestCore
    <3> HIDE DEF S
    <3>6. \A f \in S : f.type = "Ack" =>
            \/ f.seq = tool.send /\ LastWasTaken
            \/ f.seq = Previous(tool.send) /\ ~LastWasTaken
      BY <3>2, <3>4, <3>5
    <3> QED BY <1>2, <3>2, <3>3, <3>6, RequestQuiet
  <2>5. CASE \E apdu : Takes(tl, r, apdu)
    <3>1. taken' # taken
      <4>1. PICK apdu : Takes(tl, r, apdu)
        BY <2>5
      <4>2. taken' = taken \o <<apdu>> /\ r.passed = <<apdu>> /\ r.passed \in Seq(Apdu)
        BY <4>1, HandleFields DEF Takes, Layer
      <4>3. taken \in Seq(Apdu)
        BY NowFacts
      <4>4. Len(taken) \in Nat /\ Len(taken') = Len(taken) + 1
        <5> HIDE DEF Apdu
        <5> QED BY <4>2, <4>3, ConcatProperties
      <4> QED BY <4>4
    <3> QED BY <1>2, <3>1
  <2> QED BY <2>1, <2>2, <2>3, <2>4, <2>5 DEF Arrives, Passes
<1> QED BY <1>1, <1>2

-----------------------------------------------------------------------------
(* The answers, and what the device does.                                  *)

LEMMA IssuedMore ==
  ASSUME Inv, LineInv, NEW a \in Apdu, Issued(a), LastTaken' \in Nat, LastTaken' >= LastTaken
  PROVE  a.kind = "answer" /\ a.n <= LastTaken' /\ a # NoApdu
         /\ \A apdu \in Apdu : apdu.n > LastTaken => a # Answer(apdu)
<1>1. a.n \in Nat /\ LastTaken \in Nat
  BY CoreFacts DEF Apdu
<1>2. a.kind = "answer" /\ a.n <= LastTaken
  BY DEF Issued
<1>3. a # NoApdu
  BY <1>2 DEF NoApdu
<1>4. \A apdu \in Apdu : apdu.n > LastTaken => a # Answer(apdu)
  <2>1. SUFFICES ASSUME NEW apdu \in Apdu, apdu.n > LastTaken PROVE a # Answer(apdu)
    OBVIOUS
  <2>2. Answer(apdu).n = apdu.n /\ apdu.n \in Nat
    BY DEF Answer, Apdu
  <2> HIDE DEF LastTaken
  <2> QED BY <1>1, <1>2, <2>1, <2>2
<1> HIDE DEF LastTaken
<1> QED BY <1>1, <1>2, <1>3, <1>4

(* What the device saves is no answer the tool has.                        *)
Saves(r) ==
  \/ r.saved \in {tl.saved, NoApdu}
  \/ \E apdu \in Apdu :
       r.saved = Answer(apdu) /\ apdu.n > LastTaken /\ apdu.n <= LastTaken'

LEMMA GotKeeps ==
  ASSUME Inv, LineInv, GotCore, SameEnd, NEW r \in Layer, Handle(r), Saves(r),
         LastTaken' \in Nat, LastTaken' >= LastTaken
  PROVE  GotCore'
<1>1. tool'.got = tool.got /\ tl'.saved = r.saved
  BY HandleFields DEF SameEnd
<1>2. \A i \in DOMAIN tool.got : tool.got[i] \in Apdu /\ Issued(tool.got[i])
  BY NowFacts DEF GotCore
<1> HIDE DEF LastTaken
<1>3. \A i \in DOMAIN tool.got :
        /\ tool.got[i].kind = "answer" /\ tool.got[i].n <= LastTaken'
        /\ \A apdu \in Apdu : apdu.n > LastTaken => tool.got[i] # Answer(apdu)
  BY <1>2, IssuedMore
<1>4. ASSUME r.saved # NoApdu
      PROVE  /\ r.saved.kind = "answer" /\ r.saved.n <= LastTaken'
             /\ \A i \in DOMAIN tool.got : tool.got[i] # r.saved
  <2>1. CASE r.saved = tl.saved
    <3>1. Issued(tl.saved) /\ ~Got(tl.saved) /\ tl.saved \in Apdu
      BY <1>4, <2>1, CoreFacts DEF GotCore
    <3> QED BY <2>1, <3>1, IssuedMore DEF Got
  <2>2. CASE \E apdu \in Apdu :
               r.saved = Answer(apdu) /\ apdu.n > LastTaken /\ apdu.n <= LastTaken'
    <3>1. PICK apdu \in Apdu : r.saved = Answer(apdu) /\ apdu.n > LastTaken /\ apdu.n <= LastTaken'
      BY <2>2
    <3>2. Answer(apdu).kind = "answer" /\ Answer(apdu).n = apdu.n
      BY DEF Answer
    <3> QED BY <1>3, <3>1, <3>2
  <2> QED BY <1>4, <2>1, <2>2 DEF Saves
<1>5. (\A i, j \in DOMAIN tool.got : tool.got[i] = tool.got[j] => i = j)'
  BY <1>1 DEF GotCore
<1>6. (\A i \in DOMAIN tool.got : Issued(tool.got[i]))'
  BY <1>1, <1>3 DEF Issued
<1>7. (tl.saved # NoApdu => Issued(tl.saved) /\ ~Got(tl.saved))'
  BY <1>1, <1>4 DEF Issued, Got
<1> QED BY <1>5, <1>6, <1>7 DEF GotCore

(* An answer that the tool does not have yet, still is one.                *)
LEMMA PendingStays ==
  ASSUME Inv, LineInv, SameEnd, NEW r \in Layer, Handle(r), Saves(r),
         LastTaken' \in Nat, LastTaken' >= LastTaken,
         NEW a \in Pending,
         Ours' => Waiting' /\ tl'.seqNoSend = tool.recv /\ a = tl'.savedFrame
  PROVE  a \in Pending'
<1>1. a \in Apdu /\ Issued(a) /\ ~Got(a) /\ a # tl.saved
  BY DEF Pending
<1>2. tool'.got = tool.got /\ tl'.saved = r.saved /\ tool'.recv = tool.recv
  BY HandleFields DEF SameEnd
<1> HIDE DEF LastTaken
<1>3. /\ a.kind = "answer" /\ a.n <= LastTaken' /\ a # NoApdu
      /\ \A apdu \in Apdu : apdu.n > LastTaken => a # Answer(apdu)
  BY <1>1, IssuedMore
<1>4. a # r.saved
  BY <1>1, <1>3 DEF Saves
<1>5. Issued(a)' /\ ~Got(a)'
  BY <1>1, <1>2, <1>3 DEF Issued, Got
<1> QED BY <1>1, <1>2, <1>4, <1>5 DEF Pending

SameSender(r) ==
  /\ r.state = tl.state /\ r.connectedTsap = tl.connectedTsap
  /\ r.seqNoSend = tl.seqNoSend /\ r.savedFrame = tl.savedFrame

(* A connection that sends as before, or is not with the tool.             *)
LEMMA AnswerSame ==
  ASSUME Inv, LineInv, AnswerCore, SameEnd, NEW r \in Layer, Handle(r), Saves(r),
         LastTaken' \in Nat, LastTaken' >= LastTaken,
         NEW k \in Nat, Shifted(toDevice, toDevice', k),
         SameSender(r) \/ r.connectedTsap # Tool,
         NEW S, Grown(toTool, toTool', S),
         \A f \in S : f.type = "Data" =>
           Ours /\ Waiting /\ f.seq = tl.seqNoSend /\ f.apdu = tl.savedFrame
  PROVE  AnswerCore'
<1>3. GotCore'
  BY GotKeeps DEF AnswerCore
<1> HIDE DEF LastTaken
<1>4. \/ /\ (Ours' <=> Ours) /\ (Waiting' <=> Waiting) /\ tl'.seqNoSend = tl.seqNoSend
         /\ tl'.savedFrame = tl.savedFrame
      \/ ~Ours'
  BY HandleFields DEF Ours, Waiting, SameSender
<1>5. tool'.recv = tool.recv
  BY DEF SameEnd
<1>6. Pending \subseteq Pending'
  <2>1. ASSUME NEW a \in Pending PROVE a \in Pending'
    <3>1. Ours' => Waiting' /\ tl'.seqNoSend = tool.recv /\ a = tl'.savedFrame
      BY <1>4 DEF Pending
    <3> QED BY <3>1, PendingStays
  <2> QED BY <2>1
<1>7. AnswersOf(toTool', tool.recv, Pending)
  <2>1. AnswersOf(toTool, tool.recv, Pending)
    BY DEF AnswerCore
  <2>2. \A f \in S : f.type = "Data" =>
          \/ f.seq = tool.recv /\ f.apdu \in Pending /\ Pending \subseteq {f.apdu}
          \/ f.seq = Previous(tool.recv) /\ Pending = {}
    <3>1. SUFFICES ASSUME NEW f \in S, f.type = "Data"
                   PROVE  \/ f.seq = tool.recv /\ f.apdu \in Pending /\ Pending \subseteq {f.apdu}
                          \/ f.seq = Previous(tool.recv) /\ Pending = {}
      OBVIOUS
    <3>2. Ours /\ Waiting /\ f.seq = tl.seqNoSend /\ f.apdu = tl.savedFrame
      BY <3>1
    <3>3. CASE GotLast
      <4>1. tl.seqNoSend = Previous(tool.recv) /\ tl.seqNoSend # tool.recv
        BY <3>3, CoreFacts, SeqMoves DEF GotLast
      <4> QED BY <3>2, <4>1 DEF Pending
    <3>4. CASE ~GotLast
      BY <3>2, <3>4 DEF AnswerCore, Pending
    <3> QED BY <3>3, <3>4
  <2> HIDE DEF Pending
  <2> QED BY <2>1, <2>2, CoreFacts, AnswersGrow
<1>8. AnswersOf(toTool', tool.recv, Pending')
  <2> HIDE DEF Pending
  <2> QED BY <1>6, <1>7, AnswersWeaker
<1>9. ASSUME Ours' PROVE AcksOf(toDevice', tl'.seqNoSend, GotLast')
  <2>1. Ours /\ (GotLast => GotLast') /\ tl'.seqNoSend = tl.seqNoSend
    BY <1>4, <1>5, <1>9 DEF GotLast
  <2>2. AcksOf(toDevice', tl.seqNoSend, GotLast)
    <3> HIDE DEF GotLast
    <3> QED BY <2>1, AcksShift DEF AnswerCore
  <2> HIDE DEF GotLast
  <2> QED BY <2>1, <2>2, AcksWeaker
<1>10. Ours' /\ ~GotLast' =>
         tl'.seqNoSend = tool'.recv /\ (Waiting' => tl'.savedFrame \in Pending')
  BY <1>4, <1>5, <1>6 DEF AnswerCore, GotLast
<1> QED BY <1>3, <1>5, <1>8, <1>9, <1>10 DEF AnswerCore

(* An answer is sent for the first time.                                   *)
LEMMA AnswerSends ==
  ASSUME Inv, LineInv, AnswerCore, SameEnd, NEW r \in Layer, Handle(r), Saves(r),
         LastTaken' \in Nat, LastTaken' >= LastTaken,
         NEW k \in Nat, Shifted(toDevice, toDevice', k),
         Ours, r.connectedTsap = Tool, tl.state = "OpenIdle", r.state = "OpenWait",
         r.seqNoSend = tl.seqNoSend,
         r.savedFrame.kind = "answer", r.savedFrame.n <= LastTaken', ~Got(r.savedFrame),
         r.savedFrame # r.saved,
         NEW S, Grown(toTool, toTool', S),
         \A f \in S : f.type = "Data" => f.seq = tl.seqNoSend /\ f.apdu = r.savedFrame
  PROVE  AnswerCore'
<1>1. GotCore'
  BY GotKeeps DEF AnswerCore
<1> HIDE DEF LastTaken
<1>2. ~Waiting /\ ~GotLast /\ tl.seqNoSend = tool.recv /\ Pending = {}
  BY DEF AnswerCore, GotLast, Waiting, Pending
<1>3. /\ tool'.recv = tool.recv /\ tool'.got = tool.got /\ Ours' /\ Waiting'
      /\ tl'.seqNoSend = tool.recv /\ tl'.savedFrame = r.savedFrame /\ tl'.saved = r.saved
      /\ r.savedFrame \in Apdu
  BY <1>2, HandleFields, ViewTypes DEF SameEnd, Ours, Waiting
<1>4. Issued(r.savedFrame)' /\ ~Got(r.savedFrame)'
  BY <1>3, HandleFields DEF Issued, Got
<1>5. Pending' = {r.savedFrame}
  <2>1. r.savedFrame.n <= LastTaken' /\ r.savedFrame.kind = "answer"
        /\ \A i \in DOMAIN tool'.got : tool'.got[i] # r.savedFrame
    BY <1>3 DEF Got
  <2> QED BY <1>3, <2>1 DEF Pending, Issued, Got
<1>6. AnswersOf(toTool', tool.recv, Pending')
  <2>1. AnswersOf(toTool, tool.recv, {})
    BY <1>2 DEF AnswerCore
  <2>2. AnswersOf(toTool, tool.recv, {r.savedFrame})
    BY <2>1, AnswersWeaker
  <2>3. AnswersOf(toTool', tool.recv, {r.savedFrame})
    BY <1>2, <2>2, CoreFacts, AnswersGrow
  <2> QED BY <1>5, <2>3
<1>7. AcksOf(toDevice', tl'.seqNoSend, GotLast')
  <2>1. AcksOf(toDevice', tl.seqNoSend, GotLast)
    <3> HIDE DEF GotLast
    <3> QED BY AcksShift DEF AnswerCore
  <2> HIDE DEF GotLast
  <2> QED BY <1>2, <1>3, <2>1, AcksWeaker
<1>8. tl'.savedFrame \in Pending'
  BY <1>3, <1>5
<1> QED BY <1>1, <1>3, <1>6, <1>7, <1>8 DEF AnswerCore

LEMMA AnswerTakes ==
  ASSUME Inv, LineInv, AnswerCore, SameEnd, NEW r \in Layer, Handle(r),
         NEW k \in Nat, Shifted(toDevice, toDevice', k),
         NEW apdu \in Apdu, Takes(tl, r, apdu),
         LastTaken' = apdu.n, LastTaken' > LastTaken
  PROVE  AnswerCore'
<1>1. /\ LastTaken' \in Nat /\ LastTaken' >= LastTaken /\ LastTaken \in Nat
      /\ apdu.n > LastTaken /\ apdu.n <= LastTaken'
  BY CoreFacts DEF Apdu
<1> HIDE DEF LastTaken
<1>2. Answer(apdu).kind = "answer" /\ Answer(apdu).n = apdu.n /\ Answer(apdu) # NoApdu
  BY DEF Answer, NoApdu
<1>3. CASE /\ r.state = tl.state /\ r.saved \in {tl.saved, Answer(apdu)}
           /\ r.savedFrame = tl.savedFrame /\ Says(r.sent[Tool], {AckOf(tl.seqNoRecv)})
  <2>1. Saves(r) /\ SameSender(r)
    BY <1>1, <1>3 DEF Saves, SameSender, Takes
  <2> DEFINE S == {AckOf(tl.seqNoRecv)}
  <2>2. Grown(toTool, toTool', S) /\ \A f \in S : f.type # "Data"
    BY <1>3, HandleGrows DEF AckOf, FrameOf
  <2> HIDE DEF S
  <2> QED BY <1>1, <2>1, <2>2, AnswerSame
<1>4. CASE /\ tl.state = "OpenIdle" /\ r.state = "OpenWait"
           /\ r.saved = tl.saved /\ r.savedFrame = Answer(apdu)
           /\ Says(r.sent[Tool], {AckOf(tl.seqNoRecv), DataOf(tl.seqNoSend, Answer(apdu))})
  <2>1. Saves(r) /\ Ours /\ r.connectedTsap = Tool /\ r.seqNoSend = tl.seqNoSend
    BY <1>4 DEF Saves, Takes, Ours
  <2> DEFINE S == {AckOf(tl.seqNoRecv), DataOf(tl.seqNoSend, Answer(apdu))}
  <2>2. /\ Grown(toTool, toTool', S)
        /\ \A f \in S : f.type = "Data" => f.seq = tl.seqNoSend /\ f.apdu = Answer(apdu)
    BY <1>4, HandleGrows DEF AckOf, DataOf, FrameOf
  <2> HIDE DEF S
  <2>3. ~Got(Answer(apdu))
    <3>1. SUFFICES ASSUME NEW i \in DOMAIN tool.got PROVE tool.got[i] # Answer(apdu)
      BY DEF Got
    <3>2. Issued(tool.got[i]) /\ tool.got[i] \in Apdu
      BY NowFacts DEF AnswerCore, GotCore
    <3> QED BY <1>1, <3>2, IssuedMore
  <2>4. Answer(apdu) # r.saved
    <3>1. CASE tl.saved = NoApdu
      BY <1>2, <1>4, <3>1
    <3>2. CASE tl.saved # NoApdu
      <4>1. Issued(tl.saved) /\ tl.saved \in Apdu
        BY <3>2, CoreFacts DEF AnswerCore, GotCore
      <4> QED BY <1>1, <1>4, <4>1, IssuedMore
    <3> QED BY <3>1, <3>2
  <2>5. Answer(apdu).n <= LastTaken'
    BY <1>1, <1>2
  <2> QED BY <1>1, <1>2, <1>4, <2>1, <2>2, <2>3, <2>4, <2>5, AnswerSends
<1> QED BY <1>3, <1>4 DEF Takes

(* The device is told that the tool has its answer.                        *)
LEMMA AnswerSettles ==
  ASSUME Inv, LineInv, AnswerCore, SameEnd, NEW r \in Layer, Handle(r),
         LastTaken' = LastTaken, NEW k \in Nat, Shifted(toDevice, toDevice', k),
         toDevice # <<>>, Head(toDevice).type = "Ack", Head(toDevice).seq = tl.seqNoSend,
         Settles(tl, r)
  PROVE  AnswerCore'
<1>1. LastTaken' \in Nat /\ LastTaken' >= LastTaken /\ Saves(r)
  BY CoreFacts DEF Saves, Settles
<1>2. GotCore'
  BY <1>1, GotKeeps DEF AnswerCore
<1> HIDE DEF LastTaken
<1>3. 1 \in AckAt(toDevice) /\ toDevice[1].seq = tl.seqNoSend /\ Ours
  BY CoreFacts DEF AckAt, Settles, Ours
<1>4. AcksOf(toDevice, tl.seqNoSend, GotLast)
  BY <1>3 DEF AnswerCore
<1>5. tl.seqNoSend = Previous(tool.recv) /\ GotLast
  BY <1>3, <1>4, CoreFacts, SeqMoves DEF AcksOf, GotLast
<1>6. IncSeqNr(tl.seqNoSend) = tool.recv /\ tl.seqNoSend # tool.recv
  BY <1>5, CoreFacts, SeqMoves
<1>7. /\ tool'.recv = tool.recv /\ ~Waiting' /\ tl'.seqNoSend = tool.recv
  BY <1>6, HandleFields DEF SameEnd, Settles, Waiting
<1>8. Pending = {}
  BY <1>3, <1>6 DEF Pending
<1>9. AnswersOf(toTool', tool.recv, Pending')
  <2>1. Grown(toTool, toTool', {})
    BY HandleGrows DEF Settles
  <2>2. AnswersOf(toTool, tool.recv, {})
    BY <1>8 DEF AnswerCore
  <2>3. AnswersOf(toTool', tool.recv, {})
    BY <2>1, <2>2, CoreFacts, AnswersGrow
  <2> HIDE DEF Pending
  <2> QED BY <2>3, AnswersWeaker
<1>10. AcksOf(toDevice', tl'.seqNoSend, GotLast')
  <2>1. \A more : AcksOf(toDevice, IncSeqNr(tl.seqNoSend), more)
    <3> HIDE DEF GotLast
    <3> QED BY <1>3, <1>4, CoreFacts, AcksMove
  <2>2. AcksOf(toDevice, tool.recv, FALSE)
    BY <1>6, <2>1
  <2>3. AcksOf(toDevice', tool.recv, FALSE)
    BY <2>2, AcksShift
  <2> HIDE DEF GotLast
  <2> QED BY <1>7, <2>3, AcksWeaker
<1> QED BY <1>2, <1>7, <1>9, <1>10 DEF AnswerCore

LEMMA AnswerOpens ==
  ASSUME Inv, LineInv, tool.role = "client", FreshCore, AnswerCore, SameEnd,
         NEW r \in Layer, Handle(r), LastTaken' = LastTaken,
         NEW k \in Nat, Shifted(toDevice, toDevice', k), toDevice # <<>>,
         Head(toDevice).type = "Connect", Opens(tl, r)
  PROVE  AnswerCore'
<1>1. 1 \in ConnectAt(toDevice) /\ \A j \in AckAt(toDevice) : 1 < j
  BY CoreFacts DEF ConnectAt, AckAt
<1>2. Untouched /\ Number(toDevice[1]) = tool.connects
  BY <1>1 DEF FreshCore
<1>3. LastTaken' \in Nat /\ LastTaken' >= LastTaken /\ Saves(r)
  BY CoreFacts DEF Saves, Opens
<1>4. GotCore'
  BY <1>3, GotKeeps DEF AnswerCore
<1> HIDE DEF LastTaken
<1>5. tool.got = <<>> /\ tool.recv = 0 /\ DataAt(toTool) = {}
  BY <1>2 DEF Untouched, LineInv, ToolInv
<1>6. /\ tl'.seqNoSend = 0 /\ ~Waiting' /\ Says(r.sent[Tool], {}) /\ tool'.recv = 0
  BY <1>5, HandleFields DEF Opens, Waiting, SameEnd
<1>7. AnswersOf(toTool', tool'.recv, Pending')
  <2>1. Grown(toTool, toTool', {})
    BY <1>6, HandleGrows
  <2>2. DataAt(toTool') = {}
    <3> HIDE DEF DataAt
    <3> QED BY <1>5, <2>1, CoreFacts, GrownAt
  <2> HIDE DEF Pending, DataAt
  <2> QED BY <2>2, AnswersNone
<1>8. AcksOf(toDevice', tl'.seqNoSend, GotLast')
  <2>1. \A j \in AckAt(toDevice) : toDevice[j].seq = Previous(0)
    BY <1>1, <1>2, <1>5 DEF LineInv, ConnectInv, ConnectOf
  <2>2. Previous(0) # 0
    BY SeqType, SeqMoves DEF Seq4
  <2>3. AcksOf(toDevice, 0, FALSE)
    BY <2>1, <2>2 DEF AcksOf
  <2>4. AcksOf(toDevice', 0, FALSE)
    BY <2>3, AcksShift
  <2> HIDE DEF GotLast
  <2> QED BY <1>6, <2>4, AcksWeaker
<1> QED BY <1>4, <1>6, <1>7, <1>8 DEF AnswerCore

(* A step that takes no request of the tool's is no take.                  *)
LEMMA TakesAppends ==
  ASSUME Inv, NEW r \in Layer, Handle(r), NEW apdu, Takes(tl, r, apdu)
  PROVE  taken' # taken
<1>1. taken' = taken \o <<apdu>> /\ <<apdu>> \in Seq(Apdu)
  BY HandleFields DEF Takes, Layer
<1>2. taken \in Seq(Apdu)
  BY NowFacts
<1>3. Len(taken) \in Nat /\ Len(taken') = Len(taken) + 1
  <2> HIDE DEF Apdu
  <2> QED BY <1>1, <1>2, ConcatProperties
<1> QED BY <1>3

LEMMA AnswerDevice ==
  ASSUME Inv, LineInv, tool.role = "client", FreshCore, AnswerCore, SameEnd,
         NEW r \in Layer, Handle(r),
         NEW k \in Nat, Shifted(toDevice, toDevice', k),
         \/ toDevice # <<>> /\ Arrives(tl, r, Head(toDevice))
         \/ Passes(tl, r),
         \/ taken' = taken /\ LastTaken' = LastTaken
         \/ /\ toDevice # <<>> /\ Head(toDevice).type = "Data"
            /\ Takes(tl, r, Head(toDevice).apdu)
            /\ LastTaken' = Number(Head(toDevice)) /\ LastTaken' > LastTaken
  PROVE  AnswerCore'
<1>0. AtRest(tl) /\ Straight(tl) /\ LastTaken \in Nat
  BY CoreFacts DEF FreshCore
<1> HIDE DEF LastTaken
<1>1. CASE /\ toDevice # <<>> /\ Head(toDevice).type = "Data"
           /\ Takes(tl, r, Head(toDevice).apdu)
           /\ LastTaken' = Number(Head(toDevice)) /\ LastTaken' > LastTaken
  <2>1. Head(toDevice).apdu \in Apdu
    BY <1>1, NowFacts, LineType DEF Frame
  <2> QED BY <1>1, <2>1, AnswerTakes DEF Number
<1>2. CASE taken' = taken /\ LastTaken' = LastTaken
  <2>0. LastTaken' \in Nat /\ LastTaken' >= LastTaken
    BY <1>0, <1>2
  <2>1. CASE toDevice # <<>> /\ Head(toDevice).type = "Connect" /\ Opens(tl, r)
    BY <1>2, <2>1, AnswerOpens
  <2>2. CASE Mute(tl, r) \/ Away(tl, r)
    <3>1. /\ Says(r.sent[Tool], {}) /\ Saves(r)
          /\ SameSender(r) \/ r.connectedTsap # Tool
      BY <1>0, <2>2 DEF Mute, Away, SameCore, SameView, Saves, SameSender
    <3>2. Grown(toTool, toTool', {})
      BY <3>1, HandleGrows
    <3> QED BY <2>0, <3>1, <3>2, AnswerSame
  <2>3. CASE Repeats(tl, r)
    <3> DEFINE S == {DataOf(tl.seqNoSend, tl.savedFrame)}
    <3>1. /\ Says(r.sent[Tool], S) /\ Saves(r) /\ SameSender(r) /\ Ours /\ Waiting
      BY <2>3 DEF Repeats, SameCore, SameView, Saves, SameSender, Ours, Waiting
    <3>2. /\ Grown(toTool, toTool', S)
          /\ \A f \in S : f.seq = tl.seqNoSend /\ f.apdu = tl.savedFrame
      BY <3>1, HandleGrows DEF DataOf, FrameOf
    <3> HIDE DEF S
    <3> QED BY <2>0, <3>1, <3>2, AnswerSame
  <2>4. CASE AcksAgain(tl, r)
    <3> DEFINE S == {AckOf(Previous(tl.seqNoRecv))}
    <3>1. /\ Says(r.sent[Tool], S) /\ Saves(r) /\ SameSender(r)
      BY <2>4 DEF AcksAgain, SameCore, SameView, Saves, SameSender
    <3>2. Grown(toTool, toTool', S) /\ \A f \in S : f.type # "Data"
      BY <3>1, HandleGrows DEF AckOf, FrameOf
    <3> HIDE DEF S
    <3> QED BY <2>0, <3>1, <3>2, AnswerSame
  <2>5. CASE /\ toDevice # <<>> /\ Head(toDevice).type = "Ack"
             /\ Head(toDevice).seq = tl.seqNoSend /\ Settles(tl, r)
    BY <1>2, <2>5, AnswerSettles
  <2>6. CASE SendsSaved(tl, r)
    <3> DEFINE S == {DataOf(tl.seqNoSend, tl.saved)}
    <3>1. /\ Says(r.sent[Tool], S) /\ Saves(r) /\ Ours /\ r.connectedTsap = Tool
          /\ tl.state = "OpenIdle" /\ r.state = "OpenWait" /\ r.seqNoSend = tl.seqNoSend
          /\ r.savedFrame = tl.saved /\ tl.saved # NoApdu /\ r.saved = NoApdu
      BY <2>6 DEF SendsSaved, Saves, Ours
    <3>2. /\ Grown(toTool, toTool', S)
          /\ \A f \in S : f.seq = tl.seqNoSend /\ f.apdu = r.savedFrame
      BY <3>1, HandleGrows DEF DataOf, FrameOf
    <3>3. Issued(tl.saved) /\ ~Got(tl.saved)
      BY <3>1 DEF AnswerCore, GotCore
    <3>4. /\ r.savedFrame.kind = "answer" /\ r.savedFrame.n <= LastTaken'
          /\ ~Got(r.savedFrame) /\ r.savedFrame # r.saved
      BY <1>2, <3>1, <3>3 DEF Issued
    <3> HIDE DEF S
    <3> QED BY <2>0, <3>1, <3>2, <3>4, AnswerSends
  <2>7. CASE \E apdu : Takes(tl, r, apdu)
    BY <1>2, <2>7, TakesAppends
  <2> QED BY <2>1, <2>2, <2>3, <2>4, <2>5, <2>6, <2>7 DEF Arrives, Passes
<1> QED BY <1>1, <1>2

-----------------------------------------------------------------------------
(* A fresh connection begins.                                              *)
LEMMA FreshensCore ==
  ASSUME Inv, LineInv, Freshens, toDevice # <<>>
  PROVE  Core
<1>1. /\ 1 \in ConnectAt(toDevice) /\ Number(toDevice[1]) = tool.connects
      /\ \A i \in DOMAIN toDevice : i = 1 \/ 1 < i
  BY CoreFacts DEF Freshens, ConnectAt
<1>2. ~Ours /\ ~Waiting /\ Straight(tl)
  BY CoreFacts, RestFacts DEF Freshens, Ours, Waiting, Straight, Open
<1>3. DOMAIN toTool = {} /\ DOMAIN tool.got = {}
  BY DEF Freshens
<1>4. AckAt(toTool) = {} /\ DataAt(toTool) = {}
  BY <1>3 DEF AckAt, DataAt
<1>5. \A c \in ConnectAt(toDevice) : c = 1
  <2>1. SUFFICES ASSUME NEW c \in ConnectAt(toDevice), 1 < c PROVE FALSE
    BY <1>1 DEF ConnectAt
  <2>2. toDevice[c] \in Frame /\ toDevice[1] \in Frame
    BY CoreFacts, LineDomain DEF ConnectAt
  <2>3. Number(toDevice[c]) \in Nat /\ Number(toDevice[1]) \in Nat
    BY <2>2 DEF Number, Frame, Apdu
  <2>4. Number(toDevice[c]) <= tool.connects /\ Number(toDevice[1]) < Number(toDevice[c])
    BY <1>1, <2>1 DEF LineInv, ConnectInv, ConnectOf
  <2> QED BY <1>1, <2>3, <2>4
<1>6. \A i \in DataAt(toDevice) : tool.waits /\ Number(toDevice[i]) = tool.requests
  <2>1. SUFFICES ASSUME NEW i \in DataAt(toDevice)
                 PROVE  tool.waits /\ Number(toDevice[i]) = tool.requests
    OBVIOUS
  <2>2. 1 < i
    BY <1>1 DEF DataAt, ConnectAt
  <2> QED BY <1>1, <2>2 DEF LineInv, ConnectInv, ConnectOf, Freshens
<1>7. FreshCore
  BY <1>1, <1>2, <1>4, <1>5 DEF FreshCore, Untouched, Freshens
<1>8. RequestCore
  <2>1. AcksOf(toTool, tool.send, LastWasTaken)
    <3> HIDE DEF AckAt, LastWasTaken
    <3> QED BY <1>4, AcksNone
  <2> QED BY <1>2, <1>6, <2>1 DEF RequestCore, Freshens
<1>9. AnswerCore
  <2>1. AnswersOf(toTool, tool.recv, Pending)
    <3> HIDE DEF DataAt, Pending
    <3> QED BY <1>4, AnswersNone
  <2>2. GotCore
    BY <1>3 DEF GotCore, Freshens
  <2> QED BY <1>2, <2>1, <2>2 DEF AnswerCore
<1> QED BY <1>7, <1>8, <1>9 DEF Core

(* A step of the device keeps a fresh connection what it is.               *)
LEMMA DeviceCore ==
  ASSUME Inv, LineInv, Core, tool.role = "client", SameEnd, NEW r \in Layer, Handle(r),
         NEW k \in Nat, Shifted(toDevice, toDevice', k),
         \/ toDevice # <<>> /\ Arrives(tl, r, Head(toDevice))
         \/ Passes(tl, r),
         \/ taken' = taken /\ LastTaken' = LastTaken
         \/ /\ toDevice # <<>> /\ Head(toDevice).type = "Data"
            /\ Takes(tl, r, Head(toDevice).apdu)
            /\ LastTaken' = Number(Head(toDevice)) /\ LastTaken' > LastTaken
  PROVE  Core'
<1>1. FreshCore'
  BY DeviceFresh DEF Core
<1>2. RequestCore'
  BY RequestDevice DEF Core
<1>3. AnswerCore'
  BY AnswerDevice DEF Core
<1> QED BY <1>1, <1>2, <1>3 DEF Core

LEMMA ArrivesCore ==
  ASSUME Inv, LineInv, tool.fresh => Core, NEW r, ArrivesBy(r), tool'.fresh
  PROVE  Core'
<1>1. Core /\ tool.role = "client"
  BY FreshensCore DEF ArrivesBy, Freshens, LineInv, ToolInv
<1>2. SameTool
  BY DEF ArrivesBy, SameEnd, SameTool
<1>3. \/ taken' = taken /\ LastTaken' = LastTaken
      \/ /\ toDevice # <<>> /\ Head(toDevice).type = "Data"
         /\ Takes(tl, r, Head(toDevice).apdu)
         /\ LastTaken' = Number(Head(toDevice)) /\ LastTaken' > LastTaken
  BY <1>2, ArriveKeeps DEF ArrivesBy, LineInv
<1>4. PICK k \in Nat : Shifted(toDevice, toDevice', k)
  BY ArrivesByShifts
<1> QED BY <1>1, <1>3, <1>4, DeviceCore DEF ArrivesBy

LEMMA PassesCore ==
  ASSUME Inv, LineInv, tool.fresh => Core, NEW r, PassesBy(r), tool'.fresh
  PROVE  Core'
<1>1. Core /\ tool.role = "client" /\ Passes(tl, r)
  BY DEF PassesBy, LineInv, ToolInv
<1>2. taken' = taken /\ LastTaken' = LastTaken
  BY PassesLine
<1>3. 0 \in Nat /\ Shifted(toDevice, toDevice', 0)
  BY NowFacts, TailShifts DEF PassesBy
<1> QED BY <1>1, <1>2, <1>3, DeviceCore DEF PassesBy

(* Only time passes, or nothing happens.                                   *)
LEMMA StillCore ==
  ASSUME Inv, LineInv, tool.fresh => Core, Still, tool'.fresh
  PROVE  Core'
<1>1. Core /\ LastTaken' = LastTaken
  BY StillLine DEF Still
<1>2. /\ tl'.state = tl.state /\ tl'.connectedTsap = tl.connectedTsap /\ tl'.saved = tl.saved
      /\ tl'.connectionAddress = tl.connectionAddress
      /\ tl'.seqNoSend = tl.seqNoSend /\ tl'.seqNoRecv = tl.seqNoRecv
      /\ tl'.savedFrame = tl.savedFrame
  BY DEF Still, SameCore, SameView
<1>3. tool' = tool /\ toDevice' = toDevice /\ toTool' = toTool /\ taken' = taken
  BY DEF Still
<1> HIDE DEF LastTaken
<1>4. FreshCore'
  BY <1>1, <1>2, <1>3 DEF Core, FreshCore, Straight, Untouched, Waiting
<1>5. RequestCore'
  BY <1>1, <1>2, <1>3 DEF Core, RequestCore, LastWasTaken, Ours
<1>6. AnswerCore'
  BY <1>1, <1>2, <1>3
     DEF Core, AnswerCore, GotCore, GotLast, Pending, Issued, Got, Ours, Waiting
<1> QED BY <1>4, <1>5, <1>6 DEF Core

-----------------------------------------------------------------------------
(* A fresh connection and the steps of the tool.                           *)
DeviceRests == tl' = tl /\ taken' = taken /\ LastTaken' = LastTaken

LEMMA NoConnectBehind ==
  ASSUME Inv, LineInv, FreshCore, AckAt(toTool) # {} \/ DataAt(toTool) # {}
  PROVE  ConnectAt(toDevice) = {}
<1> HIDE DEF AckAt, DataAt
<1> QED BY DEF FreshCore, Untouched

LEMMA FreshStays ==
  ASSUME Inv, LineInv, FreshCore, tl' = tl, tool'.connects = tool.connects,
         \A c \in ConnectAt(toDevice') :
           /\ c = 1 /\ Number(toDevice'[c]) = tool.connects /\ Untouched
           /\ tool'.acked = tool.acked /\ tool'.got = tool.got,
         NEW k \in Nat, Shifted(toTool, toTool', k)
  PROVE  FreshCore'
<1>1. AckAt(toTool) = {} => AckAt(toTool') = {}
  <2> HIDE DEF AckAt
  <2> QED BY ShiftedAt
<1>2. DataAt(toTool) = {} => DataAt(toTool') = {}
  <2> HIDE DEF DataAt
  <2> QED BY ShiftedAt
<1>3. Straight(tl)'
  BY DEF FreshCore, Straight
<1> HIDE DEF AckAt, DataAt, ConnectAt
<1>4. ASSUME NEW c \in ConnectAt(toDevice')
      PROVE  c = 1 /\ Number(toDevice'[c]) = tool'.connects /\ Untouched'
  BY <1>1, <1>2 DEF Untouched, Waiting
<1> QED BY <1>3, <1>4 DEF FreshCore

LEMMA RequestStays ==
  ASSUME Inv, LineInv, RequestCore, DeviceRests, SameTool, tool'.acked = tool.acked,
         \A i \in DataAt(toDevice') :
           \E j \in DataAt(toDevice) : toDevice'[i] = toDevice[j],
         NEW k \in Nat, Shifted(toTool, toTool', k)
  PROVE  RequestCore'
<1>1. LastWasTaken' = LastWasTaken
  BY DEF LastWasTaken, SameTool, DeviceRests
<1>2. AcksOf(toTool', tool.send, LastWasTaken)
  <2> HIDE DEF LastWasTaken
  <2> QED BY AcksShift DEF RequestCore
<1>3. \A i \in DataAt(toDevice') :
        Number(toDevice'[i]) <= LastTaken \/ (tool.waits /\ Number(toDevice'[i]) = tool.requests)
  <2> HIDE DEF DataAt, Number, LastTaken
  <2> QED BY DEF RequestCore
<1> HIDE DEF LastTaken, LastWasTaken
<1> QED BY <1>1, <1>2, <1>3 DEF RequestCore, SameTool, DeviceRests, Ours

LEMMA AnswerStays ==
  ASSUME Inv, LineInv, AnswerCore, DeviceRests, tool'.got = tool.got, tool'.recv = tool.recv,
         Ours => AcksOf(toDevice', tl.seqNoSend, GotLast),
         NEW k \in Nat, Shifted(toTool, toTool', k)
  PROVE  AnswerCore'
<1> HIDE DEF LastTaken
<1>1. GotCore'
  BY DEF AnswerCore, GotCore, Issued, Got, DeviceRests
<1>2. Pending' = Pending /\ GotLast' = GotLast
  BY DEF Pending, Issued, Got, GotLast, Waiting, Ours, DeviceRests
<1>3. AnswersOf(toTool', tool.recv, Pending)
  <2> HIDE DEF Pending
  <2> QED BY AnswersShift DEF AnswerCore
<1> HIDE DEF Pending, GotLast
<1> QED BY <1>1, <1>2, <1>3 DEF AnswerCore, DeviceRests, Ours, Waiting

(* A request, new or again, and the acknowledges on the line.              *)
LEMMA DataAddsNoAck ==
  ASSUME Inv, NEW f \in Frame, Added(toDevice, toDevice', f), f.type = "Data",
         AnswerCore, Ours
  PROVE  AcksOf(toDevice', tl.seqNoSend, GotLast)
<1>1. toDevice \in Seq(Frame) /\ tl.seqNoSend \in Seq4
  BY NowFacts
<1> HIDE DEF Frame, GotLast
<1>2. Grown(toDevice, toDevice', {f})
  BY <1>1, AddedGrows
<1>3. AcksOf(toDevice, tl.seqNoSend, GotLast)
  BY DEF AnswerCore
<1>4. \A g \in {f} : g.type # "Ack"
  OBVIOUS
<1> QED BY <1>1, <1>2, <1>3, <1>4, AcksGrow

LEMMA FreshAdds ==
  ASSUME Inv, LineInv, FreshCore, NEW f \in Frame, Added(toDevice, toDevice', f),
         f.type # "Connect"
  PROVE  /\ \A c \in ConnectAt(toDevice') :
              c = 1 /\ Number(toDevice'[c]) = tool.connects /\ Untouched
         /\ ConnectAt(toDevice) = {} => ConnectAt(toDevice') = {}
<1>1. toDevice \in Seq(Frame)
  BY NowFacts
<1> HIDE DEF Frame
<1>2. \A c \in ConnectAt(toDevice') : c \in ConnectAt(toDevice) /\ toDevice'[c] = toDevice[c]
  BY <1>1, AddedAt
<1> HIDE DEF ConnectAt, Untouched, Number
<1> QED BY <1>2 DEF FreshCore

LEMMA RequestMadeCore ==
  ASSUME Inv, LineInv, Core, ToolRequest
  PROVE  Core'
<1>1. /\ tool'.role = tool.role /\ tool'.connects = tool.connects
      /\ tool'.waits = TRUE /\ tool'.send = tool.send /\ tool'.recv = tool.recv
      /\ tool'.acked = tool.acked /\ tool'.got = tool.got
      /\ tool'.requests = tool.requests + 1 /\ tool.waits = FALSE
  BY NowFacts DEF ToolRequest, ToolEnd
<1>2. tool.requests \in Nat
  BY NowFacts
<1> DEFINE f == FrameOf("Data", tool.send, Request(tool.requests + 1))
<1>3. f \in Frame /\ f.type = "Data" /\ Number(f) = tool.requests + 1
  <2>1. tool.requests + 1 \in Nat BY <1>2
  <2> QED BY <2>1, RequestFrame
<1> HIDE DEF f
<1>4. /\ Added(toDevice, toDevice', f) /\ toDevice \in Seq(Frame) /\ DeviceRests
      /\ toTool' = toTool /\ 0 \in Nat /\ Shifted(toTool, toTool', 0)
  BY <1>3, SendsOne, NowFacts, TailShifts, RequestLine
     DEF ToolRequest, DeviceUnchanged, DeviceRests, f
<1>5. FreshCore'
  BY <1>1, <1>3, <1>4, FreshAdds, FreshStays DEF Core, DeviceRests
<1> HIDE DEF LastTaken
<1>6. RequestCore'
  <2>1. \A i \in DataAt(toDevice') :
          (i \in DataAt(toDevice) /\ toDevice'[i] = toDevice[i]) \/ toDevice'[i] = f
    BY <1>4, AddedAt
  <2>2. \A i \in DataAt(toDevice) : Number(toDevice[i]) <= LastTaken
    BY <1>1 DEF Core, RequestCore
  <2>3. \A i \in DataAt(toDevice') :
          Number(toDevice'[i]) <= LastTaken \/ Number(toDevice'[i]) = tool'.requests
    <3> HIDE DEF DataAt, Number
    <3> QED BY <1>1, <1>3, <2>1, <2>2
  <2>4. LastWasTaken = FALSE
    BY <1>1 DEF LastWasTaken
  <2>5. AcksOf(toTool, tool.send, FALSE)
    BY <2>4 DEF Core, RequestCore
  <2>6. AcksOf(toTool', tool'.send, LastWasTaken')
    <3> HIDE DEF LastWasTaken
    <3> QED BY <1>1, <1>4, <2>5, AcksWeaker
  <2> QED BY <1>1, <1>4, <2>3, <2>4, <2>6 DEF Core, RequestCore, Ours, DeviceRests
<1>7. AnswerCore'
  BY <1>1, <1>3, <1>4, DataAddsNoAck, AnswerStays DEF Core
<1> QED BY <1>5, <1>6, <1>7 DEF Core

LEMMA RequestAgainCore ==
  ASSUME Inv, LineInv, Core, ToolRepeat
  PROVE  Core'
<1>1. /\ tool.requests \in Nat \ {0} /\ tool.waits = TRUE /\ toDevice = <<>>
  BY LineFacts, NowFacts DEF ToolRepeat
<1> DEFINE f == FrameOf("Data", tool.send, Request(tool.requests))
<1>3. f \in Frame /\ f.type = "Data" /\ Number(f) = tool.requests
  BY <1>1, RequestFrame
<1> HIDE DEF f
<1>4. /\ Added(toDevice, toDevice', f) /\ toDevice \in Seq(Frame) /\ DeviceRests
      /\ toTool' = toTool /\ 0 \in Nat /\ Shifted(toTool, toTool', 0) /\ tool' = tool
  BY <1>3, SendsOne, NowFacts, TailShifts, SameTaken
     DEF ToolRepeat, DeviceUnchanged, DeviceRests, f, LineInv
<1>5. FreshCore'
  BY <1>3, <1>4, FreshAdds, FreshStays DEF Core, DeviceRests
<1> HIDE DEF LastTaken
<1>6. RequestCore'
  <2>1. \A i \in DataAt(toDevice') :
          (i \in DataAt(toDevice) /\ toDevice'[i] = toDevice[i]) \/ toDevice'[i] = f
    BY <1>4, AddedAt
  <2>2. DOMAIN toDevice = {}
    BY <1>1
  <2>3. \A i \in DataAt(toDevice') : Number(toDevice'[i]) = tool.requests
    <3>1. DataAt(toDevice) = {} BY <2>2 DEF DataAt
    <3> HIDE DEF DataAt, Number
    <3> QED BY <1>3, <2>1, <3>1
  <2>4. LastWasTaken' = LastWasTaken
    BY <1>4 DEF LastWasTaken, DeviceRests
  <2> HIDE DEF LastWasTaken
  <2> QED BY <1>1, <1>4, <2>3, <2>4 DEF Core, RequestCore, Ours, DeviceRests
<1>7. AnswerCore'
  BY <1>3, <1>4, DataAddsNoAck, AnswerStays DEF Core
<1> QED BY <1>5, <1>6, <1>7 DEF Core

(* The tool's request is acknowledged: it was taken.                       *)
LEMMA AckTakenCore ==
  ASSUME Inv, LineInv, Core, DeviceRests, toTool # <<>>, AckTaken(Head(toTool)),
         toTool' = Tail(toTool)
  PROVE  Core'
<1> DEFINE f == Head(toTool)
<1>1. /\ tool'.connects = tool.connects /\ tool'.waits = FALSE
      /\ tool'.send = IncSeqNr(tool.send) /\ tool'.recv = tool.recv
      /\ tool'.acked = tool.requests /\ tool'.got = tool.got /\ tool'.requests = tool.requests
      /\ toDevice' = toDevice
  BY AckTakenFields DEF AckTaken
<1>2. 1 \in AckAt(toTool) /\ toTool[1].seq = tool.send /\ tool.waits
  BY CoreFacts DEF AckTaken, AckAt
<1>3. 1 \in Nat /\ Shifted(toTool, toTool', 1)
  BY NowFacts, TailShifts
<1>4. AcksOf(toTool, tool.send, LastWasTaken) /\ LastWasTaken
  <2>1. AcksOf(toTool, tool.send, LastWasTaken)
    BY DEF Core, RequestCore
  <2> HIDE DEF LastWasTaken, AckAt
  <2>2. LastWasTaken
    BY <1>2, <2>1, CoreFacts, SeqMoves DEF AcksOf
  <2> QED BY <2>1, <2>2
<1>5. LastTaken = tool.requests /\ tool.requests \in Nat \ {0}
  BY <1>2, <1>4, LineFacts DEF LastWasTaken
<1>6. \E i \in DOMAIN taken : taken[i] = Request(tool.requests)
  <2>1. taken # <<>> /\ taken[Len(taken)].n = tool.requests
    BY <1>5 DEF LastTaken
  <2>2. taken \in Seq(Apdu)
    BY NowFacts
  <2>3. Len(taken) \in DOMAIN taken
    <3> HIDE DEF Apdu
    <3> QED BY <2>1, <2>2
  <2>4. taken[Len(taken)] = Request(taken[Len(taken)].n)
    BY <2>3 DEF LineInv, TakenInv
  <2> QED BY <2>1, <2>3, <2>4
<1>7. Ours => tl.seqNoRecv = IncSeqNr(tool.send)
  <2>1. Ours => tool.send = Previous(tl.seqNoRecv)
    BY <1>2, <1>5 DEF LineInv, OrderInv, OrderOf, Ours
  <2> QED BY <2>1, CoreFacts, SeqMoves
<1> HIDE DEF LastTaken
<1>8. \A i \in DataAt(toDevice) : Number(toDevice[i]) <= LastTaken
  BY <1>5 DEF LineInv, OrderInv, OrderOf
<1>9. AcksOf(toTool', tool'.send, LastWasTaken')
  <2> HIDE DEF LastWasTaken, AckAt
  <2>1. \A more : AcksOf(toTool, IncSeqNr(tool.send), more)
    BY <1>2, <1>4, CoreFacts, AcksMove
  <2>2. AcksOf(toTool', IncSeqNr(tool.send), LastWasTaken')
    BY <1>3, <2>1, AcksShift
  <2> QED BY <1>1, <2>2
<1>10. RequestCore'
  BY <1>1, <1>6, <1>7, <1>8, <1>9 DEF RequestCore, DeviceRests, Ours
<1>11. FreshCore'
  <2>1. ConnectAt(toDevice') = {}
    <3>1. ConnectAt(toDevice) = {}
      BY <1>2, NoConnectBehind DEF Core
    <3> QED BY <1>1, <3>1
  <2> QED BY <1>1, <1>3, <2>1, FreshStays DEF Core, DeviceRests
<1>12. AnswerCore'
  <2>1. Ours => AcksOf(toDevice', tl.seqNoSend, GotLast)
    BY <1>1 DEF Core, AnswerCore
  <2> QED BY <1>1, <1>3, <2>1, AnswerStays DEF Core
<1> QED BY <1>10, <1>11, <1>12 DEF Core

(* The tool sends an acknowledge or a refusal.                             *)
LEMMA ControlAdds ==
  ASSUME Inv, LineInv, NEW type \in {"Disconnect", "Ack", "Nack"}, NEW seq \in Seq4,
         ToolSends(<<FrameOf(type, seq, NoApdu)>>)
  PROVE  LET f == FrameOf(type, seq, NoApdu)
         IN  /\ f \in Frame /\ f.type = type /\ f.seq = seq
             /\ Added(toDevice, toDevice', f) /\ Grown(toDevice, toDevice', {f})
             /\ \A i \in DataAt(toDevice') :
                  \E j \in DataAt(toDevice) : toDevice'[i] = toDevice[j]
<1> DEFINE f == FrameOf(type, seq, NoApdu)
<1>1. f \in Frame /\ f.type = type /\ f.seq = seq
  BY ControlFrame
<1> HIDE DEF f
<1>2. Added(toDevice, toDevice', f) /\ toDevice \in Seq(Frame)
  BY <1>1, SendsOne, NowFacts DEF f
<1> HIDE DEF Frame
<1>3. Grown(toDevice, toDevice', {f})
  BY <1>2, AddedGrows
<1>4. \A i \in DataAt(toDevice') : i \in DataAt(toDevice) /\ toDevice'[i] = toDevice[i]
  BY <1>1, <1>2, AddedAt
<1> QED BY <1>1, <1>2, <1>3, <1>4 DEF f

LEMMA AcksReach ==
  ASSUME NEW line \in Seq(Frame), NEW new, NEW S, Grown(line, new, S),
         NEW send \in Seq4, NEW done, AcksOf(line, send, done), \A f \in S : f.seq = send
  PROVE  /\ \A i \in AckAt(new) : new[i].seq = Previous(send) \/ new[i].seq = send
         /\ \A i, j \in AckAt(new) : i < j /\ new[i].seq = send => new[j].seq = send
<1>1. \A i \in AckAt(new) :
        \/ i \in AckAt(line) /\ new[i] = line[i]
        \/ new[i].seq = send /\ \A j \in AckAt(new) : i < j => new[j].seq = send
  BY GrownAt
<1> HIDE DEF AckAt
<1> QED BY <1>1 DEF AcksOf

(* The tool gets an answer.                                                *)
LEMMA DataTakenCore ==
  ASSUME Inv, LineInv, Core, DeviceRests, toTool # <<>>, DataTaken(Head(toTool)),
         toTool' = Tail(toTool)
  PROVE  Core'
<1> DEFINE a == Head(toTool).apdu
           f == FrameOf("Ack", tool.recv, NoApdu)
<1>0. Head(toTool) \in Frame /\ a \in Apdu /\ tool.got \in Seq(Apdu)
  BY NowFacts, LineType DEF Frame
<1>1. /\ tool'.connects = tool.connects /\ SameTool /\ tool'.acked = tool.acked
      /\ tool'.recv = IncSeqNr(tool.recv) /\ tool'.got = Append(tool.got, a)
  BY <1>0, DataTakenFields DEF SameTool
<1>2. 1 \in DataAt(toTool) /\ toTool[1].seq = tool.recv /\ toTool[1].apdu = a
  BY CoreFacts DEF DataTaken, DataAt
<1>3. 1 \in Nat /\ Shifted(toTool, toTool', 1)
  BY NowFacts, TailShifts
<1>4. /\ f \in Frame /\ f.type = "Ack" /\ f.seq = tool.recv
      /\ Added(toDevice, toDevice', f) /\ Grown(toDevice, toDevice', {f})
      /\ \A i \in DataAt(toDevice') : \E j \in DataAt(toDevice) : toDevice'[i] = toDevice[j]
  BY CoreFacts, ControlAdds DEF DataTaken
<1> HIDE DEF a, f
<1>5. AnswersOf(toTool, tool.recv, Pending) /\ a \in Pending
  <2>1. AnswersOf(toTool, tool.recv, Pending)
    BY DEF Core, AnswerCore
  <2> HIDE DEF Pending, DataAt
  <2>2. a \in Pending
    BY <1>2, <2>1, CoreFacts, SeqMoves DEF AnswersOf
  <2> QED BY <2>1, <2>2
<1>6. /\ Issued(a) /\ ~Got(a) /\ a # tl.saved
      /\ Ours => Waiting /\ tl.seqNoSend = tool.recv
  BY <1>5 DEF Pending
<1>7. FreshCore'
  <2>1. ConnectAt(toDevice) = {}
    BY <1>2, NoConnectBehind DEF Core
  <2>2. ConnectAt(toDevice') = {}
    BY <1>4, <2>1, FreshAdds DEF Core
  <2> QED BY <1>1, <1>3, <2>2, FreshStays DEF Core, DeviceRests
<1>8. RequestCore'
  BY <1>1, <1>3, <1>4, RequestStays DEF Core
<1>9. GotCore'
  <2>1. /\ \A i \in DOMAIN tool.got : Issued(tool.got[i])
        /\ \A i, j \in DOMAIN tool.got : tool.got[i] = tool.got[j] => i = j
        /\ tl.saved # NoApdu => Issued(tl.saved) /\ ~Got(tl.saved)
    BY DEF Core, AnswerCore, GotCore
  <2>2. \A i \in DOMAIN tool'.got :
          \/ i \in DOMAIN tool.got /\ tool'.got[i] = tool.got[i]
          \/ i = Len(tool.got) + 1 /\ tool'.got[i] = a
    <3> DEFINE got == tool.got
    <3>1. got \in Seq(Apdu) /\ a \in Apdu
      BY <1>0 DEF a
    <3> HIDE DEF Apdu, got
    <3>2. \A i \in DOMAIN Append(got, a) :
            \/ i \in DOMAIN got /\ Append(got, a)[i] = got[i]
            \/ i = Len(got) + 1 /\ Append(got, a)[i] = a
      BY <3>1, AppendProperties
    <3> QED BY <1>1, <3>2 DEF got
  <2> HIDE DEF LastTaken
  <2>3. \A i \in DOMAIN tool'.got : tool'.got[i].kind = "answer" /\ tool'.got[i].n <= LastTaken
    BY <1>6, <2>1, <2>2 DEF Issued
  <2>4. \A i, j \in DOMAIN tool'.got : tool'.got[i] = tool'.got[j] => i = j
    BY <1>6, <2>1, <2>2 DEF Got
  <2>5. tl.saved # NoApdu => \A i \in DOMAIN tool'.got : tool'.got[i] # tl.saved
    BY <1>6, <2>1, <2>2 DEF Got
  <2>6. (\A i \in DOMAIN tool.got : Issued(tool.got[i]))'
    BY <2>3 DEF Issued, DeviceRests
  <2>7. (tl.saved # NoApdu => Issued(tl.saved) /\ ~Got(tl.saved))'
    BY <2>1, <2>5 DEF Issued, Got, DeviceRests
  <2> QED BY <2>4, <2>6, <2>7 DEF GotCore
<1>10. Ours => GotLast'
  BY <1>1, <1>6, CoreFacts, SeqMoves DEF GotLast, Waiting, DeviceRests
<1>11. AnswersOf(toTool', tool'.recv, Pending')
  <2> HIDE DEF Pending, DataAt
  <2>1. \A Q : AnswersOf(toTool, IncSeqNr(tool.recv), Q)
    BY <1>2, <1>5, CoreFacts, AnswersMove
  <2>2. AnswersOf(toTool', IncSeqNr(tool.recv), Pending')
    BY <1>3, <2>1, AnswersShift
  <2> QED BY <1>1, <2>2
<1>12. Ours => AcksOf(toDevice', tl.seqNoSend, GotLast')
  <2>1. SUFFICES ASSUME Ours PROVE AcksOf(toDevice', tl.seqNoSend, GotLast')
    OBVIOUS
  <2>2. AcksOf(toDevice, tl.seqNoSend, GotLast)
    BY <2>1 DEF Core, AnswerCore
  <2>3. \A g \in {f} : g.seq = tl.seqNoSend
    BY <1>4, <1>6, <2>1
  <2> HIDE DEF GotLast
  <2>4. /\ toDevice \in Seq(Frame) /\ tl.seqNoSend \in Seq4
        /\ Grown(toDevice, toDevice', {f})
    BY <1>4, CoreFacts
  <2> HIDE DEF AckAt
  <2>5. LET s == tl.seqNoSend
        IN  /\ \A i \in AckAt(toDevice') :
                 toDevice'[i].seq = Previous(s) \/ toDevice'[i].seq = s
            /\ \A i, j \in AckAt(toDevice') :
                 i < j /\ toDevice'[i].seq = s => toDevice'[j].seq = s
    BY <2>2, <2>3, <2>4, AcksReach
  <2> QED BY <1>10, <2>1, <2>5 DEF AcksOf
<1>13. AnswerCore'
  <2>1. Ours' <=> Ours
    BY DEF Ours, DeviceRests
  <2> HIDE DEF Pending, GotLast, GotCore
  <2> QED BY <1>9, <1>10, <1>11, <1>12, <2>1 DEF AnswerCore, DeviceRests
<1> QED BY <1>7, <1>8, <1>13 DEF Core

(* The tool gets the answer before once more.                              *)
LEMMA DataAgainCore ==
  ASSUME Inv, LineInv, Core, DeviceRests, toTool # <<>>, DataAgain(Head(toTool)),
         toTool' = Tail(toTool)
  PROVE  Core'
<1> DEFINE f == FrameOf("Ack", Previous(tool.recv), NoApdu)
<1>1. tool' = tool /\ SameTool
  BY DEF DataAgain, SameTool
<1>2. /\ 1 \in DataAt(toTool) /\ toTool[1].seq = Head(toTool).seq
      /\ Head(toTool).seq # tool.recv
  BY CoreFacts DEF DataAgain, DataAt
<1>3. 1 \in Nat /\ Shifted(toTool, toTool', 1)
  BY NowFacts, TailShifts
<1>4. Head(toTool).seq = Previous(tool.recv)
  BY <1>2 DEF Core, AnswerCore, AnswersOf
<1>5. /\ f \in Frame /\ f.type = "Ack" /\ f.seq = Previous(tool.recv)
      /\ Added(toDevice, toDevice', f) /\ Grown(toDevice, toDevice', {f})
      /\ \A i \in DataAt(toDevice') : \E j \in DataAt(toDevice) : toDevice'[i] = toDevice[j]
  <2>1. ToolSends(<<f>>) /\ Previous(tool.recv) \in Seq4
    BY <1>4, CoreFacts, SeqMoves DEF DataAgain
  <2> QED BY <2>1, ControlAdds
<1> HIDE DEF f
<1>6. FreshCore'
  <2>1. ConnectAt(toDevice) = {}
    BY <1>2, NoConnectBehind DEF Core
  <2>2. ConnectAt(toDevice') = {}
    BY <1>5, <2>1, FreshAdds DEF Core
  <2> QED BY <1>1, <1>3, <2>2, FreshStays DEF Core, DeviceRests
<1>7. RequestCore'
  BY <1>1, <1>3, <1>5, RequestStays DEF Core
<1>8. Ours => AcksOf(toDevice', tl.seqNoSend, GotLast)
  <2>1. SUFFICES ASSUME Ours PROVE AcksOf(toDevice', tl.seqNoSend, GotLast)
    OBVIOUS
  <2>2. AcksOf(toDevice, tl.seqNoSend, GotLast)
    BY <2>1 DEF Core, AnswerCore
  <2>3. \/ f.seq = tl.seqNoSend /\ GotLast
        \/ f.seq = Previous(tl.seqNoSend) /\ ~GotLast
    BY <1>5, <2>1 DEF Core, AnswerCore, GotLast
  <2> HIDE DEF GotLast
  <2> QED BY <1>5, <2>2, <2>3, CoreFacts, AcksGrow
<1>9. AnswerCore'
  BY <1>1, <1>3, <1>8, AnswerStays DEF Core
<1> QED BY <1>6, <1>7, <1>9 DEF Core

(* The tool ignores a frame, the line loses one.                           *)
LEMMA IdleCore ==
  ASSUME Inv, LineInv, Core, DeviceRests, tool' = tool,
         NEW k \in Nat, Shifted(toDevice, toDevice', k),
         NEW m \in Nat, Shifted(toTool, toTool', m)
  PROVE  Core'
<1>1. SameTool
  BY DEF SameTool
<1>2. FreshCore'
  BY ConnectStays, FreshStays DEF Core, DeviceRests
<1>3. RequestCore'
  <2>1. \A i \in DataAt(toDevice') : \E j \in DataAt(toDevice) : toDevice'[i] = toDevice[j]
    <3> HIDE DEF DataAt
    <3> QED BY ShiftedAt
  <2> QED BY <1>1, <2>1, RequestStays DEF Core
<1>4. AnswerCore'
  <2>1. Ours => AcksOf(toDevice', tl.seqNoSend, GotLast)
    <3> HIDE DEF GotLast
    <3> QED BY AcksShift DEF Core, AnswerCore
  <2> QED BY <2>1, AnswerStays DEF Core
<1> QED BY <1>2, <1>3, <1>4 DEF Core

LEMMA ReceiveCore ==
  ASSUME Inv, LineInv, tool.fresh => Core, ToolReceive, tool'.fresh
  PROVE  Core'
<1> DEFINE f == Head(toTool)
<1>1. /\ f \in Frame /\ ToolTakes(f) /\ tl' = tl /\ taken' = taken
      /\ toTool # <<>> /\ toTool' = Tail(toTool)
  BY NowFacts, LineType DEF ToolReceive, DeviceUnchanged
<1>2. DeviceRests
  BY <1>1 DEF DeviceRests, LastTaken
<1>3. 0 \in Nat /\ 1 \in Nat /\ Shifted(toDevice, toDevice, 0) /\ Shifted(toTool, toTool', 1)
  BY <1>1, NowFacts, TailShifts
<1> HIDE DEF f
<1>4. CASE Leaving
  BY <1>4, NowFacts DEF Leaving, Gone, ToolEnd
<1>5. CASE Serves
  BY <1>5, NowFacts DEF Serves, LineInv, ToolInv, ToolEnd
<1>6. CASE AckTaken(f)
  BY <1>1, <1>2, <1>6, AckTakenFields, AckTakenCore DEF f
<1>7. CASE DataTaken(f)
  BY <1>1, <1>2, <1>7, DataTakenFields, DataTakenCore DEF f
<1>8. CASE DataAgain(f)
  <2>1. tool' = tool
    BY <1>8 DEF DataAgain
  <2> QED BY <1>1, <1>2, <1>8, <2>1, DataAgainCore DEF f
<1>9. CASE tool' = tool /\ toDevice' = toDevice
  <2>1. Shifted(toDevice, toDevice', 0)
    BY <1>3, <1>9
  <2> QED BY <1>2, <1>3, <1>9, <2>1, IdleCore
<1> QED BY <1>1, <1>4, <1>5, <1>6, <1>7, <1>8, <1>9, ReceiveSteps

LEMMA LoseCore ==
  ASSUME Inv, LineInv, tool.fresh => Core, Lose, tool'.fresh
  PROVE  Core'
<1>1. tl' = tl /\ taken' = taken /\ tool' = tool
  BY DEF Lose, DeviceUnchanged
<1>2. DeviceRests
  BY <1>1 DEF DeviceRests, LastTaken
<1>3. 0 \in Nat /\ 1 \in Nat
  OBVIOUS
<1>4. \/ Shifted(toDevice, toDevice', 1) /\ Shifted(toTool, toTool', 0)
      \/ Shifted(toDevice, toDevice', 0) /\ Shifted(toTool, toTool', 1)
  BY NowFacts, TailShifts DEF Lose
<1> QED BY <1>1, <1>2, <1>3, <1>4, IdleCore

LEMMA NextCore ==
  ASSUME Inv, LineInv, tool.fresh => Core, [Next]_vars, tool'.fresh
  PROVE  Core'
<1>1. CASE \E answers, repeated \in BOOLEAN : Arrive(answers, repeated)
  BY <1>1, ArriveSteps, ArrivesCore
<1>2. CASE \/ \E type \in OtherTypes : ArriveOther(type)
           \/ \E status \in BOOLEAN : Confirm(status)
           \/ Loop
  BY <1>2, OtherSteps, PassesCore
<1>3. CASE \E p \in Partners, con \in {"later", "sent", "failed"} : AskRestart(p, con)
  BY <1>3, RestartSteps, PassesCore
<1>4. CASE Tick \/ UNCHANGED vars
  BY <1>4, TickSteps, StillCore
<1>5. CASE ToolConnect
  BY <1>5, NowFacts DEF ToolConnect, LineInv, ToolInv, ToolEnd
<1>6. CASE ToolRequest
  BY <1>6, NowFacts, RequestMadeCore DEF ToolRequest, ToolEnd
<1>7. CASE ToolRepeat
  BY <1>7, RequestAgainCore DEF ToolRepeat
<1>8. CASE ToolEnds
  BY <1>8, NowFacts DEF ToolEnds, Gone, ToolEnd
<1>9. CASE ToolReceive \/ Lose
  BY <1>9, ReceiveCore, LoseCore
<1> QED BY <1>1, <1>2, <1>3, <1>4, <1>5, <1>6, <1>7, <1>8, <1>9 DEF Next

THEOREM FreshInvariant == Spec => [](Inv /\ LineInv /\ (tool.fresh => Core))
<1>1. Init => Inv /\ LineInv /\ (tool.fresh => Core)
  BY InitInv, InitLine DEF Init, InitTool
<1>2. Inv /\ LineInv /\ (tool.fresh => Core) /\ [Next]_vars
        => (Inv /\ LineInv /\ (tool.fresh => Core))'
  BY NextInv, NextLine, NextCore
<1> QED BY <1>1, <1>2, PTL DEF Spec

(* What the device acknowledges in a fresh connection, the application     *)
(* got: an acknowledge is sent again only for the request taken last, and  *)
(* a number is expected only after the one before was taken (A2, A3).      *)
THEOREM AckedTaken == Spec => []AckedWasTaken
<1>1. (tool.fresh => Core) => AckedWasTaken
  BY DEF Core, RequestCore, AckedWasTaken
<1> QED BY FreshInvariant, <1>1, PTL

(* In a fresh connection no answer reaches the tool twice: what the device *)
(* repeats has the number the tool has, and it goes on to the next answer  *)
(* only with an acknowledge of this one (A7, A8, A9, A11).                 *)
THEOREM AnsweredOnce == Spec => []AnswersOnce
<1>1. (tool.fresh => Core) => AnswersOnce
  BY DEF Core, AnswerCore, GotCore, AnswersOnce
<1> QED BY FreshInvariant, <1>1, PTL

=============================================================================
