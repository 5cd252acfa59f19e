--------------------------- MODULE TransportLayer ---------------------------
(***************************************************************************)
(* The connection-oriented transport layer of the device (TransportLayer), *)
(* with what the application layer keeps of it, _connectedTsap, and the    *)
(* request to restart another device (BauSystemB::restartRequest).         *)
(*                                                                         *)
(* The layer has one connection.  Its handlers run in the main loop, each  *)
(* to its end, and call each other: an event (E0 to E25) picks an action   *)
(* (A0 to A13) by the state, an action sends frames and calls the          *)
(* application, and the application may answer in the same call.  So a     *)
(* handler is a function on the layer's state t, and the actions that call *)
(* it are those of TransportLine.  disconnectRequest (E26) has no caller   *)
(* in this device, see RestartRequest.                                     *)
(*                                                                         *)
(* Two fields of t are emptied when a handler has ended: sent holds the    *)
(* frames given to the network layer, by destination, passed the APDUs of  *)
(* connected frames given to the application.  Timers count steps of time. *)
(***************************************************************************)
EXTENDS Integers, Sequences

CONSTANTS
  Partners,          \* individual addresses of other devices
  SeqNumbers,        \* sequence numbers have four bits: 16
  MaxRepCount,       \* _maxRepCount
  AckTimeout,        \* _ackTimeoutMillis: 3000
  ConnectionTimeout, \* _connectionTimeoutMillis: 6000
  MaxApdus           \* bound: APDUs of one kind

ASSUME PartnersAssumption == Partners \subseteq Nat \ {0}
ASSUME SeqAssumption == SeqNumbers \in Nat /\ SeqNumbers > 2
ASSUME RepAssumption == MaxRepCount \in Nat
ASSUME TimeoutAssumption == AckTimeout \in Nat /\ ConnectionTimeout \in Nat
ASSUME ApduAssumption == MaxApdus \in Nat

NoAddress == 0
NotConnected == -1    \* _connectedTsap without a connection
Off == -1             \* a timer that is not enabled

(* An answer has the number of its request.                                *)
Apdu == [kind : {"none", "request", "answer"}, n : Nat]
NoApdu == [kind |-> "none", n |-> 0]
Answer(apdu) == [kind |-> "answer", n |-> apdu.n]

Seq4 == 0 .. SeqNumbers - 1
FrameType == {"Connect", "Disconnect", "Ack", "Nack", "Data", "Individual"}
Frame == [type : FrameType, seq : Seq4, apdu : Apdu]
FrameOf(type, seq, apdu) == [type |-> type, seq |-> seq, apdu |-> apdu]

States == {"Closed", "OpenIdle", "OpenWait", "Connecting"}

Layer ==
  [state : States,
   connectionAddress : Partners \union {NoAddress},
   seqNoSend : Seq4,
   seqNoRecv : Seq4,
   connTimer : Off .. ConnectionTimeout + 1,
   ackTimer : Off .. AckTimeout + 1,
   repCount : 0 .. MaxRepCount,
   savedFrame : Apdu,         \* _savedFrame: the APDU waiting for its ack
   saved : Apdu,              \* _savedFrameConnecting while it is valid
   connectedTsap : Partners \union {NoAddress, NotConnected},
   sent : [Partners \union {NoAddress} -> Seq(Frame)],
   passed : Seq(Apdu)]

NoneSent == [p \in Partners \union {NoAddress} |-> <<>>]

InitLayer ==
  [state |-> "Closed", connectionAddress |-> NoAddress,
   seqNoSend |-> 0, seqNoRecv |-> 0, connTimer |-> Off, ackTimer |-> Off,
   repCount |-> 0, savedFrame |-> NoApdu, saved |-> NoApdu,
   connectedTsap |-> NotConnected, sent |-> NoneSent, passed |-> <<>>]

-----------------------------------------------------------------------------
(* Frames and timers.                                                      *)

Send(t, to, type, seq, apdu) ==
  [t EXCEPT !.sent[to] = Append(@, FrameOf(type, seq, apdu))]

SendControlTelegram(t, type, seq) == Send(t, t.connectionAddress, type, seq, NoApdu)

EnableConnectionTimeout(t) == [t EXCEPT !.connTimer = 0]
DisableTimeouts(t) == [t EXCEPT !.connTimer = Off, !.ackTimer = Off]

IncSeqNr(seq) == IF seq + 1 > SeqNumbers - 1 THEN 0 ELSE seq + 1

(* ((_seqNoRecv - 1) & 0xF).                                               *)
Previous(seq) == IF seq = 0 THEN SeqNumbers - 1 ELSE seq - 1

(* What ends a connection leaves the request that was saved alone.         *)
Close(t) == [t EXCEPT !.state = "Closed"]

(* Fault: the application keeps the connection.                            *)
BugConnectionClosed(t) == t

(* disconnectIndication and disconnectConfirm of the application layer.    *)
ConnectionClosed(t) == [t EXCEPT !.connectedTsap = NotConnected]

-----------------------------------------------------------------------------
(* The actions of the state machine that send data.                        *)

A7(t, apdu) ==
  [Send(t, t.connectionAddress, "Data", t.seqNoSend, apdu)
     EXCEPT !.savedFrame = apdu, !.repCount = 0, !.ackTimer = 0, !.connTimer = 0]

(* Fault: repeats are not counted.                                         *)
BugA9(t) ==
  [Send(t, t.connectionAddress, "Data", t.seqNoSend, t.savedFrame)
     EXCEPT !.ackTimer = 0, !.connTimer = 0]

(* The frame of A7 again; its number is still that of _seqNoSend.          *)
A9(t) ==
  [Send(t, t.connectionAddress, "Data", t.seqNoSend, t.savedFrame)
     EXCEPT !.repCount = @ + 1, !.ackTimer = 0, !.connTimer = 0]

A11(t, apdu) == [t EXCEPT !.saved = apdu]

(* Fault: a request for a closed connection is kept for the next one.      *)
BugDataConnectedRequest(t, apdu) ==
  IF t.state = "OpenIdle" THEN A7([t EXCEPT !.state = "OpenWait"], apdu)
                          ELSE A11(t, apdu)

(* E15.                                                                    *)
DataConnectedRequest(t, apdu) ==
  CASE t.state = "Closed" -> t
    [] t.state = "OpenIdle" -> A7([t EXCEPT !.state = "OpenWait"], apdu)
    [] OTHER -> A11(t, apdu)

(* ApplicationLayer::individualSend: in the connection if it is asap's.    *)
IndividualSend(t, asap, apdu) ==
  IF asap = t.connectedTsap THEN DataConnectedRequest(t, apdu)
                            ELSE Send(t, asap, "Individual", 0, apdu)

(* The application is given an APDU and answers it, or does not.           *)
Indicate(t, source, apdu, answers) ==
  IF answers THEN IndividualSend(t, source, Answer(apdu)) ELSE t

-----------------------------------------------------------------------------
(* The other actions of the state machine.                                 *)

(* Fault: the numbers of the last connection go on.                        *)
BugA1(t, source) ==
  EnableConnectionTimeout(
    [t EXCEPT !.connectionAddress = source, !.connectedTsap = source])

A1(t, source) ==
  EnableConnectionTimeout(
    [t EXCEPT !.connectionAddress = source, !.connectedTsap = source,
              !.seqNoSend = 0, !.seqNoRecv = 0])

(* Fault: the number goes on after the answer only, and not in OpenWait.   *)
BugA2(t, source, apdu, answers) ==
  LET acked == SendControlTelegram(t, "Ack", t.seqNoRecv)
      taken == [acked EXCEPT !.seqNoRecv = IF t.state = "OpenIdle" THEN IncSeqNr(@) ELSE @,
                             !.passed = Append(@, apdu)]
  IN  EnableConnectionTimeout(Indicate(taken, source, apdu, answers))

A2(t, source, apdu, answers) ==
  LET acked == SendControlTelegram(t, "Ack", t.seqNoRecv)
      taken == [acked EXCEPT !.seqNoRecv = IncSeqNr(@), !.passed = Append(@, apdu)]
  IN  EnableConnectionTimeout(Indicate(taken, source, apdu, answers))

A3(t, seq) == EnableConnectionTimeout(SendControlTelegram(t, "Ack", seq))
A4(t, seq) == EnableConnectionTimeout(SendControlTelegram(t, "Nack", seq))
A5(t) == DisableTimeouts(ConnectionClosed(t))
A6(t) == A5(SendControlTelegram(t, "Disconnect", 0))

(* dataConnectedConfirm does nothing.  The frame is not read any more.     *)
A8(t) ==
  EnableConnectionTimeout(
    [t EXCEPT !.ackTimer = Off, !.seqNoSend = IncSeqNr(@), !.savedFrame = NoApdu])

A10(t, source) == Send(t, source, "Disconnect", 0, NoApdu)

(* ApplicationLayer::connectConfirm gets 0 for a tsap and keeps it.        *)
A13(t) == [t EXCEPT !.connectedTsap = NoAddress]

(* E19, E20: what became of a T_Connect on the line.  Whose it was is not  *)
(* looked at.                                                              *)
ConnectConfirm(t, status) ==
  CASE t.state # "Connecting" -> t
    [] t.state = "Connecting" /\ status -> A13([t EXCEPT !.state = "OpenIdle"])
    [] t.state = "Connecting" /\ ~status -> A5(Close(t))

(* The confirm of the T_Connect comes in the same call or later.           *)
A12(t, destination, con) ==
  LET asked == [Send(t, destination, "Connect", 0, NoApdu)
                  EXCEPT !.connectionAddress = destination]
      told == IF con = "later" THEN asked ELSE ConnectConfirm(asked, con = "sent")
  IN  EnableConnectionTimeout([told EXCEPT !.seqNoSend = 0, !.seqNoRecv = 0])

-----------------------------------------------------------------------------
(* Indications of the network layer.                                       *)

OpenOrConnecting(t) == t.state # "Closed"
Open(t) == t.state \in {"OpenIdle", "OpenWait"}

(* E7, E10, E14: a frame of a connection we do not have.                   *)
Stranger(t, source) == IF t.state = "Connecting" THEN A10(t, source) ELSE t

(* E4 to E6.                                                               *)
DataWhenOpen(t, source, seq, apdu, answers) ==
  CASE seq = t.seqNoRecv -> A2(t, source, apdu, answers)
    [] seq = Previous(t.seqNoRecv) -> A3(t, seq)
    [] OTHER -> A4(t, seq)

(* In Connecting, E6 leaves the state as it is.                            *)
DataWhenConnecting(t, seq) ==
  CASE seq = t.seqNoRecv -> A6(Close(t))
    [] seq = Previous(t.seqNoRecv) -> A3(t, seq)
    [] OTHER -> A6(t)

(* E4 to E7.                                                               *)
DataIndication(t, source, seq, apdu, answers) ==
  IF source # t.connectionAddress THEN Stranger(t, source)
  ELSE CASE t.state = "Closed" -> t
         [] t.state = "Connecting" -> DataWhenConnecting(t, seq)
         [] Open(t) -> DataWhenOpen(t, source, seq, apdu, answers)

(* E0, E1.                                                                 *)
ConnectIndication(t, source) ==
  CASE t.state = "Closed" -> A1([t EXCEPT !.state = "OpenIdle"], source)
    [] t.state # "Closed" /\ source = t.connectionAddress -> t
    [] t.state # "Closed" /\ source # t.connectionAddress -> A10(t, source)

(* E2, E3.                                                                 *)
DisconnectIndication(t, source) ==
  IF source = t.connectionAddress /\ OpenOrConnecting(t) THEN A5(Close(t)) ELSE t

(* E8 to E10.                                                              *)
AckIndication(t, source, seq) ==
  CASE source # t.connectionAddress -> Stranger(t, source)
    [] source = t.connectionAddress /\ t.state = "Connecting" -> A6(Close(t))
    [] source = t.connectionAddress /\ t.state = "OpenWait" ->
         IF seq = t.seqNoSend THEN A8([t EXCEPT !.state = "OpenIdle"])
                              ELSE A6(Close(t))
    [] OTHER -> t

(* E11 to E14.                                                             *)
NackIndication(t, source, seq) ==
  CASE source # t.connectionAddress -> Stranger(t, source)
    [] source = t.connectionAddress /\ seq # t.seqNoSend ->
         IF t.state = "Connecting" THEN A6(Close(t)) ELSE t
    [] source = t.connectionAddress /\ seq = t.seqNoSend ->
         CASE t.state = "Closed" -> t
           [] t.state = "OpenWait" /\ t.repCount < MaxRepCount -> A9(t)
           [] OTHER -> A6(Close(t))

DataIndividualIndication(t, source, type, seq, apdu, answers) ==
  CASE type = "Individual" -> Indicate(t, source, apdu, answers)
    [] type = "Data" -> DataIndication(t, source, seq, apdu, answers)
    [] type = "Connect" -> ConnectIndication(t, source)
    [] type = "Disconnect" -> DisconnectIndication(t, source)
    [] type = "Ack" -> AckIndication(t, source, seq)
    [] type = "Nack" -> NackIndication(t, source, seq)

-----------------------------------------------------------------------------
(* Requests of the application.                                            *)

(* E25.                                                                    *)
ConnectRequest(t, destination, con) ==
  IF t.state = "Closed"
    THEN A12([t EXCEPT !.state = "Connecting"], destination, con)
    ELSE A6(Close(t))

(* BauSystemB::restartRequest.  Unless the T_Connect was refused at once,  *)
(* the partner's device descriptor is read.  nextRestartState, which would *)
(* send the restart, is not called in the loop of this device.             *)
RestartRequest(t, asap, con) ==
  LET asked == ConnectRequest(t, asap, con)
  IN  CASE t.connectedTsap # NotConnected -> t
        [] t.connectedTsap = NotConnected /\ asked.state = "Closed" -> asked
        [] OTHER -> IndividualSend(asked, asap, NoApdu)

-----------------------------------------------------------------------------
(* TransportLayer::loop.                                                   *)

(* E16.                                                                    *)
ConnectionTimeoutIndication(t) == IF t.state = "Closed" THEN t ELSE A6(Close(t))

(* E17, E18.                                                               *)
AckTimeoutIndication(t) ==
  CASE t.state # "OpenWait" -> t
    [] t.state = "OpenWait" /\ t.repCount < MaxRepCount -> A9(t)
    [] t.state = "OpenWait" /\ t.repCount >= MaxRepCount -> A6(Close(t))

(* Fault: the saved request stays valid.                                   *)
BugLayerLoop(t) ==
  LET t1 == IF t.connTimer > ConnectionTimeout THEN ConnectionTimeoutIndication(t) ELSE t
      t2 == IF t1.ackTimer > AckTimeout THEN AckTimeoutIndication(t1) ELSE t1
  IN  IF t2.saved = NoApdu \/ t2.state # "OpenIdle" THEN [t2 EXCEPT !.saved = NoApdu]
      ELSE DataConnectedRequest(t2, t2.saved)

(* The timeouts, then the saved request once more.                         *)
LayerLoop(t) ==
  LET t1 == IF t.connTimer > ConnectionTimeout THEN ConnectionTimeoutIndication(t) ELSE t
      t2 == IF t1.ackTimer > AckTimeout THEN AckTimeoutIndication(t1) ELSE t1
  IN  IF t2.saved = NoApdu THEN t2
      ELSE DataConnectedRequest([t2 EXCEPT !.saved = NoApdu], t2.saved)

(* A step of time.  A timer may stay enabled in Closed (A12).              *)
Due(t) ==
  t.state # "Closed" /\ (t.connTimer > ConnectionTimeout \/ t.ackTimer > AckTimeout)
Age(timer, limit) == IF timer = Off \/ timer > limit THEN timer ELSE timer + 1
Older(t) == [t EXCEPT !.connTimer = Age(@, ConnectionTimeout),
                      !.ackTimer = Age(@, AckTimeout)]

=============================================================================
