----------------------------- MODULE TpTransmit -----------------------------
(***************************************************************************)
(* The way of a frame onto the TP line and of its confirmation back        *)
(* (TPUart::DataLinkLayer, Transmitter, Receiver, TpUartDataLinkLayer).    *)
(*                                                                         *)
(* Two threads run here.  The main loop queues frames, writes them to the  *)
(* transceiver chip octet by octet and hands what was received to the      *)
(* stack.  The UART task takes the octets of the chip apart: the echo of   *)
(* the frame in flight, its confirmation (L_DATA_CON), frames of others,   *)
(* and the chip's own indications.  They share the transmitter's state,    *)
(* the ring of received frames and two flags; pc says how far the main     *)
(* loop is, and the UART task may run between any two of its steps unless  *)
(* it holds rxLock.                                                        *)
(*                                                                         *)
(* The chip can lose its supply from the bus and come back; it is reset by *)
(* the host when a confirmation stays out (60 s), when the receiver stays  *)
(* out of step (20 s), or when it was silent (30 s).                       *)
(*                                                                         *)
(* Octets on the serial line are grouped into the tokens the receiver      *)
(* tells apart, and a frame is written in two pieces.                      *)
(***************************************************************************)
EXTENDS TpDriver, Naturals, Sequences

CONSTANTS
  Frame,      \* frames the stack sends, each once
  NoFrame,
  Header,     \* [Frame -> ...]: control field, source and destination
  QueueMax,   \* MAX_QUEUE_SIZE
  RingMax,    \* frames the ring holds (TPUART_RX_FRAME_BUFFER_SIZE octets)
  PopMax,     \* TPUART_MAX_RXQUEUE_TIME_PER_LOOP
  UartMax,    \* bound: tokens on the serial line
  MaxDowns,   \* bound: how often the chip loses its supply
  MaxNoise    \* bound: damaged octets

ASSUME FrameAssumption == NoFrame \notin Frame
ASSUME BoundAssumption ==
  /\ {QueueMax, RingMax, UartMax, MaxDowns, MaxNoise} \subseteq Nat
  /\ PopMax \in Nat \ {0}

VARIABLES
  back,         \* where it goes on after reporting dropped frames
  pops,         \* frames taken from the ring in this pass
  queue,        \* Transmitter._queue
  frame,        \* Transmitter._frame
  tx,           \* Transmitter._state
  begun,        \* Transmitter._transmitPos is past the first octet
  dropped,      \* Transmitter._dropped
  ring,         \* DataLinkLayer._rxFrameBuffer
  wait,         \* the echo that waits for its confirmation, RX_FRAME_WAIT_ACKN
  resetPending, \* _resetPending
  loading,      \* the frame the chip is being given
  sending,      \* the frame the chip puts on the line
  echoed,       \* the chip has sent its echo
  request,      \* our reset request is on its way to the chip
  taken,        \* history: frames the stack has sent
  confs,        \* history: the confirmations of each frame
  acked,        \* history: frames the line acknowledged
  lost          \* history: frames whose confirmation was lost on its way

main == <<pc, back, pops>>
transmitter == <<queue, frame, tx, begun, dropped>>
receiver == <<ring, wait, invalid>>
link == <<uReset, resetPending, connected>>
chip == <<up, loading, sending, echoed, request>>
history == <<taken, confs, acked, lost>>
bounds == <<downs, noises>>
vars == <<main, transmitter, receiver, link, uart, chip, history, bounds>>

Token(k) == [kind |-> k, f |-> NoFrame, ok |-> FALSE]
Echo(f) == [kind |-> "echo", f |-> f, ok |-> FALSE]
Con(f, ok) == [kind |-> "con", f |-> f, ok |-> ok]   \* f is a ghost

(* An entry of the ring: own is Frame::isTransmitted, con isDataCon, ok    *)
(* isAck.                                                                  *)
Entry(f, own, con, ok) == [f |-> f, own |-> own, con |-> con, ok |-> ok]

(* Fault: handleReset does not take rxLock.                                *)
BugRxLocked == FALSE

(* rxLock is held over the reset of the transmitter; every other critical  *)
(* section is one step here.                                               *)
RxLocked == pc = "clear"

(* Fault: the frame in flight is not kept for its confirmation.            *)
BugNoneUnconfirmed == <<>>

(* Fault: a frame confirmed already is reported again.                     *)
BugAnyUnconfirmed == IF frame # NoFrame THEN <<frame>> ELSE <<>>

(* Transmitter::reset: the frame in flight, unless it is confirmed.        *)
Unconfirmed ==
  IF frame # NoFrame /\ tx \in {"transmit", "await"} THEN <<frame>> ELSE <<>>

Confirm(f, ok) == confs' = [confs EXCEPT ![f] = Append(@, ok)]

-----------------------------------------------------------------------------
(* Sending.                                                                *)

(* The stack runs between two passes and in the callbacks of a pass.       *)
StackRuns == pc \in {"idle", "ring", "report", "resetRing"}

(* TpUartDataLinkLayer::sendFrame: queued, or confirmed negatively at      *)
(* once when the bus is not operational or the queue is full.              *)
SendFrame(f) ==
  /\ StackRuns
  /\ f \notin taken
  /\ taken' = taken \union {f}
  /\ \/ /\ connected /\ Len(queue) < QueueMax
        /\ queue' = Append(queue, f)
        /\ UNCHANGED confs
     \/ /\ ~connected \/ ~up \/ Len(queue) = QueueMax
        /\ Confirm(f, FALSE)
        /\ UNCHANGED queue
  /\ UNCHANGED <<main, frame, tx, begun, dropped, receiver, link, uart, chip,
                 acked, lost, bounds>>

(* A pass of DataLinkLayer::process begins.                                *)
BeginPass ==
  /\ pc = "idle"
  /\ pc' = "handle"
  /\ connected' = (connected \/ uart # <<>>)
  /\ UNCHANGED <<back, pops, transmitter, receiver, uReset, resetPending, uart,
                 chip, history, bounds>>

(* The answer to our own reset never came.                                 *)
ResetPendingTimeout ==
  /\ pc = "handle" /\ resetPending
  /\ ~request /\ ~uReset /\ \A i \in DOMAIN uart : uart[i].kind # "reset"
  /\ resetPending' = FALSE
  /\ UNCHANGED <<main, transmitter, receiver, uReset, connected, uart, chip,
                 history, bounds>>

(* handleReset: the chip indicated a reset.  Was it not our own, what was  *)
(* in flight and queued is dropped.                                        *)
HandleReset ==
  /\ pc = "handle"
  /\ IF uReset
       THEN /\ uReset' = FALSE
            /\ connected' = TRUE
            /\ resetPending' = FALSE
            /\ pc' = IF resetPending THEN "report" ELSE "drop"
            /\ back' = "queue"
       ELSE /\ pc' = "queue"
            /\ UNCHANGED <<link, back>>
  /\ UNCHANGED <<pops, transmitter, receiver, uart, chip, history, bounds>>

(* Transmitter::reset, first the frame in flight ...                       *)
DropFrame ==
  /\ pc = "drop"
  /\ dropped' = dropped \o Unconfirmed
  /\ frame' = NoFrame
  /\ begun' = FALSE
  /\ pc' = "clear"
  /\ UNCHANGED <<back, pops, queue, tx, receiver, link, uart, chip, history, bounds>>

(* ... then the queue and the state.                                       *)
DropQueue ==
  /\ pc = "clear"
  /\ dropped' = dropped \o queue
  /\ queue' = <<>>
  /\ tx' = "idle"
  /\ pc' = "report"
  /\ UNCHANGED <<back, pops, frame, begun, receiver, link, uart, chip, history, bounds>>

(* reportDroppedFrames, TpUartDataLinkLayer::droppedFrame: one negative    *)
(* confirmation each.                                                      *)
ReportDropped ==
  /\ pc = "report"
  /\ IF dropped = <<>>
       THEN /\ pc' = back
            /\ UNCHANGED <<dropped, confs>>
       ELSE /\ Confirm(Head(dropped), FALSE)
            /\ dropped' = Tail(dropped)
            /\ UNCHANGED pc
  /\ UNCHANGED <<back, pops, queue, frame, tx, begun, receiver, link, uart, chip,
                 taken, acked, lost, bounds>>

MaySend == tx = "idle" /\ ~resetPending /\ ~invalid /\ queue # <<>>

(* Transmitter::processQueue.  A frame confirmed before is deleted.        *)
ProcessQueue ==
  /\ pc = "queue"
  /\ pc' = "transmit"
  /\ IF MaySend
       THEN /\ frame' = Head(queue)
            /\ queue' = Tail(queue)
            /\ tx' = "transmit"
            /\ begun' = FALSE
       ELSE UNCHANGED <<frame, queue, tx, begun>>
  /\ UNCHANGED <<back, pops, dropped, receiver, link, uart, chip, history, bounds>>

(* processTransmitByte, up to the last octet.  The chip takes a frame that *)
(* it is given from the start and while it is free.                        *)
TransmitStart ==
  /\ pc = "transmit" /\ tx = "transmit" /\ ~begun
  /\ begun' = TRUE
  /\ loading' = IF up /\ sending = NoFrame THEN frame ELSE NoFrame
  /\ UNCHANGED <<main, queue, frame, tx, dropped, receiver, link, uart, up,
                 sending, echoed, request, history, bounds>>

(* The last octet.                                                         *)
TransmitEnd ==
  /\ pc = "transmit" /\ tx = "transmit" /\ begun
  /\ tx' = "await"
  /\ sending' = IF loading # NoFrame THEN loading ELSE sending
  /\ echoed' = IF loading # NoFrame THEN FALSE ELSE echoed
  /\ loading' = NoFrame
  /\ UNCHANGED <<main, queue, frame, begun, dropped, receiver, link, uart, up,
                 request, history, bounds>>

(* Nothing to write, or 20 ms are over.                                    *)
EndTransmit ==
  /\ pc = "transmit"
  /\ pc' = "ring" /\ pops' = 0
  /\ UNCHANGED <<back, transmitter, receiver, link, uart, chip, history, bounds>>

-----------------------------------------------------------------------------
(* Receiving.                                                              *)

Confirms(entry) == entry.own /\ entry.con

(* processRxFrameBuffer, TpUartDataLinkLayer::processRxFrame.  An echo     *)
(* without its L_DATA_CON confirms nothing.                                *)
PopRing ==
  /\ ring' = Tail(ring)
  /\ pops' = pops + 1
  /\ IF Confirms(Head(ring))
       THEN Confirm(Head(ring).f, Head(ring).ok)
       ELSE UNCHANGED confs

ProcessRing ==
  /\ pc \in {"ring", "resetRing"}
  /\ ring # <<>> /\ pops < PopMax
  /\ PopRing
  /\ UNCHANGED <<pc, back, transmitter, wait, invalid, link, uart, chip, taken,
                 acked, lost, bounds>>

RingDone ==
  /\ pc = "ring"
  /\ ring = <<>> \/ pops = PopMax
  /\ pc' = "watch"
  /\ UNCHANGED <<back, pops, transmitter, receiver, link, uart, chip, history, bounds>>

(* Fault: the ring is not bounded.                                         *)
BugPushed(entries, unconfirmed) ==
  ring' = ring \o entries /\ lost' = lost \union unconfirmed

(* pushRxFrameBuffer: a frame that does not fit is lost, and with it the   *)
(* confirmation it carries.                                                *)
Pushed(entries, unconfirmed) ==
  LET space == RingMax - Len(ring)
      kept == IF Len(entries) <= space THEN Len(entries) ELSE space
  IN  /\ ring' = ring \o SubSeq(entries, 1, kept)
      /\ lost' = lost \union unconfirmed \union
           {entries[i].f : i \in {k \in kept + 1 .. Len(entries) : Confirms(entries[k])}}

(* The echo of the frame in flight has its header.                         *)
IsOwnEcho(t) ==
  t.kind = "echo" /\ tx = "await" /\ frame # NoFrame /\ Header[t.f] = Header[frame]

(* A held echo goes to the ring when the next octet is not its             *)
(* confirmation.                                                           *)
HeldEcho == IF wait = NoFrame THEN <<>> ELSE <<Entry(wait, TRUE, FALSE, FALSE)>>

(* Out of step, everything but a frame is skipped, until a frame ends with *)
(* nothing received after it.                                              *)
InStepAgain == invalid' = (invalid /\ Tail(uart) # <<>>)

(* Fault: a state answer ends the wait for the confirmation.               *)
BugReceiveState ==
  /\ Head(uart).kind = "state"
  /\ wait' = NoFrame
  /\ Pushed(HeldEcho, {})
  /\ UNCHANGED <<invalid, tx, uReset>>

(* U_State.ind, U_SystemStat.ind: taken, and the wait goes on.             *)
ReceiveState ==
  /\ Head(uart).kind = "state"
  /\ UNCHANGED <<ring, lost, wait, invalid, tx, uReset>>

(* Fault: the confirmation is taken for the frame in flight.               *)
BugReceiveCon ==
  /\ Head(uart).kind = "con" /\ wait # NoFrame
  /\ Pushed(<<Entry(IF tx = "await" THEN frame ELSE wait, TRUE, TRUE, Head(uart).ok)>>, {})
  /\ wait' = NoFrame
  /\ tx' = IF tx = "await" THEN "idle" ELSE tx
  /\ InStepAgain
  /\ UNCHANGED uReset

(* processSearchBufferAcknowledge: the confirmation of the held echo.      *)
ReceiveCon ==
  /\ Head(uart).kind = "con" /\ wait # NoFrame
  /\ Pushed(<<Entry(wait, TRUE, TRUE, Head(uart).ok)>>,
            IF tx = "await" /\ frame # wait THEN {frame} ELSE {})
  /\ wait' = NoFrame
  /\ tx' = IF tx = "await" THEN "idle" ELSE tx
  /\ InStepAgain
  /\ UNCHANGED uReset

(* processControlBytes: a confirmation with no echo held (orphan_cons).    *)
ReceiveOrphanCon ==
  /\ Head(uart).kind = "con" /\ wait = NoFrame
  /\ lost' = lost \union (IF tx = "await" /\ ~invalid THEN {frame} ELSE {})
  /\ tx' = IF tx = "await" /\ ~invalid THEN "idle" ELSE tx
  /\ UNCHANGED <<ring, wait, invalid, uReset>>

ReceiveOwnEcho ==
  /\ IsOwnEcho(Head(uart))
  /\ Pushed(HeldEcho, {})
  /\ wait' = Head(uart).f
  /\ UNCHANGED <<invalid, tx, uReset>>

(* A frame of another device, or an echo nobody waits for any more.        *)
ReceiveFrame ==
  /\ Head(uart).kind \in {"frame", "echo"} /\ ~IsOwnEcho(Head(uart))
  /\ Pushed(Append(HeldEcho, Entry(Head(uart).f, FALSE, FALSE, FALSE)), {})
  /\ wait' = NoFrame
  /\ InStepAgain
  /\ UNCHANGED <<tx, uReset>>

(* receivedReset, for U_Reset.ind; noise puts the receiver out of step.    *)
ReceiveControl ==
  /\ Head(uart).kind \in {"reset", "noise"}
  /\ Pushed(HeldEcho, {})
  /\ wait' = NoFrame
  /\ uReset' = (uReset \/ (Head(uart).kind = "reset" /\ ~invalid))
  /\ invalid' = (invalid \/ Head(uart).kind = "noise")
  /\ UNCHANGED tx

(* processReceviedByte, in the UART task.                                  *)
UartTask ==
  /\ uart # <<>> /\ ~RxLocked
  /\ \/ ReceiveState
     \/ ReceiveCon
     \/ ReceiveOrphanCon
     \/ ReceiveOwnEcho
     \/ ReceiveFrame
     \/ ReceiveControl
  /\ uart' = Tail(uart)
  /\ UNCHANGED <<main, queue, frame, begun, dropped, resetPending, connected,
                 chip, taken, confs, acked, bounds>>

-----------------------------------------------------------------------------
(* Watchdogs and the reset by the host.                                    *)

(* No echo and no confirmation is still to come: both follow a frame       *)
(* within seconds.                                                         *)
NoneToCome ==
  sending = NoFrame /\ \A i \in DOMAIN uart : uart[i].kind \notin {"echo", "con"}

StartReset == pc' = "resetRing" /\ pops' = 0 /\ back' = "idle"

(* Fault: the watchdog needs a link that is down.                          *)
BugTransmitterWatchdog ==
  /\ pc = "watch"
  /\ tx = "await" /\ NoneToCome /\ ~connected
  /\ StartReset
  /\ UNCHANGED <<transmitter, receiver, link, uart, chip, history, bounds>>

(* Transmitter::processWatchdog, 60 s without a confirmation.              *)
TransmitterWatchdog ==
  /\ pc = "watch"
  /\ tx = "await" /\ NoneToCome
  /\ StartReset
  /\ UNCHANGED <<transmitter, receiver, link, uart, chip, history, bounds>>

(* DataLinkLayer::processWatchdog, 20 s out of step.                       *)
DesyncWatchdog ==
  /\ pc = "watch"
  /\ connected /\ invalid /\ NoneToCome
  /\ StartReset
  /\ UNCHANGED <<transmitter, receiver, link, uart, chip, history, bounds>>

(* The loop of main.cpp, every 10 s while disconnected.                    *)
BcuRecovery ==
  /\ pc = "idle"
  /\ ~connected
  /\ StartReset
  /\ UNCHANGED <<transmitter, receiver, link, uart, chip, history, bounds>>

(* 30 s without an octet.  The state of the chip is not asked for while    *)
(* the receiver is out of step.                                            *)
Disconnect ==
  /\ pc = "watch"
  /\ connected /\ uart = <<>> /\ sending = NoFrame /\ (~up \/ invalid)
  /\ connected' = FALSE
  /\ UNCHANGED <<main, transmitter, receiver, uReset, resetPending, uart, chip,
                 history, bounds>>

EndPass ==
  /\ pc = "watch"
  /\ pc' = "idle"
  /\ UNCHANGED <<back, pops, transmitter, receiver, link, uart, chip, history, bounds>>

(* DataLinkLayer::reset hands on what was received before ...              *)
ResetRingDone ==
  /\ pc = "resetRing"
  /\ ring = <<>> \/ pops = PopMax
  /\ pc' = "resetLock"
  /\ UNCHANGED <<back, pops, transmitter, receiver, link, uart, chip, history, bounds>>

(* ... it takes rxLock and clears everything, the octets not yet received  *)
(* included, and asks the chip to restart.                                 *)
ResetLocked ==
  /\ pc = "resetLock"
  /\ dropped' = dropped \o Unconfirmed \o queue
  /\ queue' = <<>> /\ frame' = NoFrame /\ tx' = "idle" /\ begun' = FALSE
  /\ lost' = lost \union {ring[i].f : i \in {k \in DOMAIN ring : Confirms(ring[k])}}
  /\ ring' = <<>> /\ wait' = NoFrame /\ invalid' = FALSE
  /\ uart' = <<>>
  /\ uReset' = FALSE /\ connected' = TRUE
  /\ request' = up /\ resetPending' = TRUE
  /\ pc' = "report"
  /\ UNCHANGED <<back, pops, up, loading, sending, echoed, taken, confs, acked, bounds>>

-----------------------------------------------------------------------------
(* External: the transceiver and the line, as the data sheet is quoted in  *)
(* the code.                                                               *)

Says(t) == Len(uart) < UartMax /\ uart' = Append(uart, t)
ChipOnly == UNCHANGED <<main, transmitter, receiver, link, taken, confs, lost>>

(* The echo of an attempt to send; the chip repeats a frame the line does  *)
(* not acknowledge.                                                        *)
ChipEchoes(again) ==
  /\ up /\ sending # NoFrame /\ echoed = again /\ Says(Echo(sending))
  /\ echoed' = TRUE
  /\ ChipOnly /\ UNCHANGED <<up, loading, sending, request, acked, bounds>>

ChipConfirms(ok) ==
  /\ up /\ sending # NoFrame /\ echoed /\ Says(Con(sending, ok))
  /\ acked' = IF ok THEN acked \union {sending} ELSE acked
  /\ sending' = NoFrame /\ echoed' = FALSE
  /\ ChipOnly /\ UNCHANGED <<up, loading, request, bounds>>

(* It answers the state request of every second.                           *)
ChipState ==
  /\ up /\ Says(Token("state"))
  /\ ChipOnly /\ UNCHANGED <<chip, acked, bounds>>

(* A frame of another device, not between an echo and its confirmation.    *)
LineFrame ==
  /\ up /\ ~echoed /\ Says(Token("frame"))
  /\ ChipOnly /\ UNCHANGED <<chip, acked, bounds>>

ChipRestarts ==
  /\ request /\ Says(Token("reset"))
  /\ request' = FALSE /\ loading' = NoFrame /\ sending' = NoFrame /\ echoed' = FALSE
  /\ ChipOnly /\ UNCHANGED <<up, acked, bounds>>

(* The bus loses its voltage, ...                                          *)
ChipDown ==
  /\ up /\ downs < MaxDowns
  /\ up' = FALSE /\ request' = FALSE
  /\ loading' = NoFrame /\ sending' = NoFrame /\ echoed' = FALSE
  /\ downs' = downs + 1
  /\ ChipOnly /\ UNCHANGED <<uart, acked, noises>>

(* ... and has it again.                                                   *)
ChipUp ==
  /\ ~up /\ Says(Token("reset"))
  /\ up' = TRUE
  /\ ChipOnly /\ UNCHANGED <<loading, sending, echoed, request, acked, bounds>>

(* An octet is damaged, or a frame broken off.                             *)
Noise ==
  /\ noises < MaxNoise /\ Says(Token("noise"))
  /\ noises' = noises + 1
  /\ ChipOnly /\ UNCHANGED <<chip, acked, downs>>

-----------------------------------------------------------------------------
(* The handshake of begin() is done.                                       *)
Init ==
  /\ pc = "idle" /\ back = "idle" /\ pops = 0
  /\ queue = <<>> /\ frame = NoFrame /\ tx = "idle" /\ begun = FALSE
  /\ dropped = <<>>
  /\ ring = <<>> /\ wait = NoFrame /\ invalid = FALSE
  /\ uReset = TRUE /\ resetPending = FALSE /\ connected = TRUE
  /\ uart = <<>>
  /\ up = TRUE /\ loading = NoFrame /\ sending = NoFrame /\ echoed = FALSE
  /\ request = FALSE
  /\ taken = {} /\ confs = [f \in Frame |-> <<>>] /\ acked = {} /\ lost = {}
  /\ downs = 0 /\ noises = 0

MainLoop ==
  \/ BeginPass \/ HandleReset \/ DropFrame \/ DropQueue \/ ReportDropped
  \/ ProcessQueue \/ EndTransmit \/ ProcessRing \/ RingDone \/ EndPass
  \/ ResetRingDone \/ ResetLocked

Transmit == TransmitStart \/ TransmitEnd
StartOfReset == TransmitterWatchdog \/ DesyncWatchdog \/ BcuRecovery
ChipFinishes ==
  \/ ChipEchoes(FALSE)
  \/ \E ok \in BOOLEAN : ChipConfirms(ok)
  \/ ChipRestarts

Next ==
  \/ \E f \in Frame : SendFrame(f)
  \/ MainLoop
  \/ ResetPendingTimeout
  \/ Transmit \/ StartOfReset \/ Disconnect
  \/ UartTask
  \/ ChipFinishes \/ ChipEchoes(TRUE)
  \/ ChipState \/ LineFrame \/ ChipDown \/ ChipUp \/ Noise

(* The main loop goes on, the UART task has the higher priority, time      *)
(* passes for the watchdogs, and a chip that has its supply finishes what  *)
(* it is doing.  That it gets its supply back is not assumed.              *)
Fairness ==
  /\ WF_vars(MainLoop) /\ WF_vars(UartTask)
  /\ SF_vars(Transmit) /\ SF_vars(ResetPendingTimeout)
  /\ SF_vars(StartOfReset) /\ SF_vars(ChipFinishes)

Spec == Init /\ [][Next]_vars
FairSpec == Spec /\ Fairness

-----------------------------------------------------------------------------
(* Properties.                                                             *)

Entries == [f : Frame \union {NoFrame}, own : BOOLEAN, con : BOOLEAN, ok : BOOLEAN]
Tokens ==
  [kind : {"echo", "con", "state", "frame", "reset", "noise"},
   f : Frame \union {NoFrame}, ok : BOOLEAN]

(* Every variable keeps its type; queue, ring and serial line keep to      *)
(* their bounds.                                                           *)
TypeOK ==
  /\ pc \in {"idle", "handle", "drop", "clear", "report", "queue", "transmit",
             "ring", "watch", "resetRing", "resetLock"}
  /\ back \in {"idle", "queue"} /\ pops \in 0 .. PopMax
  /\ queue \in Seq(Frame) /\ Len(queue) <= QueueMax
  /\ frame \in Frame \union {NoFrame} /\ tx \in {"idle", "transmit", "await"}
  /\ begun \in BOOLEAN /\ dropped \in Seq(Frame)
  /\ ring \in Seq(Entries) /\ Len(ring) <= RingMax
  /\ wait \in Frame \union {NoFrame} /\ invalid \in BOOLEAN
  /\ {uReset, resetPending, connected, up, echoed, request} \subseteq BOOLEAN
  /\ uart \in Seq(Tokens) /\ Len(uart) <= UartMax
  /\ {loading, sending} \subseteq Frame \union {NoFrame}
  /\ UNION {taken, acked, lost} \subseteq Frame
  /\ confs \in [Frame -> Seq(BOOLEAN)]
  /\ downs \in 0 .. MaxDowns /\ noises \in 0 .. MaxNoise

InFlight == IF tx \in {"transmit", "await"} THEN {frame} ELSE {}

(* No frame the stack handed over is forgotten: until it is confirmed it   *)
(* is queued, in flight, among the dropped, or its confirmation is in the  *)
(* ring or was lost on its way.  This is the reason Transmitter::reset     *)
(* keeps what it takes away.                                               *)
Accounted ==
  \A f \in taken :
    \/ \E i \in DOMAIN queue : queue[i] = f
    \/ f \in InFlight
    \/ \E i \in DOMAIN dropped : dropped[i] = f
    \/ \E i \in DOMAIN ring : ring[i].f = f /\ Confirms(ring[i])
    \/ confs[f] # <<>>
    \/ f \in lost

(* A positive confirmation is given only for a frame the line did          *)
(* acknowledge, although echoes are told by their header alone and a       *)
(* confirmation can come in after its frame was dropped.                   *)
ConIsTrue ==
  \A f \in Frame : (\E i \in DOMAIN confs[f] : confs[f][i]) => f \in acked

(* The UART task compares an echo with the frame in flight through a       *)
(* pointer Transmitter::reset clears before it leaves TX_AWAIT: whenever   *)
(* the task can run and looks, there is a frame.                           *)
RxReadsLiveFrame == tx = "await" /\ ~RxLocked => frame # NoFrame

(* "One L_Data.con per frame": repeated echoes, state answers, resets by   *)
(* the host and dropped frames do not confirm a frame twice.               *)
AtMostOneCon == \A f \in Frame : Len(confs[f]) <= 1

(* The same while the chip does not restart by itself.                     *)
OneConWithoutRestart == downs = 0 => AtMostOneCon

(* On an undisturbed line a confirmation is lost only to a full ring: not  *)
(* to the state answers of every second, nor to repetitions and frames of  *)
(* others around it.                                                       *)
ConLostToFullRingOnly ==
  [][lost' # lost => downs > 0 \/ noises > 0 \/ Len(ring) = RingMax]_vars

(* Whatever line and chip do, the stack gets its confirmation, or it was   *)
(* lost between chip and ring; the watchdogs and the recovery of main.cpp  *)
(* see to it, a chip that never comes back included.                       *)
EventuallyConfirmed ==
  \A f \in Frame : f \in taken ~> confs[f] # <<>> \/ f \in lost

-----------------------------------------------------------------------------
(* The refinement: a frame waits while it is queued or being written; what *)
(* the chip puts on the line is the frame the line has.                    *)
Waiting ==
  (IF tx = "transmit" /\ frame # NoFrame THEN <<frame>> ELSE <<>>) \o queue

Line == INSTANCE LineContract WITH
  waiting <- Waiting,
  atLine <- sending,
  disturbed <- downs > 0

(* Queue, write, echo, confirmation and the resets of both sides together  *)
(* give the stack what LineContract promises, whatever line and chip do.   *)
ImplementsLineContract == Line!Spec

=============================================================================
