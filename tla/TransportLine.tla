--------------------------- MODULE TransportLine ----------------------------
(***************************************************************************)
(* The transport layer of the device with its partners: a configuration    *)
(* tool that connects, sends requests and takes answers over a line that   *)
(* loses and repeats frames, and another device that sends what it likes.  *)
(* The device itself may be asked to open a connection to either of them;  *)
(* the gateway's application does not ask, the library's interface offers  *)
(* it (KnxFacade::restart).                                                *)
(*                                                                         *)
(* Tool, line and the other device are environment.  The tool keeps the    *)
(* protocol of the layer's other end: it numbers its requests, has one on  *)
(* the line at a time, repeats it, and gives up; it may also crash.        *)
(***************************************************************************)
EXTENDS TransportLayer

CONSTANTS
  Tool, Other,
  OtherTypes,      \* frames the other device sends
  MaxConnects,     \* bound: connections of the tool
  MaxLine,         \* bound: frames on the way in one direction
  MaxRestarts      \* bound: connections the device is asked to open

ASSUME ToolAssumption == Partners = {Tool, Other} /\ Tool # Other
ASSUME LineAssumption ==
  /\ OtherTypes \subseteq FrameType
  /\ MaxConnects \in Nat
  /\ MaxLine \in Nat /\ MaxRestarts \in Nat

VARIABLES
  tl,          \* the device's layer
  tool,        \* the tool's end
  toDevice,    \* frames from the tool
  toTool,      \* frames for the tool
  unconfirmed, \* T_Connects of the device without a confirm
  restarts,    \* bound: connections asked for so far
  taken,       \* history: requests of the tool's connections the application got
  closedSince  \* history: the connection was closed since the last loop

vars == <<tl, tool, toDevice, toTool, unconfirmed, restarts, taken, closedSince>>

(* role is "client" after a T_Connect of its own.  requests counts all its *)
(* requests.  acked, got and fresh are history: the request acknowledged   *)
(* last, the answers taken, both in the present connection, and that this  *)
(* connection was opened at the device when none was open, none had been   *)
(* since its last loop, and no frame of an earlier one was on its way or   *)
(* taken for one of this; the device has not connected to the tool since.  *)
ToolEnd ==
  [role : {"none", "client", "server"}, send : Seq4, recv : Seq4,
   waits : BOOLEAN, connects : 0 .. MaxConnects,
   requests : 0 .. MaxApdus,
   acked : 0 .. MaxApdus, got : Seq(Apdu), fresh : BOOLEAN]

InitTool ==
  [role |-> "none", send |-> 0, recv |-> 0, waits |-> FALSE,
   connects |-> 0, requests |-> 0, acked |-> 0, got |-> <<>>,
   fresh |-> FALSE]

Request(n) == [kind |-> "request", n |-> n]

(* A T_Connect has the number of the connection.                           *)
ConnectFrame(n) == FrameOf("Connect", 0, [kind |-> "none", n |-> n])

-----------------------------------------------------------------------------
(* The device runs a handler: r is the layer after it.  In a pass of the   *)
(* main loop the data link layers hand up what they received, then comes   *)
(* the layer's own loop, then the application.                             *)

(* What does not fit on the line is lost.                                  *)
Fill(line, frames) ==
  LET all == line \o frames
  IN  IF Len(all) <= MaxLine THEN all ELSE SubSeq(all, 1, MaxLine)

Handle(r) ==
  /\ tl' = [r EXCEPT !.sent = NoneSent, !.passed = <<>>]
  /\ toTool' = Fill(toTool, r.sent[Tool])
  /\ taken' = IF tl.connectedTsap = Tool THEN taken \o r.passed ELSE taken

ClosedBy(r) == tl.state # "Closed" /\ r.state = "Closed"

(* A frame of the tool arrives, and is lost from the line unless repeated. *)
Arrive(answers, repeated) ==
  /\ toDevice # <<>>
  /\ LET f == Head(toDevice)
         r == DataIndividualIndication(tl, Tool, f.type, f.seq, f.apdu, answers)
     IN  /\ Handle(r)
         /\ closedSince' = (closedSince \/ ClosedBy(r))
         /\ tool' = IF /\ f.type = "Connect" /\ f.apdu.n = tool.connects
                       /\ tool.role = "client" /\ tl.state = "Closed"
                       /\ ~closedSince /\ toTool = <<>>
                       /\ tool.acked = 0 /\ tool.got = <<>>
                      THEN [tool EXCEPT !.fresh = TRUE] ELSE tool
  /\ toDevice' = IF repeated THEN toDevice ELSE Tail(toDevice)
  /\ UNCHANGED <<unconfirmed, restarts>>

(* A frame of the other device.                                            *)
ArriveOther(type) ==
  LET r == DataIndividualIndication(tl, Other, type, 0, NoApdu, FALSE)
  IN  /\ Handle(r)
      /\ closedSince' = (closedSince \/ ClosedBy(r))
      /\ UNCHANGED <<tool, toDevice, unconfirmed, restarts>>

(* The line is done with a T_Connect.                                      *)
Confirm(status) ==
  LET r == ConnectConfirm(tl, status)
  IN  /\ unconfirmed > 0 /\ unconfirmed' = unconfirmed - 1
      /\ Handle(r)
      /\ closedSince' = (closedSince \/ ClosedBy(r))
      /\ UNCHANGED <<tool, toDevice, restarts>>

Loop ==
  /\ Due(tl) \/ tl.saved # NoApdu \/ closedSince
  /\ Handle(LayerLoop(tl))
  /\ closedSince' = FALSE
  /\ UNCHANGED <<tool, toDevice, unconfirmed, restarts>>

(* Time passes; the loop runs many times before the next step.             *)
Tick ==
  /\ ~Due(tl) /\ ~closedSince
  /\ tl' = Older(tl) /\ tl' # tl
  /\ UNCHANGED <<tool, toDevice, toTool, unconfirmed, restarts, taken, closedSince>>

(* What the data link layer says of a T_Connect: the TP line, with the     *)
(* tool, later; IP, with the other device, in the same call.               *)
Confirms(p) == IF p = Tool THEN {"later"} ELSE {"sent", "failed"}

(* The application asks for a restart of p, after the layer's loop.        *)
AskRestart(p, con) ==
  /\ restarts < MaxRestarts /\ ~closedSince /\ con \in Confirms(p)
  /\ restarts' = restarts + 1
  /\ LET r == RestartRequest(tl, p, con)
     IN  /\ Handle(r)
         /\ unconfirmed' =
              IF con = "later" /\ r.state = "Connecting" THEN unconfirmed + 1 ELSE unconfirmed
  /\ tool' = [tool EXCEPT !.fresh = @ /\ p # Tool]
  /\ UNCHANGED <<toDevice, closedSince>>

-----------------------------------------------------------------------------
(* External: the tool.                                                     *)

ToolSends(frames) == toDevice' = Fill(toDevice, frames)
DeviceUnchanged == UNCHANGED <<tl, unconfirmed, restarts, taken, closedSince>>

Gone(end) == [end EXCEPT !.role = "none", !.waits = FALSE, !.send = 0, !.recv = 0,
                         !.acked = 0, !.got = <<>>, !.fresh = FALSE]

ToolConnect ==
  /\ tool.role = "none" /\ tool.connects < MaxConnects
  /\ tool' = [tool EXCEPT !.role = "client", !.connects = @ + 1]
  /\ ToolSends(<<ConnectFrame(tool.connects + 1)>>)
  /\ DeviceUnchanged /\ UNCHANGED toTool

ToolRequest ==
  /\ tool.role = "client" /\ ~tool.waits /\ tool.requests < MaxApdus
  /\ tool' = [tool EXCEPT !.waits = TRUE, !.requests = @ + 1]
  /\ ToolSends(<<FrameOf("Data", tool.send, Request(tool.requests + 1))>>)
  /\ DeviceUnchanged /\ UNCHANGED toTool

(* No ack has come.                                                        *)
ToolRepeat ==
  /\ tool.waits /\ toDevice = <<>>
  /\ ToolSends(<<FrameOf("Data", tool.send, Request(tool.requests))>>)
  /\ DeviceUnchanged /\ UNCHANGED <<tool, toTool>>

(* It is done, or gives up, or crashes without a word.                     *)
ToolEnds ==
  /\ tool.role # "none"
  /\ tool' = Gone(tool)
  /\ \/ ToolSends(<<FrameOf("Disconnect", 0, NoApdu)>>)
     \/ UNCHANGED toDevice
  /\ DeviceUnchanged /\ UNCHANGED toTool

Ignored(f) ==
  \/ f.type = "Connect" /\ tool.role # "none"
  \/ f.type \in {"Disconnect", "Data"} /\ tool.role = "none"
  \/ f.type = "Ack" /\ ~tool.waits
  \/ f.type \in {"Nack", "Individual"}

ToolTakes(f) ==
  \/ /\ f.type = "Connect" /\ tool.role = "none"
     /\ tool' = [tool EXCEPT !.role = "server"]
     /\ UNCHANGED toDevice
  \/ /\ f.type = "Disconnect" /\ tool.role # "none"
     /\ tool' = Gone(tool) /\ UNCHANGED toDevice
  \/ /\ f.type = "Ack" /\ tool.waits /\ f.seq = tool.send
     /\ tool' = [tool EXCEPT !.waits = FALSE, !.send = IncSeqNr(@),
                             !.acked = tool.requests]
     /\ UNCHANGED toDevice
  \/ /\ f.type = "Ack" /\ tool.waits /\ f.seq # tool.send
     /\ tool' = Gone(tool)
     /\ ToolSends(<<FrameOf("Disconnect", 0, NoApdu)>>)
  \/ /\ f.type = "Data" /\ tool.role # "none" /\ f.seq = tool.recv
     /\ tool' = [tool EXCEPT !.recv = IncSeqNr(@), !.got = Append(@, f.apdu)]
     /\ ToolSends(<<FrameOf("Ack", f.seq, NoApdu)>>)
  \/ /\ f.type = "Data" /\ tool.role # "none" /\ f.seq # tool.recv
     /\ UNCHANGED tool
     /\ ToolSends(<<FrameOf(IF f.seq = Previous(tool.recv) THEN "Ack" ELSE "Nack",
                            f.seq, NoApdu)>>)
  \/ Ignored(f) /\ UNCHANGED <<tool, toDevice>>

ToolReceive ==
  /\ toTool # <<>>
  /\ ToolTakes(Head(toTool))
  /\ toTool' = Tail(toTool)
  /\ DeviceUnchanged

(* External: the line loses a frame.                                       *)
Lose ==
  /\ \/ toDevice # <<>> /\ toDevice' = Tail(toDevice) /\ UNCHANGED toTool
     \/ toTool # <<>> /\ toTool' = Tail(toTool) /\ UNCHANGED toDevice
  /\ DeviceUnchanged /\ UNCHANGED tool

-----------------------------------------------------------------------------
Init ==
  /\ tl = InitLayer
  /\ tool = InitTool
  /\ toDevice = <<>> /\ toTool = <<>> /\ unconfirmed = 0
  /\ restarts = 0 /\ taken = <<>> /\ closedSince = FALSE

Next ==
  \/ \E answers, repeated \in BOOLEAN : Arrive(answers, repeated)
  \/ \E type \in OtherTypes : ArriveOther(type)
  \/ \E status \in BOOLEAN : Confirm(status)
  \/ Loop
  \/ Tick
  \/ \E p \in Partners, con \in {"later", "sent", "failed"} : AskRestart(p, con)
  \/ ToolConnect \/ ToolRequest \/ ToolRepeat \/ ToolEnds
  \/ ToolReceive \/ Lose

Spec == Init /\ [][Next]_vars

FairSpec == Spec /\ WF_vars(Loop) /\ WF_vars(Tick)

-----------------------------------------------------------------------------
TypeOK ==
  /\ tl \in Layer /\ tl.sent = NoneSent /\ tl.passed = <<>>
  /\ tool \in ToolEnd
  /\ toDevice \in Seq(Frame) /\ toTool \in Seq(Frame)
  /\ unconfirmed \in 0 .. restarts
  /\ restarts \in 0 .. MaxRestarts
  /\ taken \in Seq(Apdu)
  /\ closedSince \in BOOLEAN

(* The application holds a connection exactly while the layer has one, and *)
(* knows the partner of one that was opened from outside; otherwise its    *)
(* answers would go astray (_connectedTsap, individualSend).               *)
ApplicationAgrees ==
  /\ (tl.connectedTsap # NotConnected) <=> Open(tl)
  /\ tl.connectedTsap \in {NotConnected, NoAddress, tl.connectionAddress}

(* The application is given the tool's requests once each, in order (A2,   *)
(* A3).                                                                    *)
TakenInOrder ==
  \A i, j \in DOMAIN taken :
    /\ taken[i].kind = "request" /\ taken[j].kind = "request" /\ i < j
    => taken[i].n < taken[j].n

(* A request the tool holds for acknowledged was given to the application, *)
(* if the connection is fresh.  A T_Connect that meets the tool's earlier  *)
(* connection still open changes nothing (E0), not even the numbers, and a *)
(* request with the number before last is acknowledged unseen.             *)
AckedWasTaken ==
  tool.fresh /\ tool.acked # 0 => \E i \in DOMAIN taken : taken[i] = Request(tool.acked)

(* No answer reaches the tool twice in a fresh connection.  Out of order   *)
(* they may come: one that was saved waits for the loop, and a request     *)
(* that arrives before it is answered at once (A7, A9, A11).               *)
AnswersOnce ==
  tool.fresh =>
    \A i, j \in DOMAIN tool.got :
      tool.got[i].kind = "answer" /\ tool.got[i] = tool.got[j] => i = j

(* A request saved in one connection does not wait for the next: only when *)
(* one is closed and the next opened between two loops can it be sent in   *)
(* it, perhaps to another partner (A11, loop).                             *)
SavedEndsWithConnection ==
  tl.saved # NoApdu /\ ~closedSince => tl.state # "Closed"

(* However often it is repeated, a request is acknowledged or given up:    *)
(* the connection does not wait for ever (E17, E18).                       *)
WaitEnds == (tl.state = "OpenWait") ~> (tl.state # "OpenWait")

=============================================================================
