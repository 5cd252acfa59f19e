---------------------------- MODULE TunnelUplink ----------------------------
(***************************************************************************)
(* Requests of tunnelling and device management clients to the server      *)
(* (IpDataLinkLayer, CemiServer, DataLinkLayer), what becomes of them and  *)
(* who hears of it.                                                        *)
(*                                                                         *)
(* A client has one request on its way at a time and repeats it until it   *)
(* is acknowledged.  The server tells a repeat from a new request by an    *)
(* octet and executes a request in the step that acknowledges it.  A       *)
(* telegram goes to the other tunnels and into the transmit queue of the   *)
(* line; its L_Data.con comes with the answer of the line and finds its    *)
(* client by the source address, which by then may be another's.           *)
(*                                                                         *)
(* A session is one connection from its CONNECT_REQUEST on; it stands for  *)
(* the channel id and the client's host (TunnelServer: ids and addresses   *)
(* of open connections differ).  A frame for a client is put in its inbox  *)
(* (TunnelDelivery: in this order, if the channel stays open).  The line   *)
(* answers every frame once (TpTransmit: but for a restart of the chip).   *)
(***************************************************************************)
EXTENDS Integers, FiniteSets, Sequences

CONSTANTS
  Sessions,     \* connections in the order they are opened
  Addresses,    \* the tunnels' individual addresses
  NoAddress,    \* IndividualAddress of a free slot or of a device management connection
  SeqMod,       \* the sequence counter is one octet: 256
  MaxLate,      \* a datagram is at most that many requests late
  Services,     \* what the client of each session asks for
  MaxRequests,  \* bound: requests of each session
  MaxLine       \* bound: frames in the transmit queue

ASSUME SessionAssumption == Sessions \subseteq Nat
ASSUME AddressAssumption == NoAddress \notin Addresses
ASSUME SeqModAssumption == SeqMod \in Nat /\ SeqMod > 1
ASSUME LateAssumption == MaxLate \in Nat /\ MaxLate <= SeqMod - 2
ASSUME BoundAssumption == MaxRequests \in [Sessions -> Nat] /\ MaxLine \in Nat

(* What is asked for: local device management, or a telegram to a group,   *)
(* to this device or to an address; one that no tunnel has is a device's.  *)
Destination == {"group", "self"} \union Addresses
Service == {"management"} \union Destination

ASSUME ServiceAssumption == Services \in [Sessions -> SUBSET Service]

VARIABLES
  conn,     \* tunnels[], by session
  client,   \* the client of each session
  net,      \* datagrams on their way, in either direction
  taken,    \* history: numbers of the requests executed, in order
  line,     \* frames in the transmit queue of the line
  inbox     \* frames offered to each session's client, in order

vars == <<conn, client, net, taken, line, inbox>>

Seq8 == 0 .. SeqMod - 1

Connection ==
  [state : {"new", "open", "closed"}, IsConfig : BOOLEAN,
   IndividualAddress : Addresses \union {NoAddress}, SequenceCounter_R : Seq8]

Client == [n : Nat, to : Service, waiting : BOOLEAN]

(* Of n, the number of the request in its session, the octet Octet(n) is   *)
(* on the wire: 0 for the first.                                           *)
Octet(n) == (n + SeqMod - 1) % SeqMod
Request == [type : {"request"}, s : Sessions, n : Nat, to : Service]
Ack == [type : {"ack"}, s : Sessions, n : Nat]

(* s and n are history: the request a frame comes from.                    *)
Frame == [s : Sessions, n : Nat, to : Destination, source : Addresses]
Message == [kind : {"con", "ind", "answer"}, s : Sessions, n : Nat]

FirstReceived == SeqMod - 1

Init ==
  /\ conn = [s \in Sessions |->
               [state |-> "new", IsConfig |-> FALSE, IndividualAddress |-> NoAddress,
                SequenceCounter_R |-> FirstReceived]]
  /\ client = [s \in Sessions |-> [n |-> 0, to |-> "group", waiting |-> FALSE]]
  /\ net = {}
  /\ taken = [s \in Sessions |-> <<>>]
  /\ line = <<>>
  /\ inbox = [s \in Sessions |-> <<>>]

-----------------------------------------------------------------------------
(* Connections come and go (TunnelServer).                                 *)

Open(s) == conn[s].state = "open"
Tunnels == {s \in Sessions : Open(s) /\ ~conn[s].IsConfig}
Holders(address) == {s \in Tunnels : conn[s].IndividualAddress = address}

(* Fault: the first request counts as a repeat.                            *)
BugConnected(isConfig, address) ==
  [state |-> "open", IsConfig |-> isConfig, IndividualAddress |-> address,
   SequenceCounter_R |-> 0]

Connected(isConfig, address) ==
  [state |-> "open", IsConfig |-> isConfig, IndividualAddress |-> address,
   SequenceCounter_R |-> FirstReceived]

(* Fault: the address is not looked for in the open tunnels.               *)
BugFree(address) == TRUE

(* TunnelServer: an address is given to one open tunnel at a time.         *)
Free(address) == Holders(address) = {}

(* The session's slot is new; its client is told the channel.              *)
Connect(s) ==
  /\ conn[s].state = "new"
  /\ \A t \in Sessions : t < s => conn[t].state # "new"
  /\ \/ conn' = [conn EXCEPT ![s] = Connected(TRUE, NoAddress)]
     \/ \E address \in Addresses :
          /\ Free(address)
          /\ conn' = [conn EXCEPT ![s] = Connected(FALSE, address)]
  /\ UNCHANGED <<client, net, taken, line, inbox>>

(* By DISCONNECT_REQUEST, a timeout or a reserved slot taken over.         *)
Close(s) ==
  /\ Open(s)
  /\ conn' = [conn EXCEPT ![s].state = "closed",
                          ![s].IndividualAddress = NoAddress]
  /\ UNCHANGED <<client, net, taken, line, inbox>>

-----------------------------------------------------------------------------
(* The client and the network.                                             *)

CurrentRequest(s) ==
  [type |-> "request", s |-> s, n |-> client[s].n, to |-> client[s].to]

ClientRequests(s) ==
  /\ Open(s) /\ ~client[s].waiting /\ client[s].n < MaxRequests[s]
  /\ \A d \in net : d.s = s => d.n + MaxLate > client[s].n
  /\ \E to \in Services[s] :
       client' = [client EXCEPT ![s] =
                    [n |-> client[s].n + 1, to |-> to, waiting |-> TRUE]]
  /\ net' = net \union {CurrentRequest(s)'}
  /\ UNCHANGED <<conn, taken, line, inbox>>

ClientRepeats(s) ==
  /\ client[s].waiting
  /\ net' = net \union {CurrentRequest(s)}
  /\ UNCHANGED <<conn, client, taken, line, inbox>>

(* d is delivered; the network may deliver it again.                       *)
Consumed(d) == {net, net \ {d}}

ClientAcknowledged(s) ==
  \E d \in net :
    /\ d.type = "ack" /\ d.s = s
    /\ client[s].waiting /\ Octet(d.n) = Octet(client[s].n)
    /\ client' = [client EXCEPT ![s].waiting = FALSE]
    /\ net' \in Consumed(d)
    /\ UNCHANGED <<conn, taken, line, inbox>>

Vanish ==
  \E d \in net :
    /\ net' = net \ {d}
    /\ UNCHANGED <<conn, client, taken, line, inbox>>

-----------------------------------------------------------------------------
(* What a request does.                                                    *)

Put(boxes, to, message) ==
  [s \in Sessions |-> IF s \in to THEN Append(boxes[s], message) ELSE boxes[s]]

MessageOf(kind, f) == [kind |-> kind, s |-> f.s, n |-> f.n]

(* Fault: the tunnel that is the destination is passed over.               *)
BugConfirmed(boxes, f) ==
  Put(boxes, {s \in Holders(f.source) : conn[s].IndividualAddress # f.to},
      MessageOf("con", f))

(* dataConfirmationToTunnel: to the open tunnel that has the source.  The  *)
(* result it carries is TpTransmit's.                                      *)
Confirmed(boxes, f) == Put(boxes, Holders(f.source), MessageOf("con", f))

(* Who gets an indication: every other tunnel, or the one addressed.       *)
Hearers(f) ==
  {s \in Tunnels : /\ conn[s].IndividualAddress # f.source
                   /\ f.to = "group" \/ conn[s].IndividualAddress = f.to}

Indicated(boxes, f) == Put(boxes, Hearers(f), MessageOf("ind", f))

(* The answer of this device to f, if it makes one.                        *)
Answered(boxes, f) == {boxes, Put(boxes, Holders(f.source), MessageOf("answer", f))}

(* Fault: the telegram is confirmed when the local stack is done with it.  *)
BugLocal(f) ==
  \E boxes \in Answered(Indicated(inbox, f), f) : inbox' = Confirmed(boxes, f)

(* To this device's own address: confirmed, then the local stack.          *)
Local(f) == inbox' \in Answered(Indicated(Confirmed(inbox, f), f), f)

(* sendFrame: queued for the line, or refused and confirmed negatively.    *)
DataRequestFromTunnel(f) ==
  IF f.to = "self"
    THEN Local(f) /\ UNCHANGED line
    ELSE \/ /\ Len(line) < MaxLine
            /\ line' = Append(line, f)
            /\ inbox' = Indicated(inbox, f)
         \/ /\ inbox' = Confirmed(Indicated(inbox, f), f)
            /\ UNCHANGED line

(* A telegram on a device management connection.                           *)
Ignored(d) == conn[d.s].IsConfig /\ d.to # "management"

(* Local device management is answered on the channel it came from.  (Left *)
(* out: the restart after an M_Reset, and the M_PropInfo_ind that go to    *)
(* all device management connections of the device's own accord.)         *)
Execute(d) ==
  IF Ignored(d) THEN UNCHANGED <<line, inbox>>
  ELSE IF d.to = "management"
    THEN /\ inbox' = Put(inbox, {d.s}, MessageOf("answer", d))
         /\ UNCHANGED line
    ELSE DataRequestFromTunnel(
           [s |-> d.s, n |-> d.n, to |-> d.to,
            source |-> conn[d.s].IndividualAddress])

-----------------------------------------------------------------------------
(* loopHandleTunnelingRequest, loopHandleDeviceConfigurationRequest.       *)

AckOf(d) == [type |-> "ack", s |-> d.s, n |-> d.n]

(* The octet is that of the request executed last, or the one after it.    *)
Repeat(d) == Octet(d.n) = conn[d.s].SequenceCounter_R

(* Fault: everything but a repeat is taken.                                *)
BugExpected(d) == ~Repeat(d)

Expected(d) == (Octet(d.n) - 1) % SeqMod = conn[d.s].SequenceCounter_R

(* Its ack was lost: acknowledged again and nothing else.                  *)
RequestRepeated(s) ==
  \E d \in net :
    /\ d.type = "request" /\ d.s = s /\ Open(s) /\ Repeat(d)
    /\ \E left \in Consumed(d) : net' = left \union {AckOf(d)}
    /\ UNCHANGED <<conn, client, taken, line, inbox>>

(* The ack goes out before the request is executed, in the same handler.   *)
RequestExecuted(s) ==
  \E d \in net :
    /\ d.type = "request" /\ d.s = s /\ Open(s)
    /\ ~Repeat(d) /\ Expected(d)
    /\ \E left \in Consumed(d) : net' = left \union {AckOf(d)}
    /\ conn' = [conn EXCEPT ![s].SequenceCounter_R = Octet(d.n)]
    /\ taken' = [taken EXCEPT ![s] = Append(@, d.n)]
    /\ Execute(d)
    /\ UNCHANGED client

(* Discarded without an ack: any other octet, or no such channel.          *)
RequestDiscarded(s) ==
  \E d \in net :
    /\ d.type = "request" /\ d.s = s
    /\ Open(s) => ~Repeat(d) /\ ~Expected(d)
    /\ net' \in Consumed(d)
    /\ UNCHANGED <<conn, client, taken, line, inbox>>

(* dataConReceived: the line is done with its oldest frame, whatever the   *)
(* result.  The con of a source no tunnel has is not for a client.         *)
LineAnswers ==
  /\ line # <<>>
  /\ inbox' = Confirmed(inbox, Head(line))
  /\ line' = Tail(line)
  /\ UNCHANGED <<conn, client, net, taken>>

Next ==
  \/ \E s \in Sessions :
       \/ Connect(s) \/ Close(s)
       \/ ClientRequests(s) \/ ClientRepeats(s) \/ ClientAcknowledged(s)
       \/ RequestRepeated(s) \/ RequestExecuted(s) \/ RequestDiscarded(s)
  \/ Vanish
  \/ LineAnswers

Spec == Init /\ [][Next]_vars

-----------------------------------------------------------------------------
(* Properties.                                                             *)

TypeOK ==
  /\ conn \in [Sessions -> Connection]
  /\ client \in [Sessions -> Client]
  /\ net \subseteq Request \union Ack
  /\ taken \in [Sessions -> Seq(Nat)]
  /\ line \in Seq(Frame)
  /\ inbox \in [Sessions -> Seq(Message)]

(* Requests are executed once each, in the order the client made them,     *)
(* whatever the network repeats and however the octet wraps: a repeated    *)
(* M_PropWrite or M_Reset is not run twice.                                *)
TakenInOrder ==
  \A s \in Sessions :
    /\ \A i \in DOMAIN taken[s] : taken[s][i] = i
    /\ Len(taken[s]) <= client[s].n

(* A request the client holds for acknowledged was executed.               *)
AckedWasTaken ==
  \A s \in Sessions : ~client[s].waiting => Len(taken[s]) = client[s].n

Places(seq, kind, s, n) ==
  {i \in DOMAIN seq : seq[i].kind = kind /\ seq[i].s = s /\ seq[i].n = n}
Queued(s, n) == {i \in DOMAIN line : line[i].s = s /\ line[i].n = n}

(* While its tunnel is open, every telegram a client sent is in the queue  *)
(* of the line or was confirmed to it, once and not both.  (A request is   *)
(* a telegram when it is not answered as local device management.)         *)
ConAccounted ==
  \A s \in Tunnels : \A i \in DOMAIN taken[s] :
    \/ Cardinality(Places(inbox[s], "con", s, i)) + Cardinality(Queued(s, i)) = 1
    \/ /\ Places(inbox[s], "answer", s, i) # {}
       /\ Places(inbox[s], "con", s, i) = {} /\ Queued(s, i) = {}

(* A con that is not the client's own comes from a session that ended      *)
(* before: its address was handed out again while its telegram was queued. *)
ConFromPredecessor ==
  \A s \in Sessions : \A i \in DOMAIN inbox[s] :
    inbox[s][i].kind = "con" =>
      \/ inbox[s][i].s = s
      \/ inbox[s][i].s < s /\ conn[inbox[s][i].s].state = "closed"

(* An answer of this device reaches the client after the con of the        *)
(* telegram it answers.                                                    *)
AnswerAfterCon ==
  \A s \in Sessions : \A i, j \in DOMAIN inbox[s] :
    /\ inbox[s][i].kind = "answer" /\ inbox[s][j].kind = "con"
    /\ inbox[s][i].s = s /\ inbox[s][j].s = s
    /\ inbox[s][i].n = inbox[s][j].n
    => j < i

(* No client hears its own telegram as an indication.                      *)
NoEcho ==
  \A s \in Sessions : \A i \in DOMAIN inbox[s] :
    inbox[s][i].kind = "ind" => inbox[s][i].s # s

(* A device management connection is sent nothing but the answers to its   *)
(* own requests, and nothing of it reaches the line or another client.     *)
ManagementApart ==
  \A s \in Sessions : conn[s].IsConfig =>
    /\ \A i \in DOMAIN inbox[s] : inbox[s][i].kind = "answer" /\ inbox[s][i].s = s
    /\ \A t \in Sessions \ {s} : \A i \in DOMAIN inbox[t] : inbox[t][i].s # s
    /\ \A i \in DOMAIN line : line[i].s # s

=============================================================================
