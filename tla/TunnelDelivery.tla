--------------------------- MODULE TunnelDelivery ---------------------------
(***************************************************************************)
(* Requests of the KNXnet/IP tunnel server to its clients                  *)
(* (IpDataLinkLayer, KnxIpTunnelConnection).                               *)
(*                                                                         *)
(* Every connection has a queue of requests.  The oldest one is on the     *)
(* wire until the client acknowledges it; it is repeated when no ack comes *)
(* and the channel is closed when the repeats are used up.  All queues     *)
(* share one budget of octets.  A full queue gives up group telegrams that *)
(* are not on the wire, oldest first.                                      *)
(*                                                                         *)
(* The ring TxData/TxLen/TxDroppable is a set of frames, each stamped with *)
(* the number it was offered under: ring order is stamp order.  Timers are *)
(* nondeterministic: nothing relates the 1 s and 10 s timeouts to the      *)
(* delay of a datagram.  The client and the UDP network, which loses,      *)
(* repeats and reorders datagrams, are external.                           *)
(***************************************************************************)
EXTENDS Integers, FiniteSets, Sequences, FiniteSetsExt

CONSTANTS
  Conns,        \* the connection slots
  QueueDepth,   \* KNX_TUNNEL_QUEUE_DEPTH
  QueueBytes,   \* KNX_TUNNEL_QUEUE_BYTES, over all connections
  Lengths,      \* lengths of a datagram
  SeqMod,       \* the sequence counter is one octet: 256
  MaxOffered    \* bound: frames offered to a connection while it is open

ASSUME ConnsAssumption == IsFiniteSet(Conns)
ASSUME BudgetAssumption == QueueDepth \in Nat /\ QueueBytes \in Nat
ASSUME SeqModAssumption == SeqMod \in Nat /\ SeqMod > 1
ASSUME LengthsAssumption == Lengths \subseteq Nat
ASSUME BoundAssumption == MaxOffered \in Nat

VARIABLES
  tun,          \* the connections, one record per slot
  QueuedBytes,  \* octets queued, all connections together
  net,          \* datagrams on their way, in either direction
  delivered     \* per client, the frames it accepted, in order

vars == <<tun, QueuedBytes, net, delivered>>

Stamp == 1 .. MaxOffered
Seq8 == 0 .. SeqMod - 1
Frame == [n : Stamp, len : Lengths, drop : BOOLEAN]

(* offered and sent are history: the frames offered to the open channel    *)
(* and the requests sent for the first time.  StatAcks and StatDrops are   *)
(* the stamps of the frames those two counters count.                      *)
Tunnel ==
  [open : BOOLEAN,                 \* ChannelId # 0
   IsConfig : BOOLEAN,
   TxQueue : SUBSET Frame,
   TxOnWire : BOOLEAN,             \* the oldest was sent, its ack is due
   TxSeq : Seq8,                   \* data[8] of the request on the wire
   TxRepeats : 0 .. 3,
   SequenceCounter_S : Seq8,
   StatAcks : SUBSET Stamp,
   StatDrops : SUBSET Stamp,
   offered : 0 .. MaxOffered,
   sent : Nat]

(* Only conn, seq and the frame are on the wire; k is history, the number  *)
(* of the request on its channel.                                          *)
Request == [type : {"request"}, conn : Conns, seq : Seq8, k : Nat,
            frame : Frame]
Ack == [type : {"ack"}, conn : Conns, seq : Seq8, k : Nat, ok : BOOLEAN]

(* What Reset() leaves: a free slot.                                       *)
FreeTunnel ==
  [open |-> FALSE, IsConfig |-> FALSE, TxQueue |-> {}, TxOnWire |-> FALSE,
   TxSeq |-> 0, TxRepeats |-> 0, SequenceCounter_S |-> 0,
   StatAcks |-> {}, StatDrops |-> {}, offered |-> 0, sent |-> 0]

Init ==
  /\ tun = [c \in Conns |-> FreeTunnel]
  /\ QueuedBytes = 0
  /\ net = {}
  /\ delivered = [c \in Conns |-> <<>>]

-----------------------------------------------------------------------------
(* Operators on one connection.                                            *)

Octets(frames) == MapThenSumSet(LAMBDA f : f.len, frames)
Oldest(frames) == CHOOSE f \in frames : \A g \in frames : f.n <= g.n
Stamps(frames) == {f.n : f \in frames}

(* Fault: the octets of the other connections are not looked at.           *)
BugFullByDepth(frames, bytes, len) == Cardinality(frames) >= QueueDepth

(* A queue is full for one more datagram of length len, with `bytes`       *)
(* octets queued over all connections.                                     *)
Full(frames, bytes, len) ==
  \/ Cardinality(frames) >= QueueDepth
  \/ bytes + len > QueueBytes

(* Fault: what a frame is does not matter.                                 *)
BugDropAny(t) ==
  {f \in t.TxQueue : ~(t.TxOnWire /\ f = Oldest(t.TxQueue))}

(* What dropQueuedGroupTelegram may give up: group telegrams not on the    *)
(* wire.                                                                   *)
Droppable(t) ==
  {f \in t.TxQueue : f.drop /\ ~(t.TxOnWire /\ f = Oldest(t.TxQueue))}

(* What sendFrameToTunnel gives up for a datagram of length len: the       *)
(* oldest droppable frames, one after the other until there is room; all   *)
(* of them when there never is.                                            *)
GivenUp(t, len) ==
  LET Upto(m) == {f \in Droppable(t) : f.n <= m}
      room == {m \in 0 .. t.offered :
                 ~Full(t.TxQueue \ Upto(m), QueuedBytes - Octets(Upto(m)), len)}
  IN  IF room # {} THEN Upto(Min(room)) ELSE Droppable(t)

(* SequenceCounter_S++ in one octet.                                       *)
NextSeq(seq) == (seq + 1) % SeqMod

(* The oldest request goes on the wire under the next sequence number.     *)
StartRequest(t) ==
  [t EXCEPT !.TxSeq = t.SequenceCounter_S,
            !.SequenceCounter_S = NextSeq(t.SequenceCounter_S),
            !.TxOnWire = TRUE,
            !.TxRepeats = 0,
            !.sent = t.sent + 1]

SendTunnelHead(t) ==
  IF t.TxOnWire \/ t.TxQueue = {} THEN t ELSE StartRequest(t)

(* Fault: the acknowledged request stays in the queue.                     *)
BugHeadStays(t) ==
  [t EXCEPT !.StatAcks = @ \union {Oldest(t.TxQueue).n}, !.TxOnWire = FALSE]

(* The request on the wire is acknowledged and leaves the queue.           *)
Acknowledged(t) ==
  [t EXCEPT !.TxQueue = @ \ {Oldest(t.TxQueue)},
            !.StatAcks = @ \union {Oldest(t.TxQueue).n},
            !.TxOnWire = FALSE]

MaxRepeats(t) == IF t.IsConfig THEN 3 ELSE 1

(* The request on the wire of connection c in state t.                     *)
RequestOnWire(c, t) ==
  [type |-> "request", conn |-> c, seq |-> t.TxSeq, k |-> t.sent,
   frame |-> Oldest(t.TxQueue)]

(* The network with the request on the wire of t sent to it.  Assumed of   *)
(* the network: a datagram does not outlive SeqMod - 2 newer requests of   *)
(* its channel, each of which took a round trip.                           *)
WithRequest(c, t) ==
  {m \in net : m.conn = c => t.sent + 1 < m.k + SeqMod}
    \union {RequestOnWire(c, t)}

-----------------------------------------------------------------------------
(* Actions of the server.                                                  *)

(* A successful CONNECT_REQUEST.  The channel has a ChannelId of its own,  *)
(* so the datagrams of the slot's earlier channel match no channel.        *)
Connect(c, config) ==
  /\ ~tun[c].open
  /\ tun' = [tun EXCEPT ![c] = [FreeTunnel EXCEPT !.open = TRUE,
                                                  !.IsConfig = config]]
  /\ net' = {m \in net : m.conn # c}
  /\ delivered' = [delivered EXCEPT ![c] = <<>>]
  /\ UNCHANGED QueuedBytes

(* sendFrameToTunnel when the frame gets in: frames are given up for it if *)
(* need be, it is queued, and sent if nothing is on the wire.              *)
FrameQueued(c, len, drop) ==
  LET t == tun[c]
      gone == GivenUp(t, len)
      new == [n |-> t.offered + 1, len |-> len, drop |-> drop]
      t2 == SendTunnelHead(
              [t EXCEPT !.TxQueue = (t.TxQueue \ gone) \union {new},
                        !.StatDrops = @ \union Stamps(gone),
                        !.offered = @ + 1])
  IN  /\ t.open /\ t.offered < MaxOffered
      /\ ~Full(t.TxQueue \ gone, QueuedBytes - Octets(gone), len)
      /\ tun' = [tun EXCEPT ![c] = t2]
      /\ QueuedBytes' = QueuedBytes - Octets(gone) + len
      /\ net' = IF t.TxOnWire THEN net ELSE WithRequest(c, t2)
      /\ UNCHANGED delivered

(* sendFrameToTunnel when the frame is lost, for lack of room or of heap   *)
(* memory; what was given up for it stays given up.                        *)
FrameLost(c, len) ==
  LET t == tun[c]
      gone == GivenUp(t, len)
  IN  /\ t.open /\ t.offered < MaxOffered
      /\ tun' = [tun EXCEPT ![c] =
                   [t EXCEPT !.TxQueue = @ \ gone,
                             !.StatDrops = @ \union Stamps(gone)
                                             \union {t.offered + 1},
                             !.offered = @ + 1]]
      /\ QueuedBytes' = QueuedBytes - Octets(gone)
      /\ UNCHANGED <<net, delivered>>

(* TxClear and Reset of slot c: the channel is free, its queue is gone.    *)
Reset(c) ==
  /\ tun' = [tun EXCEPT ![c] = FreeTunnel]
  /\ QueuedBytes' = QueuedBytes - Octets(tun[c].TxQueue)

(* Fault: a repeat takes the next sequence number.                         *)
BugRepeatRenumbered(c) ==
  /\ tun[c].TxRepeats < MaxRepeats(tun[c])
  /\ tun' = [tun EXCEPT ![c].TxRepeats = @ + 1,
                        ![c].TxSeq = tun[c].SequenceCounter_S,
                        ![c].SequenceCounter_S = NextSeq(@)]
  /\ net' = WithRequest(c, tun'[c])
  /\ UNCHANGED QueuedBytes

(* Fault: the repeats are not counted.                                     *)
BugRepeatForever(c) ==
  /\ net' = WithRequest(c, tun[c])
  /\ UNCHANGED <<tun, QueuedBytes>>

(* resendOrCloseTunnel: the request on the wire goes out once more as it   *)
(* is, or the channel is closed.                                           *)
ResendOrCloseTunnel(c) ==
  \/ /\ tun[c].TxRepeats < MaxRepeats(tun[c])
     /\ tun' = [tun EXCEPT ![c].TxRepeats = @ + 1]
     /\ net' = WithRequest(c, tun[c])
     /\ UNCHANGED QueuedBytes
  \/ /\ tun[c].TxRepeats >= MaxRepeats(tun[c])
     /\ Reset(c)
     /\ UNCHANGED net

(* loopTunnelTimers: the ack of the request on the wire is overdue.        *)
AckTimeout(c) ==
  /\ tun[c].open
  /\ tun[c].TxOnWire
  /\ ResendOrCloseTunnel(c)
  /\ UNCHANGED delivered

(* The channel is closed with its queue as it stands: no heartbeat in two  *)
(* minutes, a DISCONNECT_REQUEST of the client, or a reserved slot taken   *)
(* over.                                                                   *)
CloseTunnel(c) ==
  /\ tun[c].open
  /\ Reset(c)
  /\ UNCHANGED <<net, delivered>>

(* Fault: the sequence number of an ack is not looked at.                  *)
BugAnyAck(m) == ~tun[m.conn].TxOnWire

(* loopHandleAck finds the ack stale: nothing is on the wire, or another   *)
(* request is.                                                             *)
Stale(m) ==
  ~(tun[m.conn].TxOnWire /\ m.seq = tun[m.conn].TxSeq)

(* loopHandleAck for a positive ack of the request on the wire.  An ack    *)
(* for an unknown channel, from a foreign source or of the other service,  *)
(* and a stale one, change statistics only.                                *)
AckReceived(m) ==
  LET c == m.conn
      t == tun[c]
      t2 == SendTunnelHead(Acknowledged(t))
  IN  /\ m \in net /\ m \in Ack
      /\ m.ok
      /\ t.open /\ ~Stale(m)
      /\ tun' = [tun EXCEPT ![c] = t2]
      /\ QueuedBytes' = QueuedBytes - Oldest(t.TxQueue).len
      /\ net' = IF t2.TxOnWire THEN WithRequest(c, t2) ELSE net
      /\ UNCHANGED delivered

(* loopHandleAck for a negative one: it counts as no ack.                  *)
NegativeAckReceived(m) ==
  /\ m \in net /\ m \in Ack
  /\ ~m.ok
  /\ tun[m.conn].open /\ ~Stale(m)
  /\ ResendOrCloseTunnel(m.conn)
  /\ UNCHANGED delivered

-----------------------------------------------------------------------------
(* External: the client and the network.                                   *)

Accepted(c) == Len(delivered[c])

AckFor(m, ok) ==
  [type |-> "ack", conn |-> m.conn, seq |-> m.seq, k |-> m.k, ok |-> ok]

(* The client accepts the expected sequence number.                        *)
ClientAccepts(m) ==
  /\ m \in net /\ m \in Request
  /\ m.seq = Accepted(m.conn) % SeqMod
  /\ delivered' = [delivered EXCEPT ![m.conn] = Append(@, m.frame)]
  /\ net' = net \union {AckFor(m, TRUE)}
  /\ UNCHANGED <<tun, QueuedBytes>>

(* It acknowledges the previous one again: its first ack was lost.         *)
ClientAcksRepeat(m) ==
  /\ m \in net /\ m \in Request
  /\ m.seq = (Accepted(m.conn) + SeqMod - 1) % SeqMod
  /\ net' = net \union {AckFor(m, TRUE)}
  /\ UNCHANGED <<tun, QueuedBytes, delivered>>

(* It refuses the expected one.                                            *)
ClientRefuses(m) ==
  /\ m \in net /\ m \in Request
  /\ m.seq = Accepted(m.conn) % SeqMod
  /\ net' = net \union {AckFor(m, FALSE)}
  /\ UNCHANGED <<tun, QueuedBytes, delivered>>

(* A datagram is gone: lost, or delivered for the last time.  Until then   *)
(* it may be delivered again and in any order.                             *)
Vanish(m) ==
  /\ net' = net \ {m}
  /\ UNCHANGED <<tun, QueuedBytes, delivered>>

-----------------------------------------------------------------------------
Next ==
  \/ \E c \in Conns :
       \/ \E config \in BOOLEAN : Connect(c, config)
       \/ \E len \in Lengths, drop \in BOOLEAN : FrameQueued(c, len, drop)
       \/ \E len \in Lengths : FrameLost(c, len)
       \/ AckTimeout(c)
       \/ CloseTunnel(c)
  \/ \E m \in net :
       \/ AckReceived(m)
       \/ NegativeAckReceived(m)
       \/ ClientAccepts(m)
       \/ ClientAcksRepeat(m)
       \/ ClientRefuses(m)
       \/ Vanish(m)

(* The main loop runs loopTunnelTimers on every pass and the clock moves   *)
(* on, so a request whose ack is overdue is seen.  Nothing is assumed of   *)
(* the client or the network.                                              *)
Fairness == \A c \in Conns : WF_vars(AckTimeout(c))

Spec == Init /\ [][Next]_vars
FairSpec == Spec /\ Fairness

-----------------------------------------------------------------------------
(* Properties.                                                             *)

TypeOK ==
  /\ tun \in [Conns -> Tunnel]
  /\ net \subseteq Request \union Ack
  /\ delivered \in [Conns -> Seq(Frame)]

DeliveredStamps(c) == {delivered[c][i].n : i \in DOMAIN delivered[c]}

Conserved(t) ==
  /\ 1 .. t.offered = Stamps(t.TxQueue) \union t.StatAcks \union t.StatDrops
  /\ Stamps(t.TxQueue) \intersect t.StatAcks = {}
  /\ Stamps(t.TxQueue) \intersect t.StatDrops = {}
  /\ t.StatAcks \intersect t.StatDrops = {}

(* Every frame offered to an open channel is queued, acknowledged or       *)
(* counted as dropped, and only one of these: sendFrameToTunnel,           *)
(* dropQueuedGroupTelegram and loopHandleAck lose track of none.           *)
FramesConserved == \A c \in Conns : Conserved(tun[c])

(* A request leaves the queue as acknowledged only after its client has    *)
(* accepted that very request, whatever acks were lost, repeated or came   *)
(* late, and across the wrap of the sequence counter (loopHandleAck).      *)
AckedWasDelivered ==
  \A c \in Conns : tun[c].StatAcks \subseteq DeliveredStamps(c)

(* A frame the server counts as dropped has never been on the wire, so its *)
(* client has not seen it (dropQueuedGroupTelegram spares the head).       *)
DroppedWasNeverDelivered ==
  \A c \in Conns : tun[c].StatDrops \intersect DeliveredStamps(c) = {}

(* A client gets its frames in the order they were offered, none twice.    *)
DeliveredInOrder ==
  \A c \in Conns : \A i, j \in DOMAIN delivered[c] :
    i < j => delivered[c][i].n < delivered[c][j].n

(* A queue never stands still: with a request queued one is on the wire,   *)
(* since only an ack or a timer restarts the queue (sendTunnelHead).       *)
NoStalledQueue ==
  \A c \in Conns : tun[c].TxQueue # {} <=> tun[c].TxOnWire

(* The budget counter is the octets really queued, over all connections    *)
(* and through every way a frame leaves a queue, and it is kept to.        *)
BytesAccounted ==
  /\ QueuedBytes = MapThenSumSet(LAMBDA c : Octets(tun[c].TxQueue), Conns)
  /\ QueuedBytes <= QueueBytes
  /\ \A c \in Conns : Cardinality(tun[c].TxQueue) <= QueueDepth

(* A queued frame other than a group telegram (a confirmation, an answer)  *)
(* leaves the queue of an open channel by its ack alone.                   *)
EssentialFramesKept ==
  [][\A c \in Conns : tun[c].open /\ tun'[c].open =>
       \A f \in tun[c].TxQueue \ tun'[c].TxQueue :
         f.drop \/ f.n \in tun'[c].StatAcks]_vars

(* A request on the wire is settled: acknowledged, or its channel closed,  *)
(* however the client and the network behave (resendOrCloseTunnel).        *)
RequestSettled ==
  \A c \in Conns, k \in Stamp :
    (tun[c].TxOnWire /\ tun[c].sent = k)
      ~> ~(tun[c].TxOnWire /\ tun[c].sent = k)

(* The refinement: a frame is pending while it is queued and the client    *)
(* has not accepted it; of a closed channel, while a datagram with it is   *)
(* on its way that the client would still accept.                          *)
Pending(c) ==
  {f \in IF tun[c].open
           THEN tun[c].TxQueue
           ELSE {m.frame : m \in {r \in net \intersect Request : r.conn = c}} :
     f.n \notin DeliveredStamps(c)}

Contract == INSTANCE TunnelContract WITH
  open <- [c \in Conns |-> tun[c].open],
  pending <- [c \in Conns |-> Pending(c)]

(* The queue, the sequence counters, the repeats and the acks together     *)
(* give a client what TunnelContract promises.                             *)
ImplementsContract == Contract!Spec

=============================================================================
