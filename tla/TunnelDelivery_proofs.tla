----------------------- MODULE TunnelDelivery_proofs ------------------------
(***************************************************************************)
(* Safety of TunnelDelivery for every number of connections, queue size,   *)
(* octet budget and sequence counter width.                                *)
(***************************************************************************)
EXTENDS TunnelDelivery, WellFoundedInduction, FiniteSetTheorems, TLAPS

-----------------------------------------------------------------------------
(* Arithmetic.                                                             *)

(* A nonempty set of naturals has a least element: the "oldest" frame of a *)
(* queue exists.                                                           *)
LEMMA NatMin ==
  ASSUME NEW T, T \subseteq Nat, T # {}
  PROVE \E x \in T : \A y \in T : x <= y
<1> DEFINE R == OpToRel(<, Nat)
<1>1. IsWellFoundedOn(R, Nat)
  BY NatLessThanWellFounded
<1>2. PICK x \in T : \A y \in T : ~(<<y, x>> \in R)
  <2> HIDE DEF R
  <2> QED BY <1>1, WFMin
<1>3. ASSUME NEW y \in T PROVE x <= y
  <2>1. x \in Nat /\ y \in Nat OBVIOUS
  <2>2. R = {ss \in Nat \X Nat : ss[1] < ss[2]}
    BY DEF OpToRel
  <2>3. ~(<<y, x>> \in R) BY <1>2
  <2> HIDE DEF R
  <2> QED BY <2>1, <2>2, <2>3
<1> QED BY <1>3

(* Quotient and remainder are unique.                                       *)
LEMMA ModIs ==
  ASSUME NEW c \in Nat, NEW M \in Nat, M > 1, NEW q \in Int, NEW r \in 0..M-1,
         c = M * q + r
  PROVE  c % M = r
<1> DEFINE p == c \div M  s == c % M
<1>1. c = M * p + s /\ s \in 0..M-1 /\ p \in Nat
  OBVIOUS
<1> HIDE DEF p, s
<1>3. s - r = M * (q - p)
  BY <1>1
<1>4. q = p
  <2>1. CASE q > p
    <3>1. M * (q-p) >= M BY <2>1, <1>1
    <3> QED BY <3>1, <1>3, <1>1
  <2>2. CASE q < p
    <3>1. M * (q-p) <= -M BY <2>2, <1>1
    <3> QED BY <3>1, <1>3, <1>1
  <2> QED BY <2>1, <2>2, <1>1
<1> QED BY <1>1, <1>3, <1>4 DEF s

(* Incrementing a wrapped counter wraps the incremented one.               *)
LEMMA ModStep ==
  ASSUME NEW a \in Nat, NEW M \in Nat, M > 1
  PROVE  ((a % M) + 1) % M = (a + 1) % M
<1> DEFINE q == a \div M  r == a % M
<1>1. a = M * q + r /\ r \in 0..M-1 /\ q \in Nat
  OBVIOUS
<1>2. (r+1) % M = (a+1) % M
  <2> HIDE DEF q, r
  <2>1. CASE r + 1 < M
     <3>1. r+1 \in 0..M-1 /\ a + 1 = M * q + (r+1)
       BY <1>1, <2>1
     <3>2. (a+1) % M = r+1
       BY <3>1, <1>1, ModIs
     <3>3. (r+1) % M = r + 1
       BY <3>1
     <3> QED BY <3>2, <3>3
  <2>2. CASE r + 1 = M
     <3>1. a + 1 = M * (q+1) + 0
       BY <1>1, <2>2
     <3>2. (a+1) % M = 0
       BY <3>1, <1>1, ModIs
     <3>3. (r+1) % M = 0
       BY <2>2
     <3> QED BY <3>2, <3>3
  <2> QED BY <1>1, <2>1, <2>2
<1> QED BY <1>2

(* Two counts less than M apart are told apart by their residues: what a   *)
(* sequence counter relies on.                                             *)
LEMMA ModUnique ==
  ASSUME NEW a \in Nat, NEW b \in Nat, NEW M \in Nat, M > 1,
         a % M = b % M, b <= a, a - b < M
  PROVE  a = b
<1> DEFINE q == a \div M  r == a % M  p == b \div M
<1>1. a = M * q + r /\ r \in 0..M-1 /\ q \in Nat
  OBVIOUS
<1>2. b = M * p + r /\ p \in Nat
  OBVIOUS
<1> HIDE DEF q, p, r
<1>3. a - b = M * (q - p)
  BY <1>1, <1>2
<1>4. q = p
  <2>1. CASE q > p
    <3>1. M * (q-p) >= M BY <2>1, <1>1, <1>2
    <3> QED BY <3>1, <1>3
  <2>2. CASE q < p
    <3>1. M * (q-p) <= -M BY <2>2, <1>1, <1>2
    <3> QED BY <3>1, <1>3
  <2> QED BY <2>1, <2>2, <1>1, <1>2
<1> QED BY <1>1, <1>2, <1>4

-----------------------------------------------------------------------------
(* The inductive invariant, of one connection in state t whose client has  *)
(* accepted the frames d, with the datagrams S on their way.               *)

Del(d) == {d[i].n : i \in DOMAIN d}
WireHead(t) == Oldest(t.TxQueue)

(* The queue and the stamps.                                               *)
StampInv(t) ==
  /\ \A f \in t.TxQueue : f.n <= t.offered
  /\ \A f, g \in t.TxQueue : f.n = g.n => f = g
  /\ Conserved(t)

(* The sequence counter counts the requests sent.                          *)
SeqInv(t) ==
  /\ t.SequenceCounter_S = t.sent % SeqMod
  /\ t.TxOnWire => t.sent >= 1 /\ t.TxSeq = (t.sent - 1) % SeqMod

(* The client is at most the request on the wire behind, and the frames    *)
(* still to come are newer than those it has.                              *)
DeliveryInv(t, d) ==
  /\ t.open => IF t.TxOnWire THEN Len(d) \in {t.sent - 1, t.sent}
                             ELSE Len(d) = t.sent
  /\ \A f \in t.TxQueue :
       \/ \A i \in DOMAIN d : d[i].n < f.n
       \/ t.TxOnWire /\ f = WireHead(t) /\ Len(d) = t.sent
  /\ t.open /\ t.TxOnWire /\ Len(d) = t.sent => WireHead(t).n \in Del(d)
  /\ t.open => Del(d) \subseteq 1 .. t.offered
  /\ t.StatAcks \subseteq Del(d)
  /\ t.open => Del(d) \subseteq t.StatAcks
                       \union (IF t.TxOnWire THEN {WireHead(t).n} ELSE {})

Ordered(d) == \A i, j \in DOMAIN d : i < j => d[i].n < d[j].n

(* Requests on their way, of an open channel or of a closed one.           *)
RequestInv(c, d, S) ==
  \A m \in S : m.conn = c /\ m.type = "request" =>
    /\ m.k >= 1 /\ m.seq = (m.k - 1) % SeqMod
    /\ m.k <= Len(d) + 1
    /\ Len(d) + 1 < m.k + SeqMod
    /\ m.k = Len(d) + 1 => \A i \in DOMAIN d : d[i].n < m.frame.n
    /\ \A r \in S : r.conn = c /\ r.type = "request" => r.k + 1 < m.k + SeqMod

(* Datagrams of an open channel: they are recent, the one the client waits *)
(* for carries the request on the wire, and a positive ack tells the truth. *)
OpenInv(c, t, d, S) ==
  t.open => \A m \in S : m.conn = c =>
    /\ m.k >= 1 /\ m.seq = (m.k - 1) % SeqMod
    /\ m.k <= t.sent
    /\ t.sent + 1 < m.k + SeqMod
    /\ m.type = "request" /\ m.k = Len(d) + 1 => t.TxOnWire /\ m.frame = WireHead(t)
    /\ m.type = "ack" /\ m.ok => m.k <= Len(d)

ClosedInv(t) == ~t.open => t = FreeTunnel

(* All but that a queue is never left standing.                            *)
BaseInv(c, t, d, S) ==
  /\ StampInv(t)
  /\ SeqInv(t)
  /\ DeliveryInv(t, d)
  /\ Ordered(d)
  /\ RequestInv(c, d, S)
  /\ OpenInv(c, t, d, S)
  /\ ClosedInv(t)

ConnInv(c, t, d, S) ==
  /\ BaseInv(c, t, d, S)
  /\ t.TxQueue # {} <=> t.TxOnWire

IInv ==
  /\ TypeOK
  /\ \A c \in Conns : ConnInv(c, tun[c], delivered[c], net)

-----------------------------------------------------------------------------
(* The oldest frame of a queue.                                            *)

(* A queue that is not empty has an oldest frame.                          *)
LEMMA OldestInQueue ==
  ASSUME NEW Q \in SUBSET Frame, Q # {}
  PROVE  Oldest(Q) \in Q /\ \A g \in Q : Oldest(Q).n <= g.n
<1>1. Stamps(Q) \subseteq Nat /\ Stamps(Q) # {}
  BY BoundAssumption DEF Stamps, Frame, Stamp
<1>2. PICK x \in Stamps(Q) : \A y \in Stamps(Q) : x <= y
  BY <1>1, NatMin
<1>3. PICK f \in Q : f.n = x
  BY <1>2 DEF Stamps
<1>4. \A g \in Q : f.n <= g.n
  BY <1>2, <1>3 DEF Stamps
<1> QED BY <1>4 DEF Oldest

(* Stamps being unique, it is the only one as old as all the others: the   *)
(* head of a queue stays the head when younger frames come and go.         *)
LEMMA OldestIs ==
  ASSUME NEW Q \in SUBSET Frame, NEW f \in Q,
         \A g \in Q : f.n <= g.n,
         \A g, h \in Q : g.n = h.n => g = h
  PROVE  Oldest(Q) = f
<1>1. Oldest(Q) \in Q /\ Oldest(Q).n <= f.n /\ f.n <= Oldest(Q).n
  BY OldestInQueue
<1>2. Oldest(Q).n \in Nat /\ f.n \in Nat
  BY <1>1, BoundAssumption DEF Frame, Stamp
<1> QED BY <1>1, <1>2

-----------------------------------------------------------------------------
(* One connection: what each kind of step does to its invariant.           *)

(* Losing datagrams of a connection, or a change to those of others, does  *)
(* not disturb it.                                                         *)
LEMMA FewerDatagrams ==
  ASSUME NEW c, NEW t, NEW d, NEW S, NEW S2,
         ConnInv(c, t, d, S), \A m \in S2 : m.conn = c => m \in S
  PROVE  ConnInv(c, t, d, S2)
<1>1. RequestInv(c, d, S2)
  BY DEF ConnInv, BaseInv, RequestInv
<1>2. OpenInv(c, t, d, S2)
  BY DEF ConnInv, BaseInv, OpenInv
<1> QED BY <1>1, <1>2 DEF ConnInv, BaseInv

(* Closing a channel leaves what the client has and what is on its way.    *)
LEMMA ClosedChannel ==
  ASSUME NEW c, NEW t, NEW d, NEW S, ConnInv(c, t, d, S)
  PROVE  FreeTunnel \in Tunnel /\ ConnInv(c, FreeTunnel, d, S)
<1>1. FreeTunnel \in Tunnel
  BY SeqModAssumption, BoundAssumption DEF FreeTunnel, Tunnel, Seq8
<1>2. StampInv(FreeTunnel)
  BY DEF StampInv, Conserved, Stamps, FreeTunnel
<1>3. SeqInv(FreeTunnel)
  <2>1. 0 % SeqMod = 0 BY SeqModAssumption
  <2> QED BY <2>1 DEF SeqInv, FreeTunnel
<1>4. DeliveryInv(FreeTunnel, d)
  BY DEF DeliveryInv, FreeTunnel
<1> QED BY <1>1, <1>2, <1>3, <1>4
        DEF ConnInv, BaseInv, OpenInv, ClosedInv, FreeTunnel

(* The wire's head survives when droppable frames are given up.            *)
LEMMA HeadKept ==
  ASSUME NEW t \in Tunnel, StampInv(t), t.TxOnWire, t.TxQueue # {},
         NEW gone \in SUBSET Droppable(t),
         NEW Q \in SUBSET Frame,
         t.TxQueue \ gone \subseteq Q,
         \A f \in Q : f \in t.TxQueue \ gone \/ f.n = t.offered + 1,
         \A g, h \in Q : g.n = h.n => g = h
  PROVE  Oldest(Q) = WireHead(t)
<1> DEFINE h == Oldest(t.TxQueue)
<1>1. t.TxQueue \in SUBSET Frame
  BY DEF Tunnel
<1>2. h \in t.TxQueue /\ \A g \in t.TxQueue : h.n <= g.n
  BY <1>1, OldestInQueue
<1>3. h \in t.TxQueue \ gone
  BY <1>2 DEF Droppable
<1>4. h.n <= t.offered /\ h.n \in Nat /\ t.offered \in Nat
  BY <1>1, <1>2, BoundAssumption DEF StampInv, Tunnel, Frame, Stamp
<1>5. h \in Q /\ \A g \in Q : h.n <= g.n
  BY <1>2, <1>3, <1>4
<1> QED BY <1>5, OldestIs DEF WireHead

(* Frames given up, and the new one lost (sendFrameToTunnel when there is  *)
(* no room).                                                               *)
LEMMA FrameIsLost ==
  ASSUME NEW c, NEW t \in Tunnel, NEW d, NEW S, ConnInv(c, t, d, S),
         t.open, t.offered < MaxOffered,
         NEW gone \in SUBSET Droppable(t)
  PROVE  LET t2 == [t EXCEPT !.TxQueue = @ \ gone,
                             !.StatDrops = @ \union Stamps(gone)
                                             \union {t.offered + 1},
                             !.offered = @ + 1]
         IN  t2 \in Tunnel /\ ConnInv(c, t2, d, S)
<1> DEFINE Q2 == t.TxQueue \ gone
           D2 == t.StatDrops \union Stamps(gone) \union {t.offered + 1}
           t2 == [t EXCEPT !.TxQueue = Q2, !.StatDrops = D2,
                           !.offered = t.offered + 1]
<1>1. t.TxQueue \in SUBSET Frame /\ gone \subseteq t.TxQueue
  BY DEF Tunnel, Droppable
<1>2. t.offered \in Nat /\ t.offered + 1 \in Stamp /\ t.offered + 1 \in Nat
  BY BoundAssumption DEF Tunnel, Stamp
<1>3. t2 \in Tunnel
  <2>1. D2 \subseteq Stamp
    BY <1>1, <1>2 DEF Stamps, Frame, Tunnel
  <2>2. t.offered + 1 \in 0 .. MaxOffered
    BY <1>2, BoundAssumption
  <2> QED BY <1>1, <2>1, <2>2 DEF Tunnel
<1>4. /\ t2.TxQueue = Q2 /\ t2.StatDrops = D2 /\ t2.offered = t.offered + 1
      /\ t2.open = t.open /\ t2.TxOnWire = t.TxOnWire /\ t2.sent = t.sent
      /\ t2.SequenceCounter_S = t.SequenceCounter_S /\ t2.TxSeq = t.TxSeq
      /\ t2.StatAcks = t.StatAcks
  BY DEF Tunnel
<1> HIDE DEF t2
<1>5. BaseInv(c, t, d, S) /\ (t.TxQueue # {} <=> t.TxOnWire)
  BY DEF ConnInv
<1>6. StampInv(t2)
  <2>1. StampInv(t) BY <1>5 DEF BaseInv
  <2>2. 1 .. t.offered + 1 = (1 .. t.offered) \union {t.offered + 1}
    BY <1>2
  <2>3. ~(t.offered + 1 \in 1 .. t.offered) BY <1>2
  <2>4. /\ 1 .. t.offered + 1 = Stamps(Q2) \union t.StatAcks \union D2
    BY <2>1, <2>2, <1>1 DEF StampInv, Conserved, Stamps
  <2>5. Stamps(Q2) \intersect t.StatAcks = {}
    BY <2>1 DEF StampInv, Conserved, Stamps
  <2>6. Stamps(Q2) \intersect D2 = {}
    BY <2>1, <2>3, <1>1 DEF StampInv, Conserved, Stamps
  <2>7. t.StatAcks \intersect D2 = {}
    BY <2>1, <2>3, <1>1 DEF StampInv, Conserved, Stamps
  <2>8. \A f \in Q2 : f.n <= t.offered + 1
    BY <2>1, <1>1, <1>2, BoundAssumption DEF StampInv, Frame, Stamp
  <2>9. \A f, g \in Q2 : f.n = g.n => f = g
    BY <2>1 DEF StampInv
  <2> HIDE DEF Q2, D2
  <2>10. Conserved(t2)
    BY <1>4, <2>4, <2>5, <2>6, <2>7 DEF Conserved
  <2> QED BY <1>4, <2>8, <2>9, <2>10 DEF StampInv
<1>7. t.TxOnWire => WireHead(t2) = WireHead(t) /\ WireHead(t) \in Q2
  <2> SUFFICES ASSUME t.TxOnWire PROVE WireHead(t2) = WireHead(t) /\ WireHead(t) \in Q2
    OBVIOUS
  <2>1. Oldest(Q2) = WireHead(t)
    BY <1>1, <1>5, HeadKept DEF BaseInv, StampInv
  <2>2. WireHead(t) \in t.TxQueue
    BY <1>1, <1>5, OldestInQueue DEF WireHead
  <2> QED BY <2>1, <2>2, <1>4 DEF WireHead, Droppable
<1>8. SeqInv(t2)
  BY <1>4, <1>5 DEF BaseInv, SeqInv
<1>9. DeliveryInv(t2, d)
  <2>1. DeliveryInv(t, d) BY <1>5 DEF BaseInv
  <2>2. 1 .. t.offered \subseteq 1 .. t.offered + 1 BY <1>2
  <2>3. t.open => IF t.TxOnWire THEN Len(d) \in {t.sent - 1, t.sent}
                               ELSE Len(d) = t.sent
    BY <2>1 DEF DeliveryInv
  <2>4. \A f \in Q2 :
           \/ \A i \in DOMAIN d : d[i].n < f.n
           \/ t.TxOnWire /\ f = WireHead(t2) /\ Len(d) = t.sent
    BY <2>1, <1>7 DEF DeliveryInv
  <2>5. t.open /\ t.TxOnWire /\ Len(d) = t.sent => WireHead(t2).n \in Del(d)
    BY <2>1, <1>7 DEF DeliveryInv
  <2>6. t.open => Del(d) \subseteq 1 .. t.offered + 1
    BY <2>1, <2>2 DEF DeliveryInv
  <2>7. t.StatAcks \subseteq Del(d)
    BY <2>1 DEF DeliveryInv
  <2>8. t.open => Del(d) \subseteq t.StatAcks
                       \union (IF t.TxOnWire THEN {WireHead(t2).n} ELSE {})
    BY <2>1, <1>7 DEF DeliveryInv
  <2> QED BY <1>4, <2>3, <2>4, <2>5, <2>6, <2>7, <2>8 DEF DeliveryInv
<1>10. Ordered(d) /\ RequestInv(c, d, S) /\ ClosedInv(t2)
  BY <1>4, <1>5 DEF BaseInv, ClosedInv
<1>11. OpenInv(c, t2, d, S)
  BY <1>4, <1>5, <1>7 DEF BaseInv, OpenInv
<1>12. Q2 # {} <=> t.TxOnWire
  BY <1>5, <1>7
<1>13. ConnInv(c, t2, d, S)
  BY <1>4, <1>6, <1>8, <1>9, <1>10, <1>11, <1>12 DEF ConnInv, BaseInv
<1> QED BY <1>3, <1>13 DEF t2

(* The frames `gone` given up and the frame `new` queued.                  *)
WithFrame(t, gone, new) ==
  [t EXCEPT !.TxQueue = (t.TxQueue \ gone) \union {new},
            !.StatDrops = @ \union Stamps(gone),
            !.offered = @ + 1]

(* All is well then but that something must be on the wire.                *)
LEMMA FrameIsQueued ==
  ASSUME NEW c, NEW t \in Tunnel, NEW d, NEW S, ConnInv(c, t, d, S),
         t.open, t.offered < MaxOffered,
         NEW gone \in SUBSET Droppable(t),
         NEW new \in Frame, new.n = t.offered + 1
  PROVE  /\ WithFrame(t, gone, new) \in Tunnel
         /\ BaseInv(c, WithFrame(t, gone, new), d, S)
         /\ WithFrame(t, gone, new).open
         /\ WithFrame(t, gone, new).TxOnWire = t.TxOnWire
         /\ WithFrame(t, gone, new).TxQueue # {}
<1> DEFINE Q2 == (t.TxQueue \ gone) \union {new}
           D2 == t.StatDrops \union Stamps(gone)
           t2 == [t EXCEPT !.TxQueue = Q2, !.StatDrops = D2,
                           !.offered = t.offered + 1]
<1>1. t.TxQueue \in SUBSET Frame /\ gone \subseteq t.TxQueue /\ Q2 \in SUBSET Frame
  BY DEF Tunnel, Droppable
<1>2. t.offered \in Nat /\ t.offered + 1 \in Nat
  BY BoundAssumption DEF Tunnel
<1>3. t2 \in Tunnel
  <2>1. D2 \subseteq Stamp
    BY <1>1 DEF Stamps, Frame, Tunnel
  <2>2. t.offered + 1 \in 0 .. MaxOffered
    BY <1>2, BoundAssumption
  <2> QED BY <1>1, <2>1, <2>2 DEF Tunnel
<1>4. /\ t2.TxQueue = Q2 /\ t2.StatDrops = D2 /\ t2.offered = t.offered + 1
      /\ t2.open = t.open /\ t2.TxOnWire = t.TxOnWire /\ t2.sent = t.sent
      /\ t2.SequenceCounter_S = t.SequenceCounter_S /\ t2.TxSeq = t.TxSeq
      /\ t2.StatAcks = t.StatAcks
  BY DEF Tunnel
<1> HIDE DEF t2
<1>5. BaseInv(c, t, d, S) /\ (t.TxQueue # {} <=> t.TxOnWire)
  BY DEF ConnInv
<1>6. StampInv(t2)
  <2>1. StampInv(t) BY <1>5 DEF BaseInv
  <2>2. 1 .. t.offered + 1 = (1 .. t.offered) \union {t.offered + 1}
    BY <1>2
  <2>3. ~(t.offered + 1 \in 1 .. t.offered) BY <1>2
  <2>4. Stamps(Q2) = Stamps(t.TxQueue \ gone) \union {t.offered + 1}
    BY DEF Stamps
  <2>5. /\ 1 .. t.offered + 1 = Stamps(Q2) \union t.StatAcks \union D2
    BY <2>1, <2>2, <2>4, <1>1 DEF StampInv, Conserved, Stamps
  <2>6. Stamps(Q2) \intersect t.StatAcks = {}
    BY <2>1, <2>3, <2>4 DEF StampInv, Conserved, Stamps
  <2>7. Stamps(Q2) \intersect D2 = {}
    BY <2>1, <2>3, <2>4, <1>1 DEF StampInv, Conserved, Stamps
  <2>8. t.StatAcks \intersect D2 = {}
    BY <2>1, <1>1 DEF StampInv, Conserved, Stamps
  <2>9. \A f \in Q2 : f.n <= t.offered + 1
    BY <2>1, <1>1, <1>2, BoundAssumption DEF StampInv, Frame, Stamp
  <2>10. \A f, g \in Q2 : f.n = g.n => f = g
    <3>1. \A f \in t.TxQueue : f.n # t.offered + 1
      BY <2>1, <1>1, <1>2, BoundAssumption DEF StampInv, Frame, Stamp
    <3> QED BY <2>1, <3>1 DEF StampInv
  <2> HIDE DEF Q2, D2
  <2>11. Conserved(t2)
    BY <1>4, <2>5, <2>6, <2>7, <2>8 DEF Conserved
  <2> QED BY <1>4, <2>9, <2>10, <2>11 DEF StampInv
<1>7. t.TxOnWire => WireHead(t2) = WireHead(t)
  BY <1>1, <1>4, <1>5, <1>6, HeadKept DEF BaseInv, StampInv, WireHead
<1>8. SeqInv(t2)
  BY <1>4, <1>5 DEF BaseInv, SeqInv
<1>9. DeliveryInv(t2, d)
  <2>1. DeliveryInv(t, d) BY <1>5 DEF BaseInv
  <2>2. 1 .. t.offered \subseteq 1 .. t.offered + 1 BY <1>2
  <2>3. t.open => IF t.TxOnWire THEN Len(d) \in {t.sent - 1, t.sent}
                               ELSE Len(d) = t.sent
    BY <2>1 DEF DeliveryInv
  <2>4. \A f \in Q2 :
           \/ \A i \in DOMAIN d : d[i].n < f.n
           \/ t.TxOnWire /\ f = WireHead(t2) /\ Len(d) = t.sent
    <3>1. \A i \in DOMAIN d : d[i].n < new.n
      <4>1. \A i \in DOMAIN d : d[i].n \in 1 .. t.offered
        BY <2>1 DEF DeliveryInv, Del
      <4> QED BY <4>1, <1>2
    <3> QED BY <2>1, <1>7, <3>1 DEF DeliveryInv
  <2>5. t.open /\ t.TxOnWire /\ Len(d) = t.sent => WireHead(t2).n \in Del(d)
    BY <2>1, <1>7 DEF DeliveryInv
  <2>6. t.open => Del(d) \subseteq 1 .. t.offered + 1
    BY <2>1, <2>2 DEF DeliveryInv
  <2>7. t.StatAcks \subseteq Del(d)
    BY <2>1 DEF DeliveryInv
  <2>8. t.open => Del(d) \subseteq t.StatAcks
                       \union (IF t.TxOnWire THEN {WireHead(t2).n} ELSE {})
    BY <2>1, <1>7 DEF DeliveryInv
  <2> QED BY <1>4, <2>3, <2>4, <2>5, <2>6, <2>7, <2>8 DEF DeliveryInv
<1>10. Ordered(d) /\ RequestInv(c, d, S) /\ ClosedInv(t2)
  BY <1>4, <1>5 DEF BaseInv, ClosedInv
<1>11. OpenInv(c, t2, d, S)
  BY <1>4, <1>5, <1>7 DEF BaseInv, OpenInv
<1>12. BaseInv(c, t2, d, S)
  BY <1>6, <1>8, <1>9, <1>10, <1>11 DEF BaseInv
<1> QED BY <1>3, <1>4, <1>12 DEF t2, WithFrame

(* The oldest request goes on the wire (sendTunnelHead).                   *)
LEMMA RequestIsStarted ==
  ASSUME NEW c \in Conns, NEW t \in Tunnel, NEW d \in Seq(Frame),
         net \subseteq Request \union Ack, BaseInv(c, t, d, net),
         t.open, ~t.TxOnWire, t.TxQueue # {}
  PROVE  /\ StartRequest(t) \in Tunnel
         /\ WithRequest(c, StartRequest(t)) \subseteq Request \union Ack
         /\ ConnInv(c, StartRequest(t), d, WithRequest(c, StartRequest(t)))
<1> DEFINE t2 == StartRequest(t)
           q == RequestOnWire(c, t2)
           S2 == WithRequest(c, t2)
<1>1. t.TxQueue \in SUBSET Frame /\ t.sent \in Nat /\ t.SequenceCounter_S \in Seq8
  BY DEF Tunnel
<1>2. WireHead(t) \in t.TxQueue /\ WireHead(t) \in Frame
  BY <1>1, OldestInQueue DEF WireHead
<1>3. NextSeq(t.SequenceCounter_S) \in Seq8
  BY <1>1, SeqModAssumption DEF NextSeq, Seq8
<1>4. t2 \in Tunnel
  <2>1. t.sent + 1 \in Nat /\ 0 \in 0 .. 3
    BY <1>1
  <2> QED BY <1>1, <1>3, <2>1 DEF StartRequest, Tunnel
<1>5. /\ t2.TxQueue = t.TxQueue /\ t2.StatDrops = t.StatDrops
      /\ t2.offered = t.offered /\ t2.open = t.open /\ t2.TxOnWire = TRUE
      /\ t2.sent = t.sent + 1 /\ t2.TxSeq = t.SequenceCounter_S
      /\ t2.SequenceCounter_S = NextSeq(t.SequenceCounter_S)
      /\ t2.StatAcks = t.StatAcks
  BY DEF Tunnel, StartRequest
<1> HIDE DEF t2
<1>6. WireHead(t2) = WireHead(t)
  BY <1>5 DEF WireHead
<1>7. q = [type |-> "request", conn |-> c, seq |-> t.SequenceCounter_S,
           k |-> t.sent + 1, frame |-> WireHead(t)]
  BY <1>5 DEF RequestOnWire, WireHead
<1>8. q \in Request
  BY <1>1, <1>2, <1>7 DEF Request
<1>9. S2 = {m \in net : m.conn = c => t.sent + 2 < m.k + SeqMod} \union {q}
  BY <1>1, <1>5 DEF WithRequest
<1>10. S2 \subseteq Request \union Ack
  BY <1>8, <1>9
<1> HIDE DEF q, S2
<1>11. /\ q.type = "request" /\ q.conn = c /\ q.seq = t.SequenceCounter_S
       /\ q.k = t.sent + 1 /\ q.frame = WireHead(t)
  BY <1>7
<1>12. StampInv(t2)
  BY <1>5 DEF BaseInv, StampInv, Conserved
<1>13. t.SequenceCounter_S = t.sent % SeqMod
  BY DEF BaseInv, SeqInv
<1>14. SeqInv(t2)
  <2>1. NextSeq(t.SequenceCounter_S) = (t.sent + 1) % SeqMod
    BY <1>1, <1>13, ModStep, SeqModAssumption DEF NextSeq
  <2>2. (t.sent + 1) - 1 = t.sent BY <1>1
  <2> QED BY <1>1, <1>5, <1>13, <2>1, <2>2 DEF SeqInv
<1>15. Len(d) = t.sent /\ \A f \in t.TxQueue : \A i \in DOMAIN d : d[i].n < f.n
  BY DEF BaseInv, DeliveryInv
<1>16. DeliveryInv(t2, d)
  <2>1. DeliveryInv(t, d) BY DEF BaseInv
  <2>2. Len(d) \in {t2.sent - 1, t2.sent} /\ Len(d) # t2.sent
    BY <1>1, <1>5, <1>15
  <2>3. Del(d) \subseteq t.StatAcks BY <2>1 DEF DeliveryInv
  <2> QED BY <1>5, <1>15, <2>1, <2>2, <2>3 DEF DeliveryInv
<1>17. \A m \in S2 : m.conn = c =>
         /\ m.k \in Nat /\ m.k >= 1 /\ m.seq = (m.k - 1) % SeqMod
         /\ m.k <= t.sent + 1
         /\ t.sent + 2 < m.k + SeqMod
         /\ m = q \/ (m.k <= t.sent /\ m \in net)
  <2> TAKE m \in S2
  <2>1. CASE m = q
    <3>1. (t.sent + 1) - 1 = t.sent BY <1>1
    <3> QED BY <2>1, <3>1, <1>1, <1>11, <1>13, SeqModAssumption
  <2>2. CASE m # q
    <3>1. m \in net /\ (m.conn = c => t.sent + 2 < m.k + SeqMod)
      BY <2>2, <1>9
    <3>2. m.k \in Nat BY <3>1 DEF Request, Ack
    <3>3. m.conn = c => m.k >= 1 /\ m.seq = (m.k - 1) % SeqMod /\ m.k <= t.sent
      BY <3>1 DEF BaseInv, OpenInv
    <3> QED BY <3>1, <3>2, <3>3, <1>1
  <2> QED BY <2>1, <2>2
<1>18. RequestInv(c, d, S2)
  <2> SUFFICES ASSUME NEW m \in S2, m.conn = c, m.type = "request"
               PROVE  /\ m.k >= 1 /\ m.seq = (m.k - 1) % SeqMod
                      /\ m.k <= Len(d) + 1
                      /\ Len(d) + 1 < m.k + SeqMod
                      /\ m.k = Len(d) + 1 => \A i \in DOMAIN d : d[i].n < m.frame.n
                      /\ \A r \in S2 : r.conn = c /\ r.type = "request" => r.k + 1 < m.k + SeqMod
    BY DEF RequestInv
  <2>1. m.k >= 1 /\ m.seq = (m.k - 1) % SeqMod /\ m.k <= Len(d) + 1
    BY <1>15, <1>17
  <2>2. Len(d) + 1 < m.k + SeqMod
    BY <1>1, <1>15, <1>17, SeqModAssumption
  <2>3. m.k = Len(d) + 1 => \A i \in DOMAIN d : d[i].n < m.frame.n
    <3>1. m.k = Len(d) + 1 => m = q
      BY <1>1, <1>15, <1>17
    <3> QED BY <3>1, <1>2, <1>11, <1>15
  <2>4. \A r \in S2 : r.conn = c /\ r.type = "request" => r.k + 1 < m.k + SeqMod
    <3> SUFFICES ASSUME NEW r \in S2, r.conn = c PROVE r.k + 1 < m.k + SeqMod
      OBVIOUS
    <3>1. r.k \in Nat /\ r.k <= t.sent + 1
      BY <1>17
    <3>2. m.k \in Nat /\ t.sent + 2 < m.k + SeqMod
      BY <1>17
    <3> QED BY <1>1, <3>1, <3>2, SeqModAssumption
  <2> QED BY <2>1, <2>2, <2>3, <2>4
<1>19. OpenInv(c, t2, d, S2)
  <2> SUFFICES ASSUME NEW m \in S2, m.conn = c
               PROVE  /\ m.k >= 1 /\ m.seq = (m.k - 1) % SeqMod
                      /\ m.k <= t2.sent
                      /\ t2.sent + 1 < m.k + SeqMod
                      /\ m.type = "request" /\ m.k = Len(d) + 1 => t2.TxOnWire /\ m.frame = WireHead(t2)
                      /\ m.type = "ack" /\ m.ok => m.k <= Len(d)
    BY DEF OpenInv
  <2>1. m.k >= 1 /\ m.seq = (m.k - 1) % SeqMod /\ m.k <= t2.sent
    BY <1>5, <1>17
  <2>2. t2.sent + 1 < m.k + SeqMod
    BY <1>1, <1>5, <1>17
  <2>3. m = q \/ m.k <= Len(d)
    BY <1>15, <1>17
  <2>4. m.k = Len(d) + 1 => m = q
    BY <2>3, <1>17, <1>1, <1>15
  <2> QED BY <2>1, <2>2, <2>3, <2>4, <1>5, <1>6, <1>11
<1>20. ClosedInv(t2)
  BY <1>5 DEF ClosedInv
<1>21. ConnInv(c, t2, d, S2)
  BY <1>5, <1>12, <1>14, <1>16, <1>18, <1>19, <1>20 DEF ConnInv, BaseInv, Ordered
<1> QED BY <1>4, <1>10, <1>21 DEF t2, S2

(* The request on the wire goes out once more (resendOrCloseTunnel).       *)
LEMMA RequestIsRepeated ==
  ASSUME NEW c \in Conns, NEW t \in Tunnel, NEW d \in Seq(Frame),
         net \subseteq Request \union Ack, ConnInv(c, t, d, net),
         t.open, t.TxOnWire, t.TxRepeats < MaxRepeats(t)
  PROVE  LET t2 == [t EXCEPT !.TxRepeats = @ + 1]
         IN  /\ t2 \in Tunnel
             /\ WithRequest(c, t) \subseteq Request \union Ack
             /\ ConnInv(c, t2, d, WithRequest(c, t))
<1> DEFINE t2 == [t EXCEPT !.TxRepeats = t.TxRepeats + 1]
           q == RequestOnWire(c, t)
           S2 == WithRequest(c, t)
<1>1. t.TxQueue \in SUBSET Frame /\ t.sent \in Nat /\ t.TxSeq \in Seq8
  BY DEF Tunnel
<1>2. t.TxRepeats + 1 \in 0 .. 3
  BY DEF Tunnel, MaxRepeats
<1>3. t2 \in Tunnel
  BY <1>2 DEF Tunnel
<1>4. /\ t2.TxQueue = t.TxQueue /\ t2.StatDrops = t.StatDrops
      /\ t2.offered = t.offered /\ t2.open = t.open
      /\ t2.TxOnWire = t.TxOnWire /\ t2.sent = t.sent
      /\ t2.TxSeq = t.TxSeq /\ t2.StatAcks = t.StatAcks
      /\ t2.SequenceCounter_S = t.SequenceCounter_S
  BY DEF Tunnel
<1> HIDE DEF t2
<1>5. BaseInv(c, t, d, net) /\ t.TxQueue # {}
  BY DEF ConnInv
<1>6. WireHead(t) \in t.TxQueue /\ WireHead(t) \in Frame
  BY <1>1, <1>5, OldestInQueue DEF WireHead
<1>7. WireHead(t2) = WireHead(t)
  BY <1>4 DEF WireHead
<1>8. q = [type |-> "request", conn |-> c, seq |-> t.TxSeq, k |-> t.sent,
           frame |-> WireHead(t)]
  BY DEF RequestOnWire, WireHead
<1>9. q \in Request
  BY <1>1, <1>6, <1>8 DEF Request
<1>10. S2 \subseteq net \union {q}
  BY DEF WithRequest
<1>11. S2 \subseteq Request \union Ack
  BY <1>9, <1>10
<1> HIDE DEF q, S2
<1>12. /\ q.type = "request" /\ q.conn = c /\ q.seq = t.TxSeq
       /\ q.k = t.sent /\ q.frame = WireHead(t)
  BY <1>8
<1>13. t.sent >= 1 /\ t.TxSeq = (t.sent - 1) % SeqMod
  BY <1>5 DEF BaseInv, SeqInv
<1>14. /\ Len(d) \in {t.sent - 1, t.sent}
       /\ Len(d) = t.sent - 1 => \A i \in DOMAIN d : d[i].n < WireHead(t).n
  BY <1>1, <1>5, <1>6 DEF BaseInv, DeliveryInv
<1>15. \A m \in S2 : m.conn = c =>
         /\ m.k \in Nat /\ m.k >= 1 /\ m.seq = (m.k - 1) % SeqMod
         /\ m.k <= t.sent
         /\ t.sent + 1 < m.k + SeqMod
         /\ m = q \/ m \in net
  <2> TAKE m \in S2
  <2>1. CASE m = q
    BY <2>1, <1>1, <1>12, <1>13, SeqModAssumption
  <2>2. CASE m # q
    <3>1. m \in net BY <2>2, <1>10
    <3>2. m.k \in Nat BY <3>1 DEF Request, Ack
    <3> QED BY <3>1, <3>2, <1>5 DEF BaseInv, OpenInv
  <2> QED BY <2>1, <2>2
<1>16. RequestInv(c, d, S2)
  <2> SUFFICES ASSUME NEW m \in S2, m.conn = c, m.type = "request"
               PROVE  /\ m.k >= 1 /\ m.seq = (m.k - 1) % SeqMod
                      /\ m.k <= Len(d) + 1
                      /\ Len(d) + 1 < m.k + SeqMod
                      /\ m.k = Len(d) + 1 => \A i \in DOMAIN d : d[i].n < m.frame.n
                      /\ \A r \in S2 : r.conn = c /\ r.type = "request" => r.k + 1 < m.k + SeqMod
    BY DEF RequestInv
  <2>1. m.k >= 1 /\ m.seq = (m.k - 1) % SeqMod /\ m.k <= Len(d) + 1
    BY <1>1, <1>14, <1>15
  <2>2. Len(d) + 1 < m.k + SeqMod
    BY <1>1, <1>14, <1>15, SeqModAssumption
  <2>3. m.k = Len(d) + 1 => \A i \in DOMAIN d : d[i].n < m.frame.n
    <3>1. CASE m = q BY <3>1, <1>1, <1>12, <1>14
    <3>2. CASE m \in net BY <3>2, <1>5 DEF BaseInv, RequestInv
    <3> QED BY <3>1, <3>2, <1>15
  <2>4. \A r \in S2 : r.conn = c /\ r.type = "request" => r.k + 1 < m.k + SeqMod
    <3> SUFFICES ASSUME NEW r \in S2, r.conn = c PROVE r.k + 1 < m.k + SeqMod
      OBVIOUS
    <3>1. r.k \in Nat /\ r.k <= t.sent
      BY <1>15
    <3>2. m.k \in Nat /\ t.sent + 1 < m.k + SeqMod
      BY <1>15
    <3> QED BY <1>1, <3>1, <3>2, SeqModAssumption
  <2> QED BY <2>1, <2>2, <2>3, <2>4
<1>17. OpenInv(c, t2, d, S2)
  <2> SUFFICES ASSUME NEW m \in S2, m.conn = c
               PROVE  /\ m.k >= 1 /\ m.seq = (m.k - 1) % SeqMod
                      /\ m.k <= t2.sent
                      /\ t2.sent + 1 < m.k + SeqMod
                      /\ m.type = "request" /\ m.k = Len(d) + 1 => t2.TxOnWire /\ m.frame = WireHead(t2)
                      /\ m.type = "ack" /\ m.ok => m.k <= Len(d)
    BY DEF OpenInv
  <2>1. CASE m = q BY <2>1, <1>4, <1>7, <1>12, <1>15
  <2>2. CASE m \in net BY <2>2, <1>4, <1>5, <1>7, <1>15 DEF BaseInv, OpenInv
  <2> QED BY <2>1, <2>2, <1>15
<1>18. StampInv(t2) /\ SeqInv(t2) /\ ClosedInv(t2)
  BY <1>4, <1>5 DEF BaseInv, StampInv, SeqInv, ClosedInv, Conserved
<1>19. DeliveryInv(t2, d)
  BY <1>4, <1>5, <1>7 DEF BaseInv, DeliveryInv
<1>20. ConnInv(c, t2, d, S2)
  BY <1>4, <1>5, <1>16, <1>17, <1>18, <1>19 DEF ConnInv, BaseInv
<1> QED BY <1>3, <1>11, <1>20 DEF t2, S2

(* An ack that is not stale is the ack of the request on the wire: counts  *)
(* that close together have different residues.                            *)
LEMMA AckIsForHead ==
  ASSUME NEW c, NEW t \in Tunnel, NEW d, ConnInv(c, t, d, net),
         NEW m \in net, m.conn = c, m \in Ack, m.ok,
         t.open, t.TxOnWire, m.seq = t.TxSeq
  PROVE  Len(d) = t.sent /\ WireHead(t).n \in Del(d)
<1>1. m.k \in Nat /\ m.type = "ack" /\ t.sent \in Nat
  BY DEF Ack, Tunnel
<1>2. /\ m.k >= 1 /\ m.seq = (m.k - 1) % SeqMod
      /\ m.k <= t.sent /\ t.sent + 1 < m.k + SeqMod
      /\ m.k <= Len(d)
  BY <1>1 DEF ConnInv, BaseInv, OpenInv
<1>3. t.sent >= 1 /\ t.TxSeq = (t.sent - 1) % SeqMod
  BY DEF ConnInv, BaseInv, SeqInv
<1>4. m.k - 1 \in Nat /\ t.sent - 1 \in Nat
      /\ m.k - 1 <= t.sent - 1 /\ (t.sent - 1) - (m.k - 1) < SeqMod
  <2>1. m.k >= 1 /\ m.k <= t.sent /\ t.sent + 1 < m.k + SeqMod /\ t.sent >= 1
    BY <1>2, <1>3
  <2> QED BY <1>1, <2>1, SeqModAssumption
<1>5. t.sent - 1 = m.k - 1
  BY <1>2, <1>3, <1>4, ModUnique, SeqModAssumption
<1>6. Len(d) \in {t.sent - 1, t.sent}
  BY DEF ConnInv, BaseInv, DeliveryInv
<1>7. Len(d) = t.sent
  BY <1>1, <1>2, <1>5, <1>6
<1> QED BY <1>7 DEF ConnInv, BaseInv, DeliveryInv

(* It leaves the queue (loopHandleAck).                                    *)
LEMMA RequestIsAcknowledged ==
  ASSUME NEW c, NEW t \in Tunnel, NEW d, NEW S, ConnInv(c, t, d, S),
         t.open, t.TxOnWire, Len(d) = t.sent, WireHead(t).n \in Del(d)
  PROVE  /\ Acknowledged(t) \in Tunnel
         /\ BaseInv(c, Acknowledged(t), d, S)
         /\ Acknowledged(t).open
         /\ ~Acknowledged(t).TxOnWire
<1> DEFINE h == WireHead(t)
           Q2 == t.TxQueue \ {h}
           A2 == t.StatAcks \union {h.n}
           t2 == Acknowledged(t)
<1>1. t.TxQueue \in SUBSET Frame /\ t.TxQueue # {} /\ BaseInv(c, t, d, S)
  BY DEF Tunnel, ConnInv
<1>2. h \in t.TxQueue /\ h.n \in Stamp
  BY <1>1, OldestInQueue DEF WireHead, Frame
<1>3. t2 \in Tunnel
  BY <1>1, <1>2 DEF Tunnel, Acknowledged, WireHead
<1>4. /\ t2.TxQueue = Q2 /\ t2.StatDrops = t.StatDrops
      /\ t2.offered = t.offered /\ t2.open = t.open
      /\ t2.TxOnWire = FALSE /\ t2.sent = t.sent
      /\ t2.StatAcks = A2
      /\ t2.SequenceCounter_S = t.SequenceCounter_S
  BY DEF Tunnel, Acknowledged, WireHead
<1> HIDE DEF t2
<1>5. StampInv(t2)
  <2>1. StampInv(t) BY <1>1 DEF BaseInv
  <2>2. \A f \in t.TxQueue : f.n = h.n => f = h
    BY <2>1, <1>2 DEF StampInv
  <2>3. 1 .. t.offered = Stamps(Q2) \union A2 \union t.StatDrops
    BY <2>1, <1>2 DEF StampInv, Conserved, Stamps
  <2>4. Stamps(Q2) \intersect A2 = {}
    BY <2>1, <2>2, <1>2 DEF StampInv, Conserved, Stamps
  <2>5. Stamps(Q2) \intersect t.StatDrops = {}
    BY <2>1 DEF StampInv, Conserved, Stamps
  <2>6. A2 \intersect t.StatDrops = {}
    BY <2>1, <1>2 DEF StampInv, Conserved, Stamps
  <2>7. /\ \A f \in Q2 : f.n <= t.offered
        /\ \A f, g \in Q2 : f.n = g.n => f = g
    BY <2>1 DEF StampInv
  <2> HIDE DEF Q2, A2
  <2>8. Conserved(t2)
    BY <1>4, <2>3, <2>4, <2>5, <2>6 DEF Conserved
  <2> QED BY <1>4, <2>7, <2>8 DEF StampInv
<1>6. SeqInv(t2)
  BY <1>1, <1>4 DEF BaseInv, SeqInv
<1>7. DeliveryInv(t2, d)
  <2>1. DeliveryInv(t, d) BY <1>1 DEF BaseInv
  <2>2. \A f \in Q2 : \A i \in DOMAIN d : d[i].n < f.n
    BY <2>1 DEF DeliveryInv
  <2>3. A2 \subseteq Del(d) /\ Del(d) \subseteq A2
        /\ Del(d) \subseteq 1 .. t.offered
    BY <2>1 DEF DeliveryInv
  <2> HIDE DEF Q2, A2
  <2> QED BY <1>4, <2>2, <2>3 DEF DeliveryInv
<1>8. OpenInv(c, t2, d, S)
  <2> SUFFICES ASSUME NEW m \in S, m.conn = c
               PROVE  /\ m.k >= 1 /\ m.seq = (m.k - 1) % SeqMod
                      /\ m.k <= t2.sent
                      /\ t2.sent + 1 < m.k + SeqMod
                      /\ ~(m.type = "request" /\ m.k = Len(d) + 1)
                      /\ m.type = "ack" /\ m.ok => m.k <= Len(d)
    BY DEF OpenInv
  <2>1. /\ m.k >= 1 /\ m.seq = (m.k - 1) % SeqMod
        /\ m.k <= t.sent
        /\ t.sent + 1 < m.k + SeqMod
        /\ m.type = "ack" /\ m.ok => m.k <= Len(d)
    BY <1>1 DEF BaseInv, OpenInv
  <2>2. t.sent \in Nat BY DEF Tunnel
  <2>3. m.k # Len(d) + 1
    BY <2>1, <2>2
  <2> QED BY <2>1, <2>3, <1>4
<1>9. BaseInv(c, t2, d, S)
  BY <1>1, <1>4, <1>5, <1>6, <1>7, <1>8 DEF BaseInv, ClosedInv
<1> QED BY <1>3, <1>4, <1>9 DEF t2

(* What a request on its way says when the client finds its number to be   *)
(* the expected one: it is the next request of its channel.                *)
LEMMA ExpectedIsNext ==
  ASSUME NEW c, NEW t, NEW d \in Seq(Frame), ConnInv(c, t, d, net),
         NEW m \in net, m.conn = c, m \in Request,
         m.seq = Len(d) % SeqMod
  PROVE  m.k = Len(d) + 1
<1>1. m.k \in Nat /\ m.type = "request" /\ Len(d) \in Nat
  BY DEF Request
<1>2. m.k >= 1 /\ m.k <= Len(d) + 1 /\ Len(d) + 1 < m.k + SeqMod
  BY <1>1 DEF ConnInv, BaseInv, RequestInv
<1>3. m.seq = (m.k - 1) % SeqMod
  BY <1>1 DEF ConnInv, BaseInv, RequestInv
<1>4. m.k - 1 \in Nat /\ m.k - 1 <= Len(d) /\ Len(d) - (m.k - 1) < SeqMod
  BY <1>1, <1>2, SeqModAssumption
<1>5. Len(d) = m.k - 1
  BY <1>1, <1>3, <1>4, ModUnique, SeqModAssumption
<1> QED BY <1>1, <1>5

(* And when it finds it to be the previous one: the client has it.         *)
LEMMA PreviousIsKnown ==
  ASSUME NEW c, NEW t, NEW d \in Seq(Frame), ConnInv(c, t, d, net),
         NEW m \in net, m.conn = c, m \in Request,
         m.seq = (Len(d) + SeqMod - 1) % SeqMod
  PROVE  m.k <= Len(d)
<1>1. m.k \in Nat /\ m.type = "request" /\ Len(d) \in Nat
  BY DEF Request
<1>2. m.k >= 1 /\ m.k <= Len(d) + 1
  BY <1>1 DEF ConnInv, BaseInv, RequestInv
<1>3. m.seq = (m.k - 1) % SeqMod
  BY <1>1 DEF ConnInv, BaseInv, RequestInv
<1>4. ASSUME m.k = Len(d) + 1 PROVE FALSE
  <2>1. m.k - 1 = Len(d)
    BY <1>1, <1>4
  <2>2. Len(d) + SeqMod - 1 \in Nat /\ Len(d) <= Len(d) + SeqMod - 1
        /\ (Len(d) + SeqMod - 1) - Len(d) < SeqMod
    BY <1>1, SeqModAssumption
  <2>3. Len(d) + SeqMod - 1 = Len(d)
    BY <1>1, <1>3, <2>1, <2>2, ModUnique, SeqModAssumption
  <2> QED BY <2>3, <1>1, SeqModAssumption
<1> QED BY <1>1, <1>2, <1>4

(* An ack of the client joins the datagrams.                               *)
LEMMA AckIsSent ==
  ASSUME NEW c \in Conns, NEW t, NEW d, NEW S, ConnInv(c, t, d, S),
         NEW m \in S, m \in Request, m.conn = c,
         NEW ok \in BOOLEAN, ok => m.k <= Len(d)
  PROVE  AckFor(m, ok) \in Ack /\ ConnInv(c, t, d, S \union {AckFor(m, ok)})
<1> DEFINE a == AckFor(m, ok)
<1>1. a = [type |-> "ack", conn |-> c, seq |-> m.seq, k |-> m.k, ok |-> ok]
  BY DEF AckFor
<1> HIDE DEF a
<1>2. /\ a.type = "ack" /\ a.conn = c /\ a.seq = m.seq /\ a.k = m.k
      /\ a.ok = ok
  BY <1>1
<1>3. a \in Ack
  BY <1>1 DEF Ack, Request
<1>4. RequestInv(c, d, S \union {a})
  BY <1>2 DEF ConnInv, BaseInv, RequestInv
<1>5. OpenInv(c, t, d, S \union {a})
  <2>1. OpenInv(c, t, d, S)
    BY DEF ConnInv, BaseInv
  <2>2. t.open => /\ a.k >= 1 /\ a.seq = (a.k - 1) % SeqMod
                  /\ a.k <= t.sent
                  /\ t.sent + 1 < a.k + SeqMod
                  /\ a.type # "request"
                  /\ a.ok => a.k <= Len(d)
    BY <1>2, <2>1 DEF OpenInv
  <2> QED BY <2>1, <2>2, <1>2 DEF OpenInv
<1> QED BY <1>3, <1>4, <1>5 DEF ConnInv, BaseInv, a

(* The client accepts a request.                                           *)
LEMMA RequestIsAccepted ==
  ASSUME NEW c \in Conns, NEW t \in Tunnel, NEW d \in Seq(Frame),
         net \subseteq Request \union Ack, ConnInv(c, t, d, net),
         NEW m \in net, m \in Request, m.conn = c,
         m.seq = Len(d) % SeqMod
  PROVE  /\ Append(d, m.frame) \in Seq(Frame)
         /\ ConnInv(c, t, Append(d, m.frame), net)
         /\ m.k <= Len(Append(d, m.frame))
<1> DEFINE d2 == Append(d, m.frame)
<1>1. m.k \in Nat /\ m.type = "request" /\ m.frame \in Frame /\ Len(d) \in Nat
  BY DEF Request
<1>2. m.k = Len(d) + 1
  BY ExpectedIsNext
<1>3. /\ d2 \in Seq(Frame) /\ Len(d2) = Len(d) + 1
      /\ DOMAIN d = 1 .. Len(d) /\ DOMAIN d2 = 1 .. Len(d) + 1
      /\ \A i \in 1 .. Len(d) : d2[i] = d[i]
      /\ d2[Len(d) + 1] = m.frame
  BY <1>1
<1> HIDE DEF d2
<1>4. BaseInv(c, t, d, net) /\ (t.TxQueue # {} <=> t.TxOnWire)
  BY DEF ConnInv
<1>5. \A i \in DOMAIN d : d[i].n < m.frame.n
  BY <1>1, <1>2, <1>4 DEF BaseInv, RequestInv
<1>6. Del(d2) = Del(d) \union {m.frame.n}
  <2>1. DOMAIN d2 = DOMAIN d \union {Len(d) + 1}
    BY <1>1, <1>3
  <2>2. \A i \in DOMAIN d : d2[i].n = d[i].n
    BY <1>3
  <2> QED BY <1>3, <2>1, <2>2 DEF Del
<1>7. Ordered(d2)
  <2> SUFFICES ASSUME NEW i \in DOMAIN d2, NEW j \in DOMAIN d2, i < j
               PROVE  d2[i].n < d2[j].n
    BY DEF Ordered
  <2>1. i \in DOMAIN d /\ d2[i] = d[i]
    BY <1>1, <1>3
  <2>2. CASE j \in DOMAIN d
    BY <2>1, <2>2, <1>3, <1>4 DEF BaseInv, Ordered
  <2>3. CASE j = Len(d) + 1
    BY <2>1, <2>3, <1>3, <1>5
  <2> QED BY <2>2, <2>3, <1>1, <1>3
<1>8. t.open => t.TxOnWire /\ m.frame = WireHead(t)
                /\ m.k <= t.sent
  BY <1>1, <1>2, <1>4 DEF BaseInv, OpenInv
<1>9. t.open => Len(d2) = t.sent /\ t.TxOnWire
  <2> SUFFICES ASSUME t.open PROVE Len(d2) = t.sent
    BY <1>8
  <2>1. t.sent \in Nat BY DEF Tunnel
  <2>2. Len(d) \in {t.sent - 1, t.sent}
    BY <1>4, <1>8 DEF BaseInv, DeliveryInv
  <2> QED BY <2>1, <2>2, <1>1, <1>2, <1>3, <1>8
<1>10. DeliveryInv(t, d2)
  <2>1. DeliveryInv(t, d) /\ StampInv(t)
    BY <1>4 DEF BaseInv
  <2>2. CASE t.open
    <3> DEFINE h == WireHead(t)
    <3>1. t.TxQueue \in SUBSET Frame /\ t.TxQueue # {}
      BY <2>2, <1>4, <1>8 DEF Tunnel
    <3>2. h \in t.TxQueue /\ \A g \in t.TxQueue : h.n <= g.n
      BY <3>1, OldestInQueue DEF WireHead
    <3>3. \A f \in t.TxQueue : f = h \/ \A i \in DOMAIN d2 : d2[i].n < f.n
      <4> SUFFICES ASSUME NEW f \in t.TxQueue, f # h, NEW i \in DOMAIN d2
                   PROVE  d2[i].n < f.n
        OBVIOUS
      <4>1. h.n \in Nat /\ f.n \in Nat /\ h.n # f.n /\ h.n <= f.n
        BY <2>1, <3>1, <3>2, BoundAssumption DEF StampInv, Frame, Stamp
      <4>2. CASE i \in DOMAIN d
        <5>1. d2[i] = d[i] BY <4>2, <1>3
        <5>2. d[i].n < h.n BY <4>2, <1>5, <1>8, <2>2
        <5>3. d[i] \in Frame BY <4>2
        <5>4. d[i].n \in Nat BY <5>3, BoundAssumption DEF Frame, Stamp
        <5> QED BY <4>1, <5>1, <5>2, <5>4
      <4>3. CASE i = Len(d) + 1
        BY <4>1, <4>3, <1>3, <1>8, <2>2
      <4> QED BY <4>2, <4>3, <1>1, <1>3
    <3>4. h.n \in Del(d2)
      BY <1>6, <1>8, <2>2
    <3>5. Del(d2) \subseteq 1 .. t.offered
      <4>1. h.n \in Nat /\ h.n >= 1 /\ h.n <= t.offered
        BY <2>1, <3>1, <3>2, BoundAssumption DEF StampInv, Frame, Stamp
      <4>2. t.offered \in Nat
        BY BoundAssumption DEF Tunnel
      <4>3. h.n \in 1 .. t.offered
        BY <4>1, <4>2
      <4> QED BY <2>1, <2>2, <4>3, <1>6, <1>8 DEF DeliveryInv
    <3>6. t.StatAcks \subseteq Del(d2)
      BY <2>1, <1>6 DEF DeliveryInv
    <3>7. Del(d2) \subseteq t.StatAcks \union {h.n}
      BY <2>1, <2>2, <1>6, <1>8 DEF DeliveryInv
    <3> HIDE DEF h
    <3>8. /\ \A f \in t.TxQueue :
               \/ \A i \in DOMAIN d2 : d2[i].n < f.n
               \/ t.TxOnWire /\ f = WireHead(t) /\ Len(d2) = t.sent
      BY <2>2, <3>3, <1>9 DEF h
    <3>9. t.TxOnWire /\ Len(d2) = t.sent BY <2>2, <1>9
    <3> QED BY <3>4, <3>5, <3>6, <3>7, <3>8, <3>9 DEF DeliveryInv, h
  <2>3. CASE ~t.open
    BY <2>3, <1>4 DEF BaseInv, ClosedInv, FreeTunnel, DeliveryInv
  <2> QED BY <2>2, <2>3
<1>11. RequestInv(c, d2, net)
  <2> SUFFICES ASSUME NEW q \in net, q.conn = c, q.type = "request"
               PROVE  /\ q.k >= 1 /\ q.seq = (q.k - 1) % SeqMod
                      /\ q.k <= Len(d2) + 1
                      /\ Len(d2) + 1 < q.k + SeqMod
                      /\ q.k = Len(d2) + 1 => \A i \in DOMAIN d2 : d2[i].n < q.frame.n
                      /\ \A r \in net : r.conn = c /\ r.type = "request" => r.k + 1 < q.k + SeqMod
    BY DEF RequestInv
  <2>1. /\ q.k >= 1 /\ q.seq = (q.k - 1) % SeqMod
        /\ q.k <= Len(d) + 1
        /\ \A r \in net : r.conn = c /\ r.type = "request" => r.k + 1 < q.k + SeqMod
    BY <1>4 DEF BaseInv, RequestInv
  <2>2. q.k \in Nat BY DEF Request, Ack
  <2>3. m.k + 1 < q.k + SeqMod
    BY <2>1, <1>1
  <2>4. q.k <= Len(d2) + 1 /\ q.k # Len(d2) + 1
    BY <2>1, <2>2, <1>1, <1>3
  <2>5. Len(d2) + 1 < q.k + SeqMod
    BY <2>3, <1>1, <1>2, <1>3
  <2> QED BY <2>1, <2>4, <2>5
<1>12. OpenInv(c, t, d2, net)
  <2> SUFFICES ASSUME t.open, NEW q \in net, q.conn = c
               PROVE  /\ q.k >= 1 /\ q.seq = (q.k - 1) % SeqMod
                      /\ q.k <= t.sent
                      /\ t.sent + 1 < q.k + SeqMod
                      /\ q.type = "request" /\ q.k = Len(d2) + 1 => t.TxOnWire /\ q.frame = WireHead(t)
                      /\ q.type = "ack" /\ q.ok => q.k <= Len(d2)
    BY DEF OpenInv
  <2>1. /\ q.k >= 1 /\ q.seq = (q.k - 1) % SeqMod
        /\ q.k <= t.sent
        /\ t.sent + 1 < q.k + SeqMod
    BY <1>4 DEF BaseInv, OpenInv
  <2>2. q.k \in Nat /\ t.sent \in Nat BY DEF Request, Ack, Tunnel
  <2>3. q.k <= Len(d2) /\ q.k # Len(d2) + 1
    BY <2>1, <2>2, <1>9
  <2> QED BY <2>1, <2>3
<1>13. ConnInv(c, t, d2, net)
  BY <1>4, <1>7, <1>10, <1>11, <1>12 DEF ConnInv, BaseInv
<1> QED BY <1>1, <1>2, <1>3, <1>13 DEF d2

-----------------------------------------------------------------------------
(* The steps.                                                              *)

(* What is given up is what may be given up.                               *)
LEMMA GivenUpIsDroppable ==
  \A t, len : GivenUp(t, len) \subseteq Droppable(t)
BY DEF GivenUp

(* A step is about one connection: the others keep their invariant.        *)
LEMMA OneConnection ==
  ASSUME IInv, NEW x \in Conns, TypeOK',
         \A c \in Conns \ {x} : tun'[c] = tun[c] /\ delivered'[c] = delivered[c],
         \A m \in net' : m.conn # x => m \in net,
         ConnInv(x, tun'[x], delivered'[x], net')
  PROVE  IInv'
<1>1. ASSUME NEW c \in Conns, c # x
      PROVE  ConnInv(c, tun'[c], delivered'[c], net')
  <2>1. ConnInv(c, tun[c], delivered[c], net)
    BY DEF IInv
  <2>2. \A m \in net' : m.conn = c => m \in net
    BY <1>1
  <2>3. ConnInv(c, tun[c], delivered[c], net')
    BY <2>1, <2>2, FewerDatagrams
  <2> QED BY <2>3, <1>1
<1> QED BY <1>1 DEF IInv

LEMMA InitInv == Init => IInv
<1> SUFFICES ASSUME Init PROVE IInv
  OBVIOUS
<1>1. FreeTunnel \in Tunnel
  BY SeqModAssumption, BoundAssumption DEF FreeTunnel, Tunnel, Seq8
<1>2. TypeOK
  BY <1>1 DEF Init, TypeOK
<1>3. ASSUME NEW c \in Conns PROVE ConnInv(c, FreeTunnel, <<>>, {})
  <2>1. 0 % SeqMod = 0 BY SeqModAssumption
  <2>2. StampInv(FreeTunnel)
    BY DEF StampInv, Conserved, Stamps, FreeTunnel
  <2>3. SeqInv(FreeTunnel)
    BY <2>1 DEF SeqInv, FreeTunnel
  <2>4. DeliveryInv(FreeTunnel, <<>>)
    BY DEF DeliveryInv, FreeTunnel
  <2> QED BY <2>2, <2>3, <2>4
          DEF ConnInv, BaseInv, Ordered, RequestInv, OpenInv, ClosedInv, FreeTunnel
<1> QED BY <1>2, <1>3 DEF Init, IInv

LEMMA ConnectStep ==
  ASSUME IInv, NEW c \in Conns, NEW config \in BOOLEAN, Connect(c, config)
  PROVE  IInv'
<1> DEFINE t2 == [FreeTunnel EXCEPT !.open = TRUE, !.IsConfig = config]
<1>1. TypeOK BY DEF IInv
<1>2. /\ t2.open /\ t2.TxQueue = {} /\ ~t2.TxOnWire /\ t2.sent = 0
      /\ t2.SequenceCounter_S = 0 /\ t2.StatAcks = {} /\ t2.StatDrops = {}
      /\ t2.offered = 0 /\ t2 \in Tunnel
  <2>1. FreeTunnel \in Tunnel
    BY SeqModAssumption, BoundAssumption DEF FreeTunnel, Tunnel, Seq8
  <2>2. t2 \in Tunnel
    BY <2>1 DEF Tunnel
  <2>3. /\ t2.open /\ t2.TxQueue = {} /\ ~t2.TxOnWire /\ t2.sent = 0
        /\ t2.SequenceCounter_S = 0 /\ t2.StatAcks = {}
        /\ t2.StatDrops = {} /\ t2.offered = 0
    BY DEF FreeTunnel
  <2> QED BY <2>2, <2>3
<1> HIDE DEF t2
<1>3. /\ tun' = [tun EXCEPT ![c] = t2] /\ net' = {m \in net : m.conn # c}
      /\ delivered' = [delivered EXCEPT ![c] = <<>>]
  BY DEF Connect, t2
<1>4. TypeOK'
  BY <1>1, <1>2, <1>3 DEF TypeOK
<1>5. tun'[c] = t2 /\ delivered'[c] = <<>>
  BY <1>1, <1>3 DEF TypeOK
<1>6. ConnInv(c, t2, <<>>, net')
  <2>1. 0 % SeqMod = 0 BY SeqModAssumption
  <2>2. StampInv(t2)
    BY <1>2 DEF StampInv, Conserved, Stamps
  <2>3. SeqInv(t2)
    BY <2>1, <1>2 DEF SeqInv
  <2>4. DeliveryInv(t2, <<>>)
    BY <1>2 DEF DeliveryInv, Del
  <2> QED BY <2>2, <2>3, <2>4, <1>2, <1>3
          DEF ConnInv, BaseInv, Ordered, RequestInv, OpenInv, ClosedInv
<1>7. \A x \in Conns \ {c} : tun'[x] = tun[x] /\ delivered'[x] = delivered[x]
  BY <1>1, <1>3 DEF TypeOK
<1> QED BY <1>3, <1>4, <1>5, <1>6, <1>7, OneConnection

LEMMA FrameQueuedStep ==
  ASSUME IInv, NEW c \in Conns, NEW len \in Lengths, NEW drop \in BOOLEAN,
         FrameQueued(c, len, drop)
  PROVE  IInv'
<1> DEFINE t == tun[c]
           gone == GivenUp(t, len)
           new == [n |-> t.offered + 1, len |-> len, drop |-> drop]
           t1 == WithFrame(t, gone, new)
           t2 == SendTunnelHead(t1)
           d == delivered[c]
<1>1. TypeOK /\ t \in Tunnel /\ d \in Seq(Frame) /\ ConnInv(c, t, d, net)
  BY DEF IInv, TypeOK
<1>2. /\ t.open /\ t.offered < MaxOffered
      /\ tun' = [tun EXCEPT ![c] = t2]
      /\ net' = IF t.TxOnWire THEN net ELSE WithRequest(c, t2)
      /\ delivered' = delivered
  BY DEF FrameQueued, WithFrame
<1>3. gone \in SUBSET Droppable(t)
  BY GivenUpIsDroppable
<1>4. new \in Frame /\ new.n = t.offered + 1
  BY <1>1, <1>2, BoundAssumption DEF Frame, Stamp, Tunnel
<1> HIDE DEF t, gone, new, d
<1>5. /\ t1 \in Tunnel /\ BaseInv(c, t1, d, net)
      /\ t1.open /\ t1.TxOnWire = t.TxOnWire /\ t1.TxQueue # {}
  <2>1. /\ t \in Tunnel /\ ConnInv(c, t, d, net) /\ t.open
        /\ t.offered < MaxOffered
    BY <1>1, <1>2
  <2> HIDE DEF t2
  <2> QED BY <2>1, <1>3, <1>4, FrameIsQueued
<1> HIDE DEF t1
<1>6. /\ t2 \in Tunnel /\ net' \subseteq Request \union Ack
      /\ ConnInv(c, t2, d, net')
  <2>0. net \subseteq Request \union Ack BY <1>1 DEF TypeOK
  <2>1. CASE t.TxOnWire
    <3>1. t2 = t1 /\ net' = net
      BY <2>1, <1>2, <1>5 DEF SendTunnelHead
    <3>2. ConnInv(c, t1, d, net)
      BY <2>1, <1>5 DEF ConnInv
    <3> QED BY <3>1, <3>2, <2>0, <1>5
  <2>2. CASE ~t.TxOnWire
    <3>1. t2 = StartRequest(t1) /\ net' = WithRequest(c, StartRequest(t1))
      BY <2>2, <1>2, <1>5 DEF SendTunnelHead
    <3>2. /\ StartRequest(t1) \in Tunnel
          /\ WithRequest(c, StartRequest(t1)) \subseteq Request \union Ack
          /\ ConnInv(c, StartRequest(t1), d, WithRequest(c, StartRequest(t1)))
      BY <2>2, <2>0, <1>1, <1>5, RequestIsStarted
    <3> QED BY <3>1, <3>2
  <2> QED BY <2>1, <2>2
<1>7. \A m \in net' : m.conn # c => m \in net
  BY <1>2 DEF WithRequest, RequestOnWire
<1> HIDE DEF t2
<1>8. TypeOK' /\ tun'[c] = t2 /\ delivered'[c] = d
      /\ \A x \in Conns \ {c} : tun'[x] = tun[x] /\ delivered'[x] = delivered[x]
  BY <1>1, <1>2, <1>6 DEF TypeOK, d
<1> QED BY <1>6, <1>7, <1>8, OneConnection

LEMMA FrameLostStep ==
  ASSUME IInv, NEW c \in Conns, NEW len \in Lengths, FrameLost(c, len)
  PROVE  IInv'
<1> DEFINE t == tun[c]
           gone == GivenUp(t, len)
           t2 == [t EXCEPT !.TxQueue = @ \ gone,
                           !.StatDrops = @ \union Stamps(gone)
                                           \union {t.offered + 1},
                           !.offered = @ + 1]
           d == delivered[c]
<1>1. TypeOK /\ t \in Tunnel /\ ConnInv(c, t, d, net)
  BY DEF IInv, TypeOK
<1>2. /\ t.open /\ t.offered < MaxOffered
      /\ tun' = [tun EXCEPT ![c] = t2]
      /\ net' = net /\ delivered' = delivered
  BY DEF FrameLost
<1>3. gone \in SUBSET Droppable(t)
  BY GivenUpIsDroppable
<1> HIDE DEF t, gone, d
<1>4. t2 \in Tunnel /\ ConnInv(c, t2, d, net)
  BY <1>1, <1>2, <1>3, FrameIsLost
<1> HIDE DEF t2
<1>5. TypeOK' /\ tun'[c] = t2 /\ delivered'[c] = d
      /\ \A x \in Conns \ {c} : tun'[x] = tun[x] /\ delivered'[x] = delivered[x]
  BY <1>1, <1>2, <1>4 DEF TypeOK, d
<1> QED BY <1>2, <1>4, <1>5, OneConnection

(* What closing a channel does (TxClear, Reset).                           *)
LEMMA ResetStep ==
  ASSUME IInv, NEW c \in Conns, Reset(c), UNCHANGED <<net, delivered>>
  PROVE  IInv'
<1>1. TypeOK /\ ConnInv(c, tun[c], delivered[c], net)
  BY DEF IInv
<1>2. FreeTunnel \in Tunnel /\ ConnInv(c, FreeTunnel, delivered[c], net)
  BY <1>1, ClosedChannel
<1>3. tun' = [tun EXCEPT ![c] = FreeTunnel]
  BY DEF Reset
<1>4. TypeOK' /\ tun'[c] = FreeTunnel
      /\ \A x \in Conns \ {c} : tun'[x] = tun[x] /\ delivered'[x] = delivered[x]
  BY <1>1, <1>2, <1>3 DEF TypeOK
<1> QED BY <1>2, <1>4, OneConnection

LEMMA ResendOrCloseStep ==
  ASSUME IInv, NEW c \in Conns, tun[c].open, tun[c].TxOnWire,
         ResendOrCloseTunnel(c), UNCHANGED delivered
  PROVE  IInv'
<1>1. CASE tun[c].TxRepeats < MaxRepeats(tun[c])
  <2> DEFINE t == tun[c]
             t2 == [t EXCEPT !.TxRepeats = @ + 1]
             d == delivered[c]
  <2>1. TypeOK /\ t \in Tunnel /\ d \in Seq(Frame) /\ ConnInv(c, t, d, net)
    BY DEF IInv, TypeOK
  <2>2. CASE tun' = [tun EXCEPT ![c].TxRepeats = @ + 1] /\ net' = WithRequest(c, tun[c])
    <3>1. tun' = [tun EXCEPT ![c] = t2] /\ net' = WithRequest(c, t)
      BY <2>2
    <3>2. t.open /\ t.TxOnWire /\ t.TxRepeats < MaxRepeats(t)
          /\ net \subseteq Request \union Ack
      BY <1>1, <2>1 DEF TypeOK
    <3> HIDE DEF t, d
    <3>3. /\ t2 \in Tunnel /\ WithRequest(c, t) \subseteq Request \union Ack
          /\ ConnInv(c, t2, d, WithRequest(c, t))
      BY <2>1, <3>2, RequestIsRepeated
    <3>4. \A m \in net' : m.conn # c => m \in net
      BY <3>1 DEF WithRequest, RequestOnWire
    <3> HIDE DEF t2
    <3>5. TypeOK' /\ tun'[c] = t2 /\ delivered'[c] = d
          /\ \A x \in Conns \ {c} : tun'[x] = tun[x] /\ delivered'[x] = delivered[x]
      BY <2>1, <3>1, <3>3 DEF TypeOK, d
    <3> QED BY <3>1, <3>3, <3>4, <3>5, OneConnection
  <2>3. CASE tun[c].TxRepeats >= MaxRepeats(tun[c])
    <3>1. tun[c].TxRepeats \in Int /\ MaxRepeats(tun[c]) \in Int
      BY <2>1 DEF Tunnel, MaxRepeats
    <3> QED BY <1>1, <2>3, <3>1
  <2> QED BY <2>2, <2>3 DEF ResendOrCloseTunnel
<1>2. CASE ~(tun[c].TxRepeats < MaxRepeats(tun[c]))
  BY <1>2, ResetStep DEF ResendOrCloseTunnel
<1> QED BY <1>1, <1>2

LEMMA AckStep ==
  ASSUME IInv, NEW m \in net, AckReceived(m)
  PROVE  IInv'
<1> DEFINE c == m.conn
           t == tun[c]
           t1 == Acknowledged(t)
           t2 == SendTunnelHead(t1)
           d == delivered[c]
<1>1. m \in Ack /\ m.ok /\ t.open /\ t.TxOnWire /\ m.seq = t.TxSeq
  BY DEF AckReceived, Stale
<1>2. c \in Conns
  BY <1>1 DEF Ack
<1>3. TypeOK /\ t \in Tunnel /\ d \in Seq(Frame) /\ ConnInv(c, t, d, net)
  BY <1>2 DEF IInv, TypeOK
<1>4. /\ tun' = [tun EXCEPT ![c] = t2]
      /\ net' = IF t2.TxOnWire THEN WithRequest(c, t2) ELSE net
      /\ delivered' = delivered
  BY DEF AckReceived
<1>5. Len(d) = t.sent /\ WireHead(t).n \in Del(d)
  BY <1>1, <1>3, AckIsForHead
<1> HIDE DEF t, d
<1>6. /\ t1 \in Tunnel /\ BaseInv(c, t1, d, net) /\ t1.open /\ ~t1.TxOnWire
  BY <1>1, <1>3, <1>5, RequestIsAcknowledged
<1> HIDE DEF t1
<1>7. /\ t2 \in Tunnel /\ net' \subseteq Request \union Ack
      /\ ConnInv(c, t2, d, net')
  <2>0. net \subseteq Request \union Ack BY <1>3 DEF TypeOK
  <2>1. CASE t1.TxQueue = {}
    <3>1. t2 = t1 /\ net' = net
      BY <2>1, <1>4, <1>6 DEF SendTunnelHead
    <3>2. ConnInv(c, t1, d, net)
      BY <2>1, <1>6 DEF ConnInv
    <3> QED BY <3>1, <3>2, <2>0, <1>6
  <2>2. CASE t1.TxQueue # {}
    <3>1. t2 = StartRequest(t1)
      BY <2>2, <1>6 DEF SendTunnelHead
    <3>2. /\ StartRequest(t1) \in Tunnel
          /\ WithRequest(c, StartRequest(t1)) \subseteq Request \union Ack
          /\ ConnInv(c, StartRequest(t1), d, WithRequest(c, StartRequest(t1)))
      BY <2>2, <2>0, <1>2, <1>3, <1>6, RequestIsStarted
    <3>3. t2.TxOnWire
      BY <3>1, <1>6 DEF StartRequest, Tunnel
    <3> QED BY <3>1, <3>2, <3>3, <1>4
  <2> QED BY <2>1, <2>2
<1>8. \A q \in net' : q.conn # c => q \in net
  BY <1>4 DEF WithRequest, RequestOnWire
<1> HIDE DEF t2
<1>9. TypeOK' /\ tun'[c] = t2 /\ delivered'[c] = d
      /\ \A x \in Conns \ {c} : tun'[x] = tun[x] /\ delivered'[x] = delivered[x]
  BY <1>2, <1>3, <1>4, <1>7 DEF TypeOK, d
<1> QED BY <1>2, <1>7, <1>8, <1>9, OneConnection

(* The client answers the request m, its own frames being d2 afterwards.   *)
LEMMA ClientAnswers ==
  ASSUME IInv, NEW m \in net, m \in Request, NEW ok \in BOOLEAN,
         NEW d2 \in Seq(Frame), ConnInv(m.conn, tun[m.conn], d2, net),
         ok => m.k <= Len(d2),
         net' = net \union {AckFor(m, ok)}, UNCHANGED tun,
         delivered' = [delivered EXCEPT ![m.conn] = d2]
  PROVE  IInv'
<1> DEFINE c == m.conn
<1>1. c \in Conns
  BY DEF Request
<1>2. TypeOK BY DEF IInv
<1>3. AckFor(m, ok) \in Ack /\ ConnInv(c, tun[c], d2, net')
  BY <1>1, AckIsSent
<1>4. TypeOK' /\ delivered'[c] = d2
      /\ \A x \in Conns \ {c} : tun'[x] = tun[x] /\ delivered'[x] = delivered[x]
  BY <1>1, <1>2, <1>3 DEF TypeOK
<1>5. \A q \in net' : q.conn # c => q \in net
  BY DEF AckFor
<1> QED BY <1>1, <1>3, <1>4, <1>5, OneConnection

LEMMA ClientStep ==
  ASSUME IInv, NEW m \in net,
         ClientAccepts(m) \/ ClientAcksRepeat(m) \/ ClientRefuses(m)
  PROVE  IInv'
<1> DEFINE c == m.conn
           d == delivered[c]
<1>1. m \in Request /\ c \in Conns
  BY DEF ClientAccepts, ClientAcksRepeat, ClientRefuses, Request
<1>2. /\ TypeOK /\ tun[c] \in Tunnel /\ d \in Seq(Frame)
      /\ ConnInv(c, tun[c], d, net)
      /\ net \subseteq Request \union Ack
      /\ delivered = [delivered EXCEPT ![c] = d]
  BY <1>1 DEF IInv, TypeOK
<1>3. CASE ClientAccepts(m)
  <2>1. m.seq = Len(d) % SeqMod
    BY <1>3 DEF ClientAccepts, Accepted
  <2>2. /\ Append(d, m.frame) \in Seq(Frame)
        /\ ConnInv(c, tun[c], Append(d, m.frame), net)
        /\ m.k <= Len(Append(d, m.frame))
    BY <1>1, <1>2, <2>1, RequestIsAccepted
  <2>3. /\ net' = net \union {AckFor(m, TRUE)} /\ UNCHANGED tun
        /\ delivered' = [delivered EXCEPT ![c] = Append(d, m.frame)]
    BY <1>3 DEF ClientAccepts
  <2> QED BY <1>1, <2>2, <2>3, ClientAnswers
<1>4. CASE ClientAcksRepeat(m)
  <2>1. m.seq = (Len(d) + SeqMod - 1) % SeqMod
    BY <1>4 DEF ClientAcksRepeat, Accepted
  <2>2. m.k <= Len(d)
    BY <1>1, <1>2, <2>1, PreviousIsKnown
  <2>3. net' = net \union {AckFor(m, TRUE)} /\ UNCHANGED <<tun, delivered>>
    BY <1>4 DEF ClientAcksRepeat
  <2>4. delivered' = [delivered EXCEPT ![c] = d]
    BY <1>2, <2>3
  <2> QED BY <1>1, <1>2, <2>2, <2>3, <2>4, ClientAnswers
<1>5. CASE ClientRefuses(m)
  <2>1. net' = net \union {AckFor(m, FALSE)} /\ UNCHANGED <<tun, delivered>>
    BY <1>5 DEF ClientRefuses
  <2>2. delivered' = [delivered EXCEPT ![c] = d]
    BY <1>2, <2>1
  <2> QED BY <1>1, <1>2, <2>1, <2>2, ClientAnswers
<1> QED BY <1>3, <1>4, <1>5

(* Nothing but datagrams lost.                                             *)
LEMMA VanishStep ==
  ASSUME IInv, net' \subseteq net, UNCHANGED <<tun, delivered>>
  PROVE  IInv'
<1>1. TypeOK'
  BY DEF IInv, TypeOK
<1>2. ASSUME NEW c \in Conns PROVE ConnInv(c, tun[c], delivered[c], net')
  <2>1. ConnInv(c, tun[c], delivered[c], net) BY DEF IInv
  <2> QED BY <2>1, FewerDatagrams
<1> QED BY <1>1, <1>2 DEF IInv

LEMMA NextInv == IInv /\ [Next]_vars => IInv'
<1> SUFFICES ASSUME IInv, [Next]_vars PROVE IInv'
  OBVIOUS
<1>1. CASE \E c \in Conns, config \in BOOLEAN : Connect(c, config)
  BY <1>1, ConnectStep
<1>2. CASE \E c \in Conns : \E len \in Lengths, drop \in BOOLEAN :
             FrameQueued(c, len, drop)
  BY <1>2, FrameQueuedStep
<1>3. CASE \E c \in Conns : \E len \in Lengths : FrameLost(c, len)
  BY <1>3, FrameLostStep
<1>4. CASE \E c \in Conns : AckTimeout(c)
  BY <1>4, ResendOrCloseStep DEF AckTimeout
<1>5. CASE \E c \in Conns : CloseTunnel(c)
  BY <1>5, ResetStep DEF CloseTunnel
<1>6. CASE \E m \in net : AckReceived(m)
  BY <1>6, AckStep
<1>7. CASE \E m \in net : NegativeAckReceived(m)
  BY <1>7, ResendOrCloseStep DEF NegativeAckReceived, Stale, Ack
<1>8. CASE \E m \in net :
             ClientAccepts(m) \/ ClientAcksRepeat(m) \/ ClientRefuses(m)
  BY <1>8, ClientStep
<1>9. CASE \E m \in net : Vanish(m)
  BY <1>9, VanishStep DEF Vanish
<1>10. CASE UNCHANGED vars
  BY <1>10, VanishStep DEF vars
<1> QED BY <1>1, <1>2, <1>3, <1>4, <1>5, <1>6, <1>7, <1>8, <1>9, <1>10 DEF Next

(* The invariant holds in every reachable state.                           *)
THEOREM Invariant == Spec => []IInv
<1>1. Init => IInv BY InitInv
<1>2. IInv /\ [Next]_vars => IInv' BY NextInv
<1> QED BY <1>1, <1>2, PTL DEF Spec

-----------------------------------------------------------------------------
(* What it is for.                                                         *)

(* Every variable has its type: sequence numbers stay in their octet,      *)
(* repeats within their limit, and no record is built from the head of an  *)
(* empty queue.                                                            *)
THEOREM TypeCorrect == Spec => []TypeOK
<1>1. IInv => TypeOK BY DEF IInv
<1> QED BY <1>1, Invariant, PTL

(* Every frame offered is queued, acknowledged or counted as dropped, and  *)
(* only one of these (sendFrameToTunnel, loopHandleAck).                   *)
THEOREM NoFrameLostTrackOf == Spec => []FramesConserved
<1>1. IInv => FramesConserved
  BY DEF IInv, ConnInv, BaseInv, StampInv, FramesConserved
<1> QED BY <1>1, Invariant, PTL

(* An acknowledged request was accepted by its client: a late or repeated  *)
(* ack never stands for another request, not even once the octet wraps     *)
(* (loopHandleAck).                                                        *)
THEOREM AcksAreTrue == Spec => []AckedWasDelivered
<1>1. IInv => AckedWasDelivered
  BY DEF IInv, ConnInv, BaseInv, DeliveryInv, Del, DeliveredStamps,
         AckedWasDelivered
<1> QED BY <1>1, Invariant, PTL

(* A frame counted as dropped never reached its client                     *)
(* (dropQueuedGroupTelegram).                                              *)
THEOREM DropsAreTrue == Spec => []DroppedWasNeverDelivered
<1>1. ASSUME IInv, NEW c \in Conns
      PROVE  tun[c].StatDrops \intersect DeliveredStamps(c) = {}
  <2> DEFINE t == tun[c]
             d == delivered[c]
  <2>1. t \in Tunnel /\ BaseInv(c, t, d, net) /\ (t.TxQueue # {} <=> t.TxOnWire)
    BY <1>1 DEF IInv, TypeOK, ConnInv
  <2>2. DeliveredStamps(c) = Del(d)
    BY DEF DeliveredStamps, Del
  <2> HIDE DEF t, d
  <2>3. CASE t.open
    <3>1. Del(d) \subseteq t.StatAcks
            \union (IF t.TxOnWire THEN {WireHead(t).n} ELSE {})
      BY <2>1, <2>3 DEF BaseInv, DeliveryInv
    <3>2. t.TxOnWire => WireHead(t).n \in Stamps(t.TxQueue)
      BY <2>1, OldestInQueue DEF WireHead, Stamps, Tunnel
    <3>3. Conserved(t)
      BY <2>1 DEF BaseInv, StampInv
    <3>4. t.StatDrops \intersect Del(d) = {}
      BY <3>1, <3>2, <3>3 DEF Conserved
    <3> QED BY <2>2, <3>4 DEF t
  <2>4. CASE ~t.open
    <3>1. t.StatDrops = {}
      BY <2>1, <2>4 DEF BaseInv, ClosedInv, FreeTunnel
    <3> QED BY <3>1 DEF t
  <2> QED BY <2>3, <2>4
<1>2. IInv => DroppedWasNeverDelivered
  BY <1>1 DEF DroppedWasNeverDelivered
<1> QED BY <1>2, Invariant, PTL

(* A client gets its frames in the order they were offered, none twice:    *)
(* eviction, repeats and late datagrams included.                          *)
THEOREM InOrder == Spec => []DeliveredInOrder
<1>1. IInv => DeliveredInOrder
  BY DEF IInv, ConnInv, BaseInv, Ordered, DeliveredInOrder
<1> QED BY <1>1, Invariant, PTL

(* No queue stands still: whatever empties the wire starts the next        *)
(* request in the same step (sendTunnelHead).                              *)
THEOREM QueuesMove == Spec => []NoStalledQueue
<1>1. IInv => NoStalledQueue
  BY DEF IInv, ConnInv, NoStalledQueue
<1> QED BY <1>1, Invariant, PTL

(* What sendTunnelHead leaves alone.                                       *)
LEMMA HeadSent ==
  \A t : t \in Tunnel => /\ SendTunnelHead(t).TxQueue = t.TxQueue
                         /\ SendTunnelHead(t).StatAcks = t.StatAcks
BY DEF SendTunnelHead, StartRequest, Tunnel

(* A confirmation or an answer is never given up for lack of room: on an   *)
(* open channel it leaves the queue by its ack alone.                      *)
THEOREM EssentialKept == Spec => EssentialFramesKept
<1> DEFINE Kept(c) == tun[c].open /\ tun'[c].open =>
             \A f \in tun[c].TxQueue \ tun'[c].TxQueue :
               f.drop \/ f.n \in tun'[c].StatAcks
<1>1. ASSUME IInv, [Next]_vars, NEW c \in Conns PROVE Kept(c)
  <2>1. /\ tun \in [Conns -> Tunnel] /\ tun[c] \in Tunnel
        /\ ConnInv(c, tun[c], delivered[c], net)
    BY <1>1 DEF IInv, TypeOK
  <2>2. CASE tun'[c] = tun[c]
    BY <2>2
  <2>3. ASSUME NEW x \in Conns, NEW config \in BOOLEAN, Connect(x, config)
        PROVE  Kept(c)
    BY <2>1, <2>3 DEF Connect
  <2>4. ASSUME NEW x \in Conns, NEW len \in Lengths, NEW drop \in BOOLEAN,
               FrameQueued(x, len, drop)
        PROVE  Kept(c)
    <3>1. CASE x = c
      <4> DEFINE t == tun[c]
                 gone == GivenUp(t, len)
                 new == [n |-> t.offered + 1, len |-> len, drop |-> drop]
                 t1 == WithFrame(t, gone, new)
      <4>1. tun'[c] = SendTunnelHead(t1) /\ t.offered < MaxOffered /\ t.open
        BY <2>1, <2>4, <3>1 DEF FrameQueued, WithFrame
      <4>2. gone \in SUBSET Droppable(t)
        BY GivenUpIsDroppable
      <4>3. new \in Frame /\ new.n = t.offered + 1
        BY <2>1, <2>4, <4>1, BoundAssumption DEF Frame, Stamp, Tunnel
      <4> HIDE DEF t, gone, new
      <4>4. t1 \in Tunnel
        BY <2>1, <4>1, <4>2, <4>3, FrameIsQueued DEF t
      <4>5. t1.TxQueue = (t.TxQueue \ gone) \union {new}
        BY <2>1 DEF WithFrame, Tunnel, t
      <4> HIDE DEF t1
      <4>6. tun'[c].TxQueue = (t.TxQueue \ gone) \union {new}
        BY <4>1, <4>4, <4>5, HeadSent
      <4> QED BY <4>2, <4>6 DEF Droppable, t
    <3>2. CASE x # c
      BY <2>1, <2>4, <3>2 DEF FrameQueued
    <3> QED BY <3>1, <3>2
  <2>5. ASSUME NEW x \in Conns, NEW len \in Lengths, FrameLost(x, len)
        PROVE  Kept(c)
    <3>1. CASE x = c
      <4>1. tun'[c].TxQueue = tun[c].TxQueue \ GivenUp(tun[c], len)
        BY <2>1, <2>5, <3>1 DEF FrameLost, Tunnel
      <4>2. GivenUp(tun[c], len) \subseteq Droppable(tun[c])
        BY GivenUpIsDroppable
      <4> QED BY <4>1, <4>2 DEF Droppable
    <3>2. CASE x # c
      BY <2>1, <2>5, <3>2 DEF FrameLost
    <3> QED BY <3>1, <3>2
  <2>6. ASSUME NEW x \in Conns, ResendOrCloseTunnel(x)
        PROVE  Kept(c)
    <3>1. CASE tun' = [tun EXCEPT ![x].TxRepeats = @ + 1]
      BY <2>1, <2>6, <3>1 DEF Tunnel
    <3>2. CASE Reset(x)
      BY <2>1, <2>6, <3>2 DEF Reset, FreeTunnel
    <3> QED BY <2>6, <3>1, <3>2 DEF ResendOrCloseTunnel
  <2>7. ASSUME NEW x \in Conns, CloseTunnel(x)
        PROVE  Kept(c)
    BY <2>1, <2>7 DEF CloseTunnel, Reset, FreeTunnel
  <2>8. ASSUME NEW m \in net, AckReceived(m)
        PROVE  Kept(c)
    <3>1. CASE m.conn = c
      <4> DEFINE t == tun[c]
                 t1 == Acknowledged(t)
      <4>1. m \in Ack /\ m.ok /\ t.open /\ t.TxOnWire /\ m.seq = t.TxSeq
            /\ tun'[c] = SendTunnelHead(t1)
        BY <2>1, <2>8, <3>1 DEF AckReceived, Stale
      <4>2. Len(delivered[c]) = t.sent /\ WireHead(t).n \in Del(delivered[c])
        BY <2>1, <3>1, <4>1, AckIsForHead
      <4> HIDE DEF t
      <4>3. t1 \in Tunnel
        BY <2>1, <4>1, <4>2, RequestIsAcknowledged DEF t
      <4>4. /\ t1.TxQueue = t.TxQueue \ {Oldest(t.TxQueue)}
            /\ t1.StatAcks = t.StatAcks \union {Oldest(t.TxQueue).n}
        BY <2>1 DEF Acknowledged, Tunnel, t
      <4> HIDE DEF t1
      <4>5. /\ tun'[c].TxQueue = t.TxQueue \ {Oldest(t.TxQueue)}
            /\ tun'[c].StatAcks = t.StatAcks \union {Oldest(t.TxQueue).n}
        BY <4>1, <4>3, <4>4, HeadSent
      <4> QED BY <4>5 DEF t
    <3>2. CASE m.conn # c
      BY <2>1, <2>8, <3>2 DEF AckReceived
    <3> QED BY <3>1, <3>2
  <2>9. ASSUME NEW m \in net, \/ ClientAccepts(m) \/ ClientAcksRepeat(m)
                              \/ ClientRefuses(m) \/ Vanish(m)
        PROVE  Kept(c)
    BY <2>9 DEF ClientAccepts, ClientAcksRepeat, ClientRefuses, Vanish
  <2>10. ASSUME NEW m \in net, NegativeAckReceived(m) PROVE Kept(c)
    <3>1. m.conn \in Conns /\ ResendOrCloseTunnel(m.conn)
      BY <2>10 DEF NegativeAckReceived, Ack
    <3> QED BY <3>1, <2>6
  <2>11. CASE UNCHANGED vars
    BY <2>11 DEF vars
  <2> HIDE DEF Kept
  <2> QED BY <1>1, <2>3, <2>4, <2>5, <2>6, <2>7, <2>8, <2>9, <2>10, <2>11
          DEF Next, AckTimeout
<1>2. IInv /\ [Next]_vars => [\A c \in Conns : Kept(c)]_vars
  BY <1>1
<1> QED BY <1>2, Invariant, PTL DEF Spec, EssentialFramesKept

-----------------------------------------------------------------------------
(* The refinement.                                                         *)

(* Requests on their way, of an open channel or of a closed one: the frame *)
(* of one the client has passed is known to it, and those it waits for all *)
(* carry the same frame.                                                   *)
CarryInv(c, d, S) ==
  \A m \in S : m.conn = c /\ m.type = "request" =>
    /\ m.k <= Len(d) => m.frame.n \in Del(d)
    /\ m.k = Len(d) + 1 =>
         \A r \in S : r.conn = c /\ r.type = "request" /\ r.k = Len(d) + 1
                        => r.frame = m.frame

RInv == IInv /\ \A c \in Conns : CarryInv(c, delivered[c], net)

(* A step sends at most the request that is on the wire after it.          *)
OnlyHeadSent ==
  \A m \in net' : m.type = "request" =>
    \/ m \in net
    \/ /\ m.conn \in Conns
       /\ tun'[m.conn].open /\ tun'[m.conn].TxOnWire
       /\ m = RequestOnWire(m.conn, tun'[m.conn])

LEMMA SentIsHead ==
  ASSUME IInv, IInv', Next
  PROVE  OnlyHeadSent
<1>0. TypeOK /\ TypeOK' BY DEF IInv
<1>1. ASSUME NEW c \in Conns, NEW t, tun'[c] = t,
             \A m \in net' : m \in net \/ m = RequestOnWire(c, t),
             (\E m \in net' : m \notin net) => t.open /\ t.TxOnWire
      PROVE  OnlyHeadSent
  BY <1>1 DEF OnlyHeadSent, RequestOnWire
<1>2. ASSUME \A m \in net' : m \in net \/ m.type = "ack" PROVE OnlyHeadSent
  BY <1>2 DEF OnlyHeadSent
<1>3. ASSUME NEW c \in Conns, NEW config \in BOOLEAN, Connect(c, config)
      PROVE  OnlyHeadSent
  BY <1>2, <1>3 DEF Connect
<1>4. ASSUME NEW c \in Conns, NEW len \in Lengths, NEW drop \in BOOLEAN,
             FrameQueued(c, len, drop)
      PROVE  OnlyHeadSent
  <2> DEFINE t1 == WithFrame(tun[c], GivenUp(tun[c], len),
                     [n |-> tun[c].offered + 1, len |-> len, drop |-> drop])
             t2 == SendTunnelHead(t1)
  <2>1. /\ tun[c].open /\ tun' = [tun EXCEPT ![c] = t2]
        /\ net' = IF tun[c].TxOnWire THEN net ELSE WithRequest(c, t2)
    BY <1>4 DEF FrameQueued, WithFrame
  <2>2. tun'[c] = t2
    BY <1>0, <2>1 DEF TypeOK
  <2>3. tun[c] \in Tunnel BY <1>0 DEF TypeOK
  <2>4. /\ t1.open = tun[c].open /\ t1.TxOnWire = tun[c].TxOnWire
        /\ t1.TxQueue # {}
    BY ZenonT(40), <2>3 DEF WithFrame, Tunnel
  <2> HIDE DEF t1
  <2>5. CASE tun[c].TxOnWire
    BY <2>1, <2>5, <1>2
  <2>6. CASE ~tun[c].TxOnWire
    <3>1. t2 = StartRequest(t1)
      BY <2>4, <2>6 DEF SendTunnelHead
    <3>2. DOMAIN t1 = DOMAIN tun[c] BY DEF WithFrame, t1
    <3>3. t2.open /\ t2.TxOnWire
      BY <2>1, <2>4, <2>3, <3>1, <3>2 DEF StartRequest, Tunnel
    <3> HIDE DEF t2
    <3>4. \A m \in net' : m \in net \/ m = RequestOnWire(c, t2)
      BY <2>1, <2>6 DEF WithRequest
    <3> QED BY <1>1, <2>2, <3>3, <3>4
  <2> QED BY <2>5, <2>6
<1>5. ASSUME NEW c \in Conns, ResendOrCloseTunnel(c), tun[c].open, tun[c].TxOnWire
      PROVE  OnlyHeadSent
  <2>1. CASE net' = net
    BY <2>1, <1>2
  <2>2. CASE tun' = [tun EXCEPT ![c].TxRepeats = @ + 1] /\ net' = WithRequest(c, tun[c])
    <3>1. /\ tun'[c].open /\ tun'[c].TxOnWire
          /\ RequestOnWire(c, tun'[c]) = RequestOnWire(c, tun[c])
      BY <1>0, <1>5, <2>2 DEF TypeOK, Tunnel, RequestOnWire
    <3>2. \A m \in net' : m \in net \/ m = RequestOnWire(c, tun'[c])
      BY <2>2, <3>1 DEF WithRequest
    <3> QED BY <1>1, <3>1, <3>2
  <2> QED BY <2>1, <2>2, <1>5 DEF ResendOrCloseTunnel
<1>6. ASSUME NEW m \in net, AckReceived(m) PROVE OnlyHeadSent
  <2> DEFINE c == m.conn
             t2 == SendTunnelHead(Acknowledged(tun[c]))
  <2>1. /\ c \in Conns /\ tun[c].open
        /\ tun' = [tun EXCEPT ![c] = t2]
        /\ net' = IF t2.TxOnWire THEN WithRequest(c, t2) ELSE net
    BY <1>6 DEF AckReceived, Ack
  <2>2. tun'[c] = t2
    BY <1>0, <2>1 DEF TypeOK
  <2>3. tun[c] \in Tunnel BY <1>0, <2>1 DEF TypeOK
  <2>4. t2.open
    BY <2>1, <2>3 DEF SendTunnelHead, Acknowledged, StartRequest, Tunnel
  <2> HIDE DEF t2
  <2>5. \A q \in net' : q \in net \/ q = RequestOnWire(c, t2)
    BY <2>1 DEF WithRequest
  <2> QED BY <1>1, <2>1, <2>2, <2>4, <2>5
<1>7. ASSUME NEW m \in net, \/ ClientAccepts(m) \/ ClientAcksRepeat(m)
                            \/ ClientRefuses(m) \/ Vanish(m)
      PROVE  OnlyHeadSent
  BY <1>2, <1>7 DEF ClientAccepts, ClientAcksRepeat, ClientRefuses, Vanish, AckFor
<1>8. ASSUME NEW m \in net, NegativeAckReceived(m) PROVE OnlyHeadSent
  BY <1>5, <1>8 DEF NegativeAckReceived, Ack, Stale
<1>9. ASSUME NEW c \in Conns, CloseTunnel(c) PROVE OnlyHeadSent
  BY <1>2, <1>9 DEF CloseTunnel
<1>10. ASSUME NEW c \in Conns, NEW len \in Lengths, FrameLost(c, len)
       PROVE  OnlyHeadSent
  BY <1>2, <1>10 DEF FrameLost
<1>11. ASSUME NEW c \in Conns, AckTimeout(c) PROVE OnlyHeadSent
  BY <1>5, <1>11 DEF AckTimeout
<1> QED BY <1>3, <1>4, <1>6, <1>7, <1>8, <1>9, <1>10, <1>11 DEF Next

(* A client that has accepted nothing new.                                 *)
LEMMA RequestsCarry ==
  ASSUME NEW c, NEW t \in Tunnel, NEW d \in Seq(Frame), NEW S,
         NEW S2 \in SUBSET (Request \union Ack),
         CarryInv(c, d, S), ConnInv(c, t, d, S2),
         \A m \in S2 : m.conn = c /\ m.type = "request" =>
           m \in S \/ (t.open /\ t.TxOnWire /\ m = RequestOnWire(c, t))
  PROVE  CarryInv(c, d, S2)
<1>0. BaseInv(c, t, d, S2) BY DEF ConnInv
<1>1. ASSUME t.open, NEW m \in S2, m.conn = c, m.type = "request", m.k = Len(d) + 1
      PROVE  m.frame = WireHead(t)
  BY <1>0, <1>1 DEF BaseInv, OpenInv
<1>2. ASSUME NEW m \in S2, m.conn = c, m.type = "request", m.k <= Len(d)
      PROVE  m.frame.n \in Del(d)
  <2>1. CASE m \in S
    BY <1>2, <2>1 DEF CarryInv
  <2>2. CASE t.open /\ t.TxOnWire /\ m = RequestOnWire(c, t)
    <3>1. m.k = t.sent /\ m.frame = WireHead(t)
      BY <2>2 DEF RequestOnWire, WireHead
    <3>2. Len(d) = t.sent
      <4>1. Len(d) \in {t.sent - 1, t.sent}
        BY <1>0, <2>2 DEF BaseInv, DeliveryInv
      <4>2. t.sent \in Nat BY DEF Tunnel
      <4>3. t.sent <= Len(d) BY <1>2, <3>1
      <4> QED BY <4>1, <4>2, <4>3
    <3> QED BY <1>0, <2>2, <3>1, <3>2 DEF BaseInv, DeliveryInv
  <2> QED BY <1>2, <2>1, <2>2
<1>3. ASSUME NEW m \in S2, m.conn = c, m.type = "request", m.k = Len(d) + 1,
             NEW r \in S2, r.conn = c, r.type = "request", r.k = Len(d) + 1
      PROVE  r.frame = m.frame
  <2>1. CASE t.open
    BY <1>1, <1>3, <2>1
  <2>2. CASE ~t.open
    <3>1. m \in S /\ r \in S BY <1>3, <2>2
    <3> QED BY <1>3, <3>1 DEF CarryInv
  <2> QED BY <2>1, <2>2
<1> QED BY <1>2, <1>3 DEF CarryInv

(* A client that has: the frame is the one every request it waited for     *)
(* carries.                                                                *)
LEMMA AcceptedCarry ==
  ASSUME NEW c \in Conns, NEW d \in Seq(Frame), NEW S,
         NEW t, ConnInv(c, t, d, S), S \subseteq Request \union Ack,
         CarryInv(c, d, S),
         NEW m \in S, m.conn = c, m \in Request, m.k = Len(d) + 1,
         NEW S2, \A q \in S2 : q \in S \/ q.type = "ack"
  PROVE  CarryInv(c, Append(d, m.frame), S2)
<1> DEFINE d2 == Append(d, m.frame)
<1>1. m.frame \in Frame /\ m.type = "request"
  BY DEF Request
<1>2. Len(d) \in Nat /\ Len(d2) = Len(d) + 1
  BY <1>1
<1>3. Del(d2) = Del(d) \union {m.frame.n}
  <2>1. DOMAIN d2 = 1 .. Len(d) + 1 /\ DOMAIN d = 1 .. Len(d)
    BY <1>1
  <2>2. \A i \in 1 .. Len(d) : d2[i] = d[i]
    BY <1>1
  <2>3. d2[Len(d) + 1] = m.frame
    BY <1>1
  <2>4. 1 .. Len(d) + 1 = (1 .. Len(d)) \union {Len(d) + 1}
    BY <1>2
  <2> HIDE DEF d2
  <2> QED BY <2>1, <2>2, <2>3, <2>4 DEF Del
<1> HIDE DEF d2
<1>4. ASSUME NEW q \in S2, q.conn = c, q.type = "request"
      PROVE  /\ q.k <= Len(d2) => q.frame.n \in Del(d2)
             /\ q.k # Len(d2) + 1
  <2>1. q \in S
    BY <1>4
  <2>2. q.k \in Nat /\ q.k <= Len(d) + 1
    BY <1>4, <2>1 DEF ConnInv, BaseInv, RequestInv, Request, Ack
  <2>3. CASE q.k <= Len(d)
    BY <1>2, <1>3, <1>4, <2>1, <2>2, <2>3 DEF CarryInv
  <2>4. CASE q.k = Len(d) + 1
    <3>1. q.frame = m.frame
      BY <1>1, <1>4, <2>1, <2>4 DEF CarryInv
    <3> QED BY <1>2, <1>3, <2>4, <3>1
  <2> QED BY <1>2, <2>2, <2>3, <2>4
<1> QED BY <1>4 DEF CarryInv, d2

LEMMA CarryNext == RInv /\ [Next]_vars => RInv'
<1> SUFFICES ASSUME RInv, [Next]_vars PROVE RInv'
  OBVIOUS
<1>1. IInv /\ IInv' /\ TypeOK /\ TypeOK'
  BY NextInv DEF RInv, IInv
<1>2. ASSUME NEW c \in Conns PROVE CarryInv(c, delivered'[c], net')
  <2> DEFINE d == delivered[c]
  <2>1. /\ d \in Seq(Frame) /\ CarryInv(c, d, net) /\ ConnInv(c, tun[c], d, net)
        /\ tun'[c] \in Tunnel /\ net' \in SUBSET (Request \union Ack)
        /\ ConnInv(c, tun'[c], delivered'[c], net')
        /\ net \subseteq Request \union Ack
    BY <1>1, <1>2 DEF RInv, IInv, TypeOK
  <2>2. ASSUME delivered'[c] = d, OnlyHeadSent PROVE CarryInv(c, delivered'[c], net')
    <3>1. \A m \in net' : m.conn = c /\ m.type = "request" =>
            m \in net \/ (tun'[c].open /\ tun'[c].TxOnWire
                            /\ m = RequestOnWire(c, tun'[c]))
      BY <2>2 DEF OnlyHeadSent
    <3>2. ConnInv(c, tun'[c], d, net')
      BY <2>1, <2>2
    <3> HIDE DEF d
    <3>3. CarryInv(c, d, net')
      BY <2>1, <3>1, <3>2, RequestsCarry
    <3> QED BY <2>2, <3>3
  <2>3. CASE UNCHANGED vars
    BY <2>1, <2>3 DEF vars
  <2>4. CASE \E config \in BOOLEAN : Connect(c, config)
    BY <2>4 DEF Connect, CarryInv
  <2>5. CASE \E m \in net : ClientAccepts(m) /\ m.conn = c
    <3>1. PICK m \in net : ClientAccepts(m) /\ m.conn = c BY <2>5
    <3>2. /\ m \in Request /\ m.seq = Len(d) % SeqMod
          /\ delivered'[c] = Append(d, m.frame)
          /\ net' = net \union {AckFor(m, TRUE)}
      BY <1>1, <3>1 DEF ClientAccepts, Accepted, TypeOK
    <3>3. m.k = Len(d) + 1
      BY <2>1, <3>1, <3>2, ExpectedIsNext
    <3>4. \A q \in net' : q \in net \/ q.type = "ack"
      BY <3>2 DEF AckFor
    <3> HIDE DEF d
    <3>5. CarryInv(c, Append(d, m.frame), net')
      BY ZenonT(40), <2>1, <3>1, <3>2, <3>3, <3>4, AcceptedCarry
    <3> QED BY <3>2, <3>5
  <2>6. ASSUME Next, ~\E config \in BOOLEAN : Connect(c, config),
               ~\E m \in net : ClientAccepts(m) /\ m.conn = c
        PROVE  delivered'[c] = d
    <3>1. ASSUME NEW x \in Conns, NEW config \in BOOLEAN, Connect(x, config)
          PROVE  delivered'[c] = d
      BY <1>1, <2>6, <3>1 DEF Connect, TypeOK
    <3>2. ASSUME NEW m \in net, ClientAccepts(m)
          PROVE  delivered'[c] = d
      BY <1>1, <2>6, <3>2 DEF ClientAccepts, TypeOK
    <3> QED BY <2>6, <3>1, <3>2
            DEF Next, FrameQueued, FrameLost, AckTimeout, CloseTunnel, AckReceived,
                NegativeAckReceived, ClientAcksRepeat, ClientRefuses, Vanish
  <2> QED BY <1>1, <2>2, <2>3, <2>4, <2>5, <2>6, SentIsHead
<1> QED BY <1>1, <1>2 DEF RInv

(* What is pending for a client.                                           *)
RequestsOf(c, S) == {m \in S : m.type = "request" /\ m.conn = c}
Pend(c, t, d, S) ==
  {f \in IF t.open THEN t.TxQueue ELSE {m.frame : m \in RequestsOf(c, S)} :
     f.n \notin Del(d)}

LEMMA PendingIs ==
  /\ TypeOK => \A c \in Conns : Pending(c) = Pend(c, tun[c], delivered[c], net)
  /\ TypeOK' => \A c \in Conns :
       Pending(c)' = Pend(c, tun'[c], delivered'[c], net')
<1>1. ASSUME NEW S \in SUBSET (Request \union Ack), NEW c \in Conns
      PROVE  {r \in S \intersect Request : r.conn = c} = RequestsOf(c, S)
  BY <1>1 DEF RequestsOf, Request, Ack
<1>2. ASSUME TypeOK, NEW c \in Conns
      PROVE  Pending(c) = Pend(c, tun[c], delivered[c], net)
  <2>1. {r \in net \intersect Request : r.conn = c} = RequestsOf(c, net)
    BY <1>1, <1>2 DEF TypeOK
  <2> QED BY <2>1 DEF Pending, Pend, DeliveredStamps, Del
<1>3. ASSUME TypeOK', NEW c \in Conns
      PROVE  Pending(c)' = Pend(c, tun'[c], delivered'[c], net')
  <2>1. {r \in net' \intersect Request : r.conn = c} = RequestsOf(c, net')
    BY <1>1, <1>3 DEF TypeOK
  <2> QED BY <2>1 DEF Pending, Pend, DeliveredStamps, Del
<1> QED BY <1>2, <1>3

(* How a step of the detailed specification is recognised as one of the    *)
(* contract: `Rest` says that the other channels look the same.            *)
Rest(c) ==
  \A x \in Conns \ {c} :
    tun'[x].open = tun[x].open /\ Pending(x)' = Pending(x)

LEMMA IsStutter ==
  ASSUME NEW c \in Conns, Rest(c), tun'[c].open = tun[c].open,
         Pending(c)' = Pending(c), delivered' = delivered
  PROVE  UNCHANGED Contract!vars
<1>1. \A x \in Conns : tun'[x].open = tun[x].open /\ Pending(x)' = Pending(x)
  BY DEF Rest
<1> QED BY <1>1 DEF Contract!vars

LEMMA IsOpen ==
  ASSUME NEW c \in Conns, Rest(c), ~tun[c].open, tun'[c].open = TRUE,
         Pending(c)' = {}, delivered' = [delivered EXCEPT ![c] = <<>>]
  PROVE  Contract!Open(c)
BY DEF Rest, Contract!Open

LEMMA IsOffer ==
  ASSUME NEW c \in Conns, Rest(c), tun[c].open, tun'[c].open = tun[c].open,
         delivered' = delivered,
         NEW gone \in SUBSET {f \in Pending(c) : f.drop},
         \/ Pending(c)' = Pending(c) \ gone
         \/ \E f \in Frame :
              /\ \A g \in Pending(c) : g.n < f.n
              /\ \A i \in DOMAIN delivered[c] : delivered[c][i].n < f.n
              /\ Pending(c)' = (Pending(c) \ gone) \union {f}
  PROVE  Contract!Offer(c)
<1>1. Contract!Frame = Frame
  BY DEF Contract!Frame, Frame, Stamp
<1> DEFINE P == [x \in Conns |-> Pending(x)]
<1>2. [x \in Conns |-> tun[x].open][c] /\ UNCHANGED [x \in Conns |-> tun[x].open]
  BY DEF Rest
<1>3. P[c] = Pending(c)
  OBVIOUS
<1>4. ASSUME NEW Q, Pending(c)' = Q PROVE P' = [P EXCEPT ![c] = Q]
  BY <1>4 DEF Rest
<1>5. CASE Pending(c)' = Pending(c) \ gone
  <2>1. P' = [P EXCEPT ![c] = P[c] \ gone]
    BY <1>3, <1>4, <1>5
  <2>2. gone \in SUBSET {f \in P[c] : f.drop}
    BY <1>3
  <2> HIDE DEF P
  <2> QED BY <1>2, <2>1, <2>2 DEF P, Contract!Offer
<1>6. CASE \E f \in Frame :
             /\ \A g \in Pending(c) : g.n < f.n
             /\ \A i \in DOMAIN delivered[c] : delivered[c][i].n < f.n
             /\ Pending(c)' = (Pending(c) \ gone) \union {f}
  <2>1. PICK f \in Frame :
             /\ \A g \in Pending(c) : g.n < f.n
             /\ \A i \in DOMAIN delivered[c] : delivered[c][i].n < f.n
             /\ Pending(c)' = (Pending(c) \ gone) \union {f}
    BY <1>6
  <2>2. P' = [P EXCEPT ![c] = (P[c] \ gone) \union {f}]
    BY <1>3, <1>4, <2>1
  <2>3. gone \in SUBSET {g \in P[c] : g.drop} /\ f \in Contract!Frame
    BY <1>1, <1>3
  <2>4. Contract!Newest(c, f)
    BY <1>3, <2>1 DEF Contract!Newest
  <2> HIDE DEF P
  <2> QED BY <1>2, <2>2, <2>3, <2>4 DEF P, Contract!Offer
<1> QED BY <1>5, <1>6

LEMMA IsDeliver ==
  ASSUME NEW c \in Conns, Rest(c), tun'[c].open = tun[c].open,
         NEW f \in Pending(c), \A g \in Pending(c) : f.n <= g.n,
         delivered' = [delivered EXCEPT ![c] = Append(@, f)],
         Pending(c)' = Pending(c) \ {f}
  PROVE  Contract!Deliver(c)
<1> DEFINE P == [x \in Conns |-> Pending(x)]
<1>1. UNCHANGED [x \in Conns |-> tun[x].open]
  BY DEF Rest
<1>2. P[c] = Pending(c)
  OBVIOUS
<1>3. P' = [P EXCEPT ![c] = P[c] \ {f}]
  BY <1>2 DEF Rest
<1> HIDE DEF P
<1>4. /\ f \in P[c] /\ \A g \in P[c] : f.n <= g.n
      /\ delivered' = [delivered EXCEPT ![c] = Append(@, f)]
      /\ P' = [P EXCEPT ![c] = P[c] \ {f}]
  BY <1>2, <1>3
<1> QED BY <1>1, <1>4 DEF P, Contract!Deliver

LEMMA IsClose ==
  ASSUME NEW c \in Conns, Rest(c), tun[c].open, tun'[c].open = FALSE,
         Pending(c)' \subseteq Pending(c), delivered' = delivered
  PROVE  Contract!Close(c)
BY DEF Rest, Contract!Close

LEMMA IsExpire ==
  ASSUME NEW c \in Conns, Rest(c), ~tun[c].open, tun'[c].open = tun[c].open,
         Pending(c)' \subseteq Pending(c), delivered' = delivered
  PROVE  Contract!Expire(c)
<1>1. \A x \in Conns : tun'[x].open = tun[x].open
  BY DEF Rest
<1> QED BY <1>1 DEF Rest, Contract!Expire

(* The frame conditions of the lemmas above.                               *)
LEMMA OthersRest ==
  ASSUME TypeOK, TypeOK', NEW c \in Conns,
         \A x \in Conns \ {c} : tun'[x] = tun[x] /\ delivered'[x] = delivered[x],
         \A m \in net : m.conn = c \/ m.type = "ack" \/ m \in net',
         \A m \in net' : m.conn = c \/ m.type = "ack" \/ m \in net
  PROVE  Rest(c)
<1>1. \A x \in Conns \ {c} : RequestsOf(x, net') = RequestsOf(x, net)
  BY DEF RequestsOf
<1> QED BY <1>1, PendingIs DEF Rest, Pend

LEMMA OpenKept ==
  ASSUME TypeOK, TypeOK', NEW c \in Conns, tun[c].open, tun'[c].open,
         delivered'[c] = delivered[c]
  PROVE  /\ Pending(c) = {f \in tun[c].TxQueue : f.n \notin Del(delivered[c])}
         /\ Pending(c)' = {f \in tun'[c].TxQueue : f.n \notin Del(delivered[c])}
BY PendingIs DEF Pend

(* What is on its way to a client when its channel closes was pending.     *)
LEMMA ClosedPending ==
  ASSUME RInv, NEW c \in Conns, NEW m \in net, m.conn = c, m.type = "request",
         m.frame.n \notin Del(delivered[c]), tun[c].open
  PROVE  m.frame \in tun[c].TxQueue
<1> DEFINE d == delivered[c]
           t == tun[c]
<1>1. /\ d \in Seq(Frame) /\ CarryInv(c, d, net) /\ BaseInv(c, t, d, net)
      /\ t.TxQueue # {} <=> t.TxOnWire
      /\ t.TxQueue \in SUBSET Frame /\ m \in Request \union Ack
  BY DEF RInv, IInv, ConnInv, TypeOK, Tunnel
<1>2. m.k \in Nat /\ m.k <= Len(d) + 1 /\ ~(m.k <= Len(d)) /\ Len(d) \in Nat
  BY <1>1 DEF CarryInv, BaseInv, RequestInv, Request, Ack
<1>3. m.k = Len(d) + 1
  BY <1>2
<1>4. t.TxOnWire /\ m.frame = WireHead(t)
  BY <1>1, <1>3 DEF BaseInv, OpenInv
<1> QED BY <1>1, <1>4, OldestInQueue DEF WireHead

-----------------------------------------------------------------------------
(* The steps.                                                              *)

Simulated == Contract!Next \/ UNCHANGED Contract!vars

LEMMA StutterSimulates ==
  ASSUME TypeOK, TypeOK', NEW c \in Conns, Rest(c), tun[c].open, tun'[c].open,
         delivered' = delivered,
         {f \in tun'[c].TxQueue : f.n \notin Del(delivered[c])}
           = {f \in tun[c].TxQueue : f.n \notin Del(delivered[c])}
  PROVE  Simulated
<1>1. tun[c].open \in BOOLEAN /\ tun'[c].open \in BOOLEAN
  BY DEF TypeOK, Tunnel
<1>2. tun'[c].open = tun[c].open
  BY <1>1
<1>3. Pending(c)' = Pending(c)
  BY OpenKept
<1> QED BY <1>2, <1>3, IsStutter DEF Simulated

LEMMA ConnectSimulates ==
  ASSUME RInv, RInv', NEW c \in Conns, NEW config \in BOOLEAN, Connect(c, config)
  PROVE  Simulated
<1>1. TypeOK /\ TypeOK' BY DEF RInv, IInv
<1>2. tun'[c].open = TRUE /\ tun'[c].TxQueue = {} /\ ~tun[c].open
  BY <1>1 DEF Connect, FreeTunnel, TypeOK
<1>3. Rest(c)
  BY <1>1, OthersRest DEF Connect, TypeOK
<1>4. Pending(c)' = {}
  BY <1>1, <1>2, PendingIs DEF Pend
<1>5. delivered' = [delivered EXCEPT ![c] = <<>>]
  BY DEF Connect
<1> QED BY <1>2, <1>3, <1>4, <1>5, IsOpen DEF Simulated, Contract!Next

LEMMA FrameQueuedSimulates ==
  ASSUME RInv, RInv', NEW c \in Conns, NEW len \in Lengths, NEW drop \in BOOLEAN,
         FrameQueued(c, len, drop)
  PROVE  Simulated
<1> DEFINE t == tun[c]
           d == delivered[c]
           gone == GivenUp(t, len)
           new == [n |-> t.offered + 1, len |-> len, drop |-> drop]
           t1 == WithFrame(t, gone, new)
           t2 == SendTunnelHead(t1)
<1>1. /\ TypeOK /\ TypeOK' /\ t \in Tunnel /\ d \in Seq(Frame)
      /\ BaseInv(c, t, d, net) /\ ConnInv(c, t, d, net)
  BY DEF RInv, IInv, TypeOK, ConnInv
<1>2. /\ t.open /\ t.offered < MaxOffered
      /\ tun' = [tun EXCEPT ![c] = t2]
      /\ net' = IF t.TxOnWire THEN net ELSE WithRequest(c, t2)
      /\ delivered' = delivered
  BY DEF FrameQueued, WithFrame
<1>3. gone \in SUBSET Droppable(t) /\ gone \subseteq t.TxQueue
      /\ \A f \in gone : f.drop
  BY GivenUpIsDroppable DEF Droppable
<1>4. new \in Frame /\ new.n = t.offered + 1 /\ t.offered \in Nat
  BY <1>1, <1>2, BoundAssumption DEF Frame, Stamp, Tunnel
<1>5. tun'[c] = t2 /\ delivered'[c] = d
      /\ \A x \in Conns \ {c} : tun'[x] = tun[x] /\ delivered'[x] = delivered[x]
  BY <1>1, <1>2 DEF TypeOK
<1>6. Rest(c)
  BY <1>1, <1>2, <1>5, OthersRest DEF WithRequest, RequestOnWire
<1> HIDE DEF t, d, gone, new
<1>7. t1 \in Tunnel /\ t1.open
  BY <1>1, <1>2, <1>3, <1>4, FrameIsQueued
<1>8. t1.TxQueue = (t.TxQueue \ gone) \union {new}
  BY <1>1 DEF WithFrame, Tunnel
<1> HIDE DEF t1
<1>9. t2.open /\ t2.TxQueue = (t.TxQueue \ gone) \union {new}
  BY <1>7, <1>8 DEF SendTunnelHead, StartRequest, Tunnel
<1> HIDE DEF t2
<1>10. \A f \in t.TxQueue : f.n < new.n
  <2>1. \A f \in t.TxQueue : f.n \in Nat /\ f.n <= t.offered
    BY <1>1, BoundAssumption DEF BaseInv, StampInv, Tunnel, Frame, Stamp
  <2> QED BY <2>1, <1>4
<1>11. \A i \in DOMAIN d : d[i].n < new.n
  <2>1. \A i \in DOMAIN d : d[i].n \in 1 .. t.offered
    BY <1>1, <1>2 DEF BaseInv, DeliveryInv, Del
  <2> QED BY <2>1, <1>4
<1>12. new.n \notin Del(d)
  <2>1. ~(new.n < new.n) BY <1>4
  <2> QED BY <2>1, <1>11 DEF Del
<1> DEFINE P == {f \in t.TxQueue : f.n \notin Del(d)}
<1>13. Pending(c) = P
       /\ Pending(c)' = {f \in t2.TxQueue : f.n \notin Del(d)}
  BY <1>1, <1>2, <1>5, <1>9, OpenKept DEF t, d
<1>14. Pending(c)' = (P \ (gone \intersect P)) \union {new}
  BY <1>9, <1>12, <1>13
<1>15. /\ gone \intersect P \in SUBSET {f \in P : f.drop}
       /\ \A g \in P : g.n < new.n
  BY <1>3, <1>10
<1> HIDE DEF P
<1>16. tun[c].open /\ tun'[c].open = tun[c].open
  <2>1. t2.open \in BOOLEAN /\ t.open \in BOOLEAN
    BY <1>1, <1>5 DEF TypeOK, Tunnel, t
  <2> QED BY <2>1, <1>2, <1>5, <1>9 DEF t
<1>17. Contract!Offer(c)
  <2>1. \A i \in DOMAIN delivered[c] : delivered[c][i].n < new.n
    BY <1>11 DEF d
  <2> QED BY <1>2, <1>4, <1>6, <1>13, <1>14, <1>15, <1>16, <2>1, IsOffer
<1> QED BY <1>17 DEF Simulated, Contract!Next

LEMMA FrameLostSimulates ==
  ASSUME RInv, RInv', NEW c \in Conns, NEW len \in Lengths, FrameLost(c, len)
  PROVE  Simulated
<1> DEFINE t == tun[c]
           d == delivered[c]
           gone == GivenUp(t, len)
           P == {f \in t.TxQueue : f.n \notin Del(d)}
<1>1. TypeOK /\ TypeOK' /\ t \in Tunnel
  BY DEF RInv, IInv, TypeOK
<1>2. /\ t.open /\ tun'[c].TxQueue = t.TxQueue \ gone /\ tun'[c].open = t.open
      /\ net' = net /\ delivered' = delivered
      /\ \A x \in Conns \ {c} : tun'[x] = tun[x] /\ delivered'[x] = delivered[x]
  BY <1>1 DEF FrameLost, TypeOK, Tunnel
<1>3. \A f \in gone : f.drop
  BY GivenUpIsDroppable DEF Droppable
<1>4. Rest(c)
  BY <1>1, <1>2, OthersRest
<1> HIDE DEF gone
<1>5. Pending(c) = P /\ Pending(c)' = P \ (gone \intersect P)
  BY <1>1, <1>2, OpenKept
<1>6. gone \intersect P \in SUBSET {f \in P : f.drop}
  BY <1>3
<1> HIDE DEF P
<1>7. Contract!Offer(c)
  BY <1>2, <1>4, <1>5, <1>6, IsOffer
<1> QED BY <1>7 DEF Simulated, Contract!Next

LEMMA ResetSimulates ==
  ASSUME RInv, RInv', NEW c \in Conns, tun[c].open, Reset(c),
         UNCHANGED <<net, delivered>>
  PROVE  Simulated
<1>1. TypeOK /\ TypeOK' BY DEF RInv, IInv
<1>2. /\ tun'[c] = FreeTunnel /\ tun'[c].open = FALSE
      /\ \A x \in Conns \ {c} : tun'[x] = tun[x] /\ delivered'[x] = delivered[x]
  BY <1>1 DEF Reset, TypeOK, FreeTunnel
<1>3. Rest(c)
  BY <1>1, <1>2, OthersRest
<1>4. Pending(c)' \subseteq Pending(c)
  <2>1. /\ Pending(c) = Pend(c, tun[c], delivered[c], net)
        /\ Pending(c)' = Pend(c, tun'[c], delivered[c], net)
    BY <1>1, PendingIs
  <2> QED BY <1>2, <2>1, ClosedPending DEF Pend, RequestsOf
<1> QED BY <1>2, <1>3, <1>4, IsClose DEF Simulated, Contract!Next

LEMMA ResendOrCloseSimulates ==
  ASSUME RInv, RInv', NEW c \in Conns, tun[c].open, ResendOrCloseTunnel(c),
         UNCHANGED delivered
  PROVE  Simulated
<1>1. TypeOK /\ TypeOK' BY DEF RInv, IInv
<1>2. CASE tun' = [tun EXCEPT ![c].TxRepeats = @ + 1] /\ net' = WithRequest(c, tun[c])
  <2>1. /\ tun'[c].open /\ tun'[c].TxQueue = tun[c].TxQueue
        /\ \A x \in Conns \ {c} : tun'[x] = tun[x] /\ delivered'[x] = delivered[x]
    BY <1>1, <1>2 DEF TypeOK, Tunnel
  <2>2. Rest(c)
    BY <1>1, <1>2, <2>1, OthersRest DEF WithRequest, RequestOnWire
  <2> QED BY <1>1, <2>1, <2>2, StutterSimulates
<1>3. CASE Reset(c) /\ net' = net
  BY <1>3, ResetSimulates
<1> QED BY <1>2, <1>3 DEF ResendOrCloseTunnel

LEMMA AckSimulates ==
  ASSUME RInv, RInv', NEW m \in net, AckReceived(m)
  PROVE  Simulated
<1> DEFINE c == m.conn
           t == tun[c]
           d == delivered[c]
           t1 == Acknowledged(t)
           t2 == SendTunnelHead(t1)
<1>1. m \in Ack /\ m.ok /\ t.open /\ t.TxOnWire /\ m.seq = t.TxSeq /\ c \in Conns
  BY DEF AckReceived, Stale, Ack
<1>2. /\ TypeOK /\ TypeOK' /\ t \in Tunnel /\ ConnInv(c, t, d, net)
  BY <1>1 DEF RInv, IInv, TypeOK
<1>3. /\ tun' = [tun EXCEPT ![c] = t2] /\ delivered' = delivered
      /\ net' = IF t2.TxOnWire THEN WithRequest(c, t2) ELSE net
  BY DEF AckReceived
<1>4. WireHead(t).n \in Del(d)
  BY <1>1, <1>2, AckIsForHead
<1>5. /\ tun'[c] = t2
      /\ \A x \in Conns \ {c} : tun'[x] = tun[x] /\ delivered'[x] = delivered[x]
  BY <1>1, <1>2, <1>3 DEF TypeOK
<1>6. Rest(c)
  BY <1>1, <1>2, <1>3, <1>5, OthersRest DEF WithRequest, RequestOnWire
<1>7. t1.open /\ t1.TxQueue = t.TxQueue \ {WireHead(t)}
  BY <1>1, <1>2 DEF Acknowledged, Tunnel, WireHead
<1>8. t1 \in Tunnel
  BY <1>1, <1>2, AckIsForHead, RequestIsAcknowledged
<1> HIDE DEF t1
<1>9. t2.open /\ t2.TxQueue = t.TxQueue \ {WireHead(t)}
  BY <1>7, <1>8 DEF SendTunnelHead, StartRequest, Tunnel
<1> HIDE DEF t2
<1>10. {f \in tun'[c].TxQueue : f.n \notin Del(d)} = {f \in t.TxQueue : f.n \notin Del(d)}
  BY <1>4, <1>5, <1>9
<1> QED BY <1>1, <1>2, <1>3, <1>5, <1>6, <1>9, <1>10, StutterSimulates

LEMMA AcceptSimulates ==
  ASSUME RInv, RInv', NEW m \in net, ClientAccepts(m)
  PROVE  Simulated
<1> DEFINE c == m.conn
           t == tun[c]
           d == delivered[c]
           d2 == Append(d, m.frame)
<1>1. /\ m \in Request /\ c \in Conns /\ m.type = "request" /\ m.frame \in Frame
      /\ m.seq = Len(d) % SeqMod
      /\ tun' = tun /\ net' = net \union {AckFor(m, TRUE)}
      /\ delivered' = [delivered EXCEPT ![c] = Append(@, m.frame)]
  BY DEF ClientAccepts, Request, Accepted
<1>2. /\ TypeOK /\ TypeOK' /\ t \in Tunnel /\ d \in Seq(Frame)
      /\ ConnInv(c, t, d, net) /\ BaseInv(c, t, d, net) /\ CarryInv(c, d, net)
      /\ t.TxQueue \in SUBSET Frame /\ t.TxQueue # {} <=> t.TxOnWire
      /\ net \subseteq Request \union Ack
  BY <1>1 DEF RInv, IInv, TypeOK, ConnInv, Tunnel
<1>3. delivered'[c] = d2
      /\ \A x \in Conns \ {c} : tun'[x] = tun[x] /\ delivered'[x] = delivered[x]
  BY <1>1, <1>2 DEF TypeOK
<1>4. Rest(c)
  BY <1>1, <1>2, <1>3, OthersRest DEF AckFor
<1>5. m.k = Len(d) + 1 /\ Len(d) \in Nat
  BY <1>1, <1>2, ExpectedIsNext
<1>6. m.frame.n \notin Del(d)
  <2>1. \A i \in DOMAIN d : d[i].n < m.frame.n
    BY <1>1, <1>2, <1>5 DEF BaseInv, RequestInv
  <2>2. ~(m.frame.n < m.frame.n)
    BY <1>1, BoundAssumption DEF Frame, Stamp
  <2> QED BY <2>1, <2>2 DEF Del
<1>7. Del(d2) = Del(d) \union {m.frame.n}
  <2>1. DOMAIN d2 = 1 .. Len(d) + 1 /\ DOMAIN d = 1 .. Len(d)
    BY <1>1, <1>2
  <2>2. \A i \in 1 .. Len(d) : d2[i] = d[i]
    BY <1>1, <1>2
  <2>3. d2[Len(d) + 1] = m.frame
    BY <1>1, <1>2
  <2>4. 1 .. Len(d) + 1 = (1 .. Len(d)) \union {Len(d) + 1}
    BY <1>5
  <2> HIDE DEF d2
  <2> QED BY <2>1, <2>2, <2>3, <2>4 DEF Del
<1>8. RequestsOf(c, net') = RequestsOf(c, net)
  BY <1>1 DEF RequestsOf, AckFor
<1>9. /\ Pending(c) = Pend(c, t, d, net)
      /\ Pending(c)' = Pend(c, t, d2, net)
  <2>1. Pending(c)' = Pend(c, tun'[c], d2, net')
    BY <1>1, <1>2, <1>3, PendingIs
  <2>2. Pending(c)' = Pend(c, t, d2, net)
    BY <2>1, <1>1, <1>8 DEF Pend
  <2> QED BY <2>2, <1>1, <1>2, PendingIs
<1> HIDE DEF d2, d, t
<1>10. /\ m.frame \in Pend(c, t, d, net)
       /\ \A g \in Pend(c, t, d, net) :
            m.frame.n <= g.n /\ (g.n = m.frame.n => g = m.frame)
  <2>1. CASE t.open
    <3>1. t.TxOnWire /\ m.frame = WireHead(t)
      BY <1>1, <1>2, <1>5, <2>1 DEF BaseInv, OpenInv
    <3>2. m.frame \in t.TxQueue /\ \A g \in t.TxQueue : m.frame.n <= g.n
      BY <1>2, <3>1, OldestInQueue DEF WireHead
    <3>3. \A g \in t.TxQueue : g.n = m.frame.n => g = m.frame
      BY <1>2, <3>2 DEF BaseInv, StampInv
    <3> QED BY <2>1, <3>2, <3>3, <1>6 DEF Pend
  <2>2. CASE ~t.open
    <3>1. ASSUME NEW r \in RequestsOf(c, net), r.frame.n \notin Del(d)
          PROVE  r.frame = m.frame
      <4>1. r \in net /\ r.conn = c /\ r.type = "request" /\ r.k \in Nat
        BY <1>2 DEF RequestsOf, Request, Ack
      <4>2. r.k <= Len(d) + 1 /\ ~(r.k <= Len(d))
        BY <3>1, <4>1, <1>2 DEF BaseInv, RequestInv, CarryInv
      <4>3. r.k = Len(d) + 1
        BY <4>1, <4>2, <1>5
      <4> QED BY <4>1, <4>3, <1>1, <1>2, <1>5 DEF CarryInv
    <3>2. m \in RequestsOf(c, net)
      BY <1>1 DEF RequestsOf
    <3>3. m.frame.n <= m.frame.n
      BY <1>1, BoundAssumption DEF Frame, Stamp
    <3> QED BY <2>2, <3>1, <3>2, <3>3, <1>6 DEF Pend
  <2> QED BY <2>1, <2>2
<1>11. Pend(c, t, d2, net) = Pend(c, t, d, net) \ {m.frame}
  BY <1>7, <1>10 DEF Pend
<1>12. Contract!Deliver(c)
  BY <1>1, <1>4, <1>9, <1>10, <1>11, IsDeliver
<1> QED BY <1>1, <1>12 DEF Simulated, Contract!Next

(* Steps of the client that accept nothing, and datagrams that are gone.   *)
LEMMA NetSimulates ==
  ASSUME RInv, RInv', UNCHANGED <<tun, delivered>>, NEW m \in net,
         \/ net' \subseteq net \/ \E a \in Ack : net' = net \union {a},
         \A q \in net : q = m \/ q \in net'
  PROVE  Simulated
<1> DEFINE c == m.conn
<1>1. TypeOK /\ TypeOK' BY DEF RInv, IInv
<1>2. c \in Conns BY <1>1 DEF TypeOK, Request, Ack
<1>3. \A q \in net' : q \in net \/ q.type = "ack"
  BY DEF Ack
<1>4. Rest(c)
  BY <1>1, <1>2, <1>3, OthersRest
<1>5. CASE tun[c].open
  BY <1>1, <1>2, <1>4, <1>5, StutterSimulates
<1>6. CASE ~tun[c].open
  <2>1. RequestsOf(c, net') \subseteq RequestsOf(c, net)
    BY <1>3 DEF RequestsOf
  <2>2. Pending(c)' \subseteq Pending(c)
    BY <1>1, <1>2, <1>6, <2>1, PendingIs DEF Pend
  <2> QED BY <1>2, <1>4, <1>6, <2>2, IsExpire DEF Simulated, Contract!Next
<1> QED BY <1>5, <1>6

LEMMA NextSimulates == RInv /\ RInv' /\ [Next]_vars => Simulated
<1> SUFFICES ASSUME RInv, RInv', [Next]_vars PROVE Simulated
  OBVIOUS
<1>1. CASE \E c \in Conns, config \in BOOLEAN : Connect(c, config)
  BY <1>1, ConnectSimulates
<1>2. CASE \E c \in Conns : \E len \in Lengths, drop \in BOOLEAN :
             FrameQueued(c, len, drop)
  BY <1>2, FrameQueuedSimulates
<1>3. CASE \E c \in Conns : \E len \in Lengths : FrameLost(c, len)
  BY <1>3, FrameLostSimulates
<1>4. CASE \E c \in Conns : AckTimeout(c)
  BY <1>4, ResendOrCloseSimulates DEF AckTimeout
<1>5. CASE \E c \in Conns : CloseTunnel(c)
  BY <1>5, ResetSimulates DEF CloseTunnel
<1>6. CASE \E m \in net : AckReceived(m)
  BY <1>6, AckSimulates
<1>7. CASE \E m \in net : NegativeAckReceived(m)
  BY <1>7, ResendOrCloseSimulates DEF NegativeAckReceived, Ack
<1>8. CASE \E m \in net : ClientAccepts(m)
  BY <1>8, AcceptSimulates
<1>9. ASSUME NEW m \in net, ClientAcksRepeat(m) \/ ClientRefuses(m)
      PROVE  Simulated
  <2>1. \A ok \in BOOLEAN : m \in Request => AckFor(m, ok) \in Ack
    BY DEF AckFor, Request, Ack
  <2> QED BY <1>9, <2>1, NetSimulates DEF ClientAcksRepeat, ClientRefuses
<1>10. CASE \E m \in net : Vanish(m)
  BY <1>10, NetSimulates DEF Vanish
<1>11. CASE UNCHANGED vars
  BY <1>11 DEF vars, Simulated, Contract!vars, Pending, DeliveredStamps
<1> QED BY <1>1, <1>2, <1>3, <1>4, <1>5, <1>6, <1>7, <1>8, <1>9, <1>10, <1>11
        DEF Next

(* The queue, the sequence counters, the repeats and the acks together     *)
(* give a client what TunnelContract promises.                             *)
THEOREM ContractKept == Spec => ImplementsContract
<1>1. Init => Contract!Init
  BY DEF Init, FreeTunnel, Contract!Init, Pending
<1>2. Init => RInv
  BY InitInv DEF RInv, CarryInv, Init
<1>3. RInv /\ [Next]_vars => RInv'
  BY CarryNext
<1>4. RInv /\ RInv' /\ [Next]_vars => [Contract!Next]_(Contract!vars)
  BY NextSimulates DEF Simulated
<1> QED BY <1>1, <1>2, <1>3, <1>4, PTL DEF Spec, ImplementsContract, Contract!Spec

-----------------------------------------------------------------------------
(* Sums over finite sets.  g gives for each subset of S the sum of the     *)
(* values w, taken in the order MapThenSumSet takes them.                  *)

Pick(s) == CHOOSE x \in s : TRUE

IsSum(g, w, S) ==
  /\ IsFiniteSet(S) /\ \A x \in S : w[x] \in Nat
  /\ g = [s \in SUBSET S |-> IF s = {} THEN 0 ELSE w[Pick(s)] + g[s \ {Pick(s)}]]

(* A sum is a natural number and any element can be taken first.           *)
SumLaws(g, w, S) ==
  /\ g[{}] = 0
  /\ \A s \in SUBSET S : g[s] \in Nat
  /\ \A s \in SUBSET S : \A x \in s : g[s] = w[x] + g[s \ {x}]

(* The element taken first is one of the set.                              *)
LEMMA PickIn ==
  ASSUME NEW s, s # {}
  PROVE  Pick(s) \in s
BY DEF Pick

(* Of a nonempty set of finite sets one has the fewest elements: what      *)
(* takes the place of induction.                                           *)
LEMMA FewestElements ==
  ASSUME NEW S, IsFiniteSet(S), NEW B, B \subseteq SUBSET S, B # {}
  PROVE  \E s \in B : \A t \in B : Cardinality(s) <= Cardinality(t)
<1> DEFINE T == {Cardinality(s) : s \in B}
<1>1. \A s \in B : Cardinality(s) \in Nat
  BY FS_Subset, FS_CardinalityType
<1>2. T \subseteq Nat /\ T # {}
  BY <1>1
<1> HIDE DEF T
<1>3. PICK n \in T : \A m \in T : n <= m
  BY <1>2, NatMin
<1> QED BY <1>3 DEF T

(* Taking an element out leaves a smaller subset.                          *)
LEMMA OneLess ==
  ASSUME NEW S, IsFiniteSet(S), NEW s \in SUBSET S, NEW x \in s
  PROVE  /\ s \ {x} \in SUBSET S
         /\ Cardinality(s \ {x}) = Cardinality(s) - 1
         /\ Cardinality(s) \in Nat /\ Cardinality(s) >= 1
         /\ Cardinality(s \ {x}) \in Nat
<1>1. IsFiniteSet(s)
  BY FS_Subset
<1>2. Cardinality(s \ {x}) = Cardinality(s) - 1 /\ IsFiniteSet(s \ {x})
  BY <1>1, FS_RemoveElement
<1>3. Cardinality(s) \in Nat /\ Cardinality(s \ {x}) \in Nat
  BY <1>1, <1>2, FS_CardinalityType
<1> QED BY <1>2, <1>3

(* The recursion defines a function.                                       *)
LEMMA SumExists ==
  ASSUME NEW S, IsFiniteSet(S), NEW w, \A x \in S : w[x] \in Nat
  PROVE  \E g : IsSum(g, w, S)
<1> DEFINE D(n) == {s \in SUBSET S : Cardinality(s) <= n}
           Step(g, s) == IF s = {} THEN 0 ELSE w[Pick(s)] + g[s \ {Pick(s)}]
           Upto(g, n) == \A s \in D(n) : g[s] = Step(g, s)
           Q == {n \in Nat : \E g : Upto(g, n)}
<1>1. \A s \in SUBSET S : Cardinality(s) \in Nat /\ (Cardinality(s) <= 0 => s = {})
  BY FS_Subset, FS_CardinalityType, FS_EmptySet
<1>2. 0 \in Q
  <2> DEFINE g == [s \in SUBSET S |-> 0]
  <2>1. Upto(g, 0)
    BY <1>1
  <2> QED BY <2>1
<1>3. ASSUME NEW n \in Q PROVE n + 1 \in Q
  <2>1. PICK g : Upto(g, n)
    BY <1>3
  <2> DEFINE h == [s \in SUBSET S |-> Step(g, s)]
  <2>2. ASSUME NEW s \in D(n + 1) PROVE h[s] = Step(h, s)
    <3>1. CASE s = {}
      BY <3>1
    <3>2. CASE s # {}
      <4>1. Pick(s) \in s
        BY <3>2, PickIn
      <4>2. s \ {Pick(s)} \in D(n)
        <5>1. s \in SUBSET S /\ Cardinality(s) <= n + 1
          OBVIOUS
        <5>2. /\ s \ {Pick(s)} \in SUBSET S
              /\ Cardinality(s \ {Pick(s)}) = Cardinality(s) - 1
              /\ Cardinality(s) \in Nat
          BY <4>1, <5>1, OneLess
        <5> QED BY <5>1, <5>2
      <4>3. h[s \ {Pick(s)}] = g[s \ {Pick(s)}]
        BY <2>1, <4>2
      <4> QED BY <3>2, <4>3
    <3> QED BY <3>1, <3>2
  <2>3. Upto(h, n + 1)
    BY <2>2
  <2> HIDE DEF Upto
  <2> QED BY <2>3
<1>4. Q = Nat
  <2> HIDE DEF Q
  <2>1. Q \subseteq Nat
    BY DEF Q
  <2>2. SUFFICES ASSUME Nat \ Q # {} PROVE FALSE
    BY <2>1
  <2>3. PICK n \in Nat \ Q : \A m \in Nat \ Q : n <= m
    BY <2>2, NatMin
  <2>4. n # 0 /\ n - 1 \in Nat
    BY <1>2, <2>3
  <2>5. n - 1 \in Q
    BY <2>3, <2>4
  <2>6. n - 1 + 1 \in Q
    BY <1>3, <2>5
  <2> QED BY <2>3, <2>6
<1>5. Cardinality(S) \in Nat
  BY FS_CardinalityType
<1>6. PICK g : Upto(g, Cardinality(S))
  BY <1>4, <1>5
<1>7. D(Cardinality(S)) = SUBSET S
  BY FS_Subset
<1> DEFINE h == [s \in SUBSET S |-> g[s]]
<1>8. ASSUME NEW s \in SUBSET S PROVE h[s] = Step(h, s)
  <2>1. g[s] = Step(g, s)
    BY <1>6, <1>7
  <2>2. CASE s = {}
    BY <2>1, <2>2
  <2>3. CASE s # {}
    <3>1. s \ {Pick(s)} \in SUBSET S
      OBVIOUS
    <3> QED BY <2>1, <2>3, <3>1
  <2> QED BY <2>2, <2>3
<1>9. h = [s \in SUBSET S |-> Step(h, s)]
  <2> HIDE DEF Step
  <2>1. h = [s \in SUBSET S |-> h[s]]
    OBVIOUS
  <2> QED BY <1>8, <2>1
<1>10. IsSum(h, w, S)
  BY <1>9, Zenon DEF IsSum
<1> QED BY <1>10

(* The order in which it is taken does not matter.                         *)
LEMMA SumAnyOrder ==
  ASSUME NEW S, NEW w, NEW g, IsSum(g, w, S)
  PROVE  SumLaws(g, w, S)
<1>1. IsFiniteSet(S) /\ \A x \in S : w[x] \in Nat
  BY DEF IsSum
<1>2. \A s \in SUBSET S :
        g[s] = IF s = {} THEN 0 ELSE w[Pick(s)] + g[s \ {Pick(s)}]
  BY Zenon DEF IsSum
<1>3. g[{}] = 0
  BY <1>2
<1>4. \A s \in SUBSET S : g[s] \in Nat
  <2> DEFINE B == {s \in SUBSET S : g[s] \notin Nat}
  <2>1. SUFFICES ASSUME B # {} PROVE FALSE
    OBVIOUS
  <2>2. PICK s \in B : \A t \in B : Cardinality(s) <= Cardinality(t)
    <3>1. B \subseteq SUBSET S
      OBVIOUS
    <3> HIDE DEF B
    <3> QED BY <1>1, <2>1, <3>1, FewestElements
  <2>3. s # {} /\ s \in SUBSET S
    BY <1>3
  <2>4. Pick(s) \in s /\ w[Pick(s)] \in Nat
    BY <1>1, <2>3, PickIn
  <2>5. /\ s \ {Pick(s)} \in SUBSET S
        /\ Cardinality(s \ {Pick(s)}) = Cardinality(s) - 1
        /\ Cardinality(s) \in Nat /\ Cardinality(s \ {Pick(s)}) \in Nat
    BY <1>1, <2>3, <2>4, OneLess
  <2>6. g[s \ {Pick(s)}] \in Nat
    <3>1. ~(Cardinality(s) <= Cardinality(s \ {Pick(s)}))
      BY <2>5
    <3> QED BY <2>2, <2>5, <3>1
  <2>7. g[s] = w[Pick(s)] + g[s \ {Pick(s)}]
    BY <1>2, <2>3
  <2> QED BY <2>4, <2>6, <2>7
<1>5. ASSUME NEW s0 \in SUBSET S, NEW x0 \in s0 PROVE g[s0] = w[x0] + g[s0 \ {x0}]
  <2> DEFINE B == {s \in SUBSET S : \E x \in s : g[s] # w[x] + g[s \ {x}]}
  <2>1. SUFFICES ASSUME B # {} PROVE FALSE
    OBVIOUS
  <2>2. PICK s \in B : \A t \in B : Cardinality(s) <= Cardinality(t)
    <3>1. B \subseteq SUBSET S
      OBVIOUS
    <3> HIDE DEF B
    <3> QED BY <1>1, <2>1, <3>1, FewestElements
  <2>3. s # {} /\ s \in SUBSET S
    OBVIOUS
  <2>4. PICK x \in s : g[s] # w[x] + g[s \ {x}]
    OBVIOUS
  <2>5. PICK y \in s : y = Pick(s)
    BY <2>3, PickIn
  <2>6. g[s] = w[y] + g[s \ {y}]
    BY <1>2, <2>3, <2>5
  <2>7. x # y
    BY <2>4, <2>6
  <2>8. ASSUME NEW z \in s
        PROVE  s \ {z} \in SUBSET S /\ s \ {z} \notin B
    <3>1. /\ s \ {z} \in SUBSET S
          /\ Cardinality(s \ {z}) = Cardinality(s) - 1
          /\ Cardinality(s) \in Nat /\ Cardinality(s \ {z}) \in Nat
      BY <1>1, <2>3, OneLess
    <3>2. ~(Cardinality(s) <= Cardinality(s \ {z}))
      BY <3>1
    <3> HIDE DEF B
    <3> QED BY <2>2, <3>1, <3>2
  <2>9. g[s \ {y}] = w[x] + g[(s \ {y}) \ {x}]
    BY <2>7, <2>8
  <2>10. g[s \ {x}] = w[y] + g[(s \ {x}) \ {y}]
    BY <2>7, <2>8
  <2>11. (s \ {y}) \ {x} = (s \ {x}) \ {y} /\ (s \ {x}) \ {y} \in SUBSET S
    BY <2>3
  <2>12. w[x] \in Nat /\ w[y] \in Nat /\ g[(s \ {x}) \ {y}] \in Nat
    BY <1>1, <1>4, <2>3, <2>11
  <2> HIDE DEF B
  <2>13. PICK r \in Nat : r = g[(s \ {x}) \ {y}]
    BY <2>12
  <2>14. g[s \ {y}] = w[x] + r
    BY <2>9, <2>11, <2>13
  <2>15. g[s \ {x}] = w[y] + r
    BY <2>10, <2>13
  <2> QED BY <2>4, <2>6, <2>12, <2>14, <2>15
<1> QED BY <1>3, <1>4, <1>5 DEF SumLaws

(* Equal values have equal sums, whatever the sets around them.            *)
LEMMA SumSame ==
  ASSUME NEW S, NEW w, NEW g, IsSum(g, w, S),
         NEW T, NEW v, NEW h, IsSum(h, v, T),
         NEW s0 \in SUBSET S, s0 \subseteq T, \A x \in s0 : w[x] = v[x]
  PROVE  g[s0] = h[s0]
<1> DEFINE B == {s \in SUBSET s0 : g[s] # h[s]}
<1>1. SUFFICES ASSUME B # {} PROVE FALSE
  OBVIOUS
<1>2. IsFiniteSet(s0)
  BY FS_Subset DEF IsSum
<1>3. PICK s \in B : \A t \in B : Cardinality(s) <= Cardinality(t)
  <2>1. B \subseteq SUBSET s0
    OBVIOUS
  <2> HIDE DEF B
  <2> QED BY <1>1, <1>2, <2>1, FewestElements
<1>4. /\ g[{}] = 0 /\ h[{}] = 0
      /\ \A t \in SUBSET S : \A x \in t : g[t] = w[x] + g[t \ {x}]
      /\ \A t \in SUBSET T : \A x \in t : h[t] = v[x] + h[t \ {x}]
  <2>1. SumLaws(g, w, S) /\ SumLaws(h, v, T)
    BY SumAnyOrder
  <2> QED BY <2>1 DEF SumLaws
<1>5. PICK x : x \in s
  BY <1>4
<1>6. /\ s \ {x} \in SUBSET s0
      /\ Cardinality(s \ {x}) = Cardinality(s) - 1
      /\ Cardinality(s) \in Nat /\ Cardinality(s \ {x}) \in Nat
  BY <1>2, <1>5, OneLess
<1>7. s \ {x} \notin B
  <2>1. ~(Cardinality(s) <= Cardinality(s \ {x}))
    BY <1>6
  <2> HIDE DEF B
  <2> QED BY <1>3, <1>6, <2>1
<1>8. s \in SUBSET S /\ s \in SUBSET T /\ x \in s0
  BY <1>5
<1> QED BY <1>4, <1>5, <1>6, <1>7, <1>8

(* One value more or less is all that changes.                             *)
LEMMA SumChange ==
  ASSUME NEW S, NEW w, NEW g, IsSum(g, w, S), NEW v, NEW h, IsSum(h, v, S),
         NEW c \in S, \A x \in S \ {c} : w[x] = v[x]
  PROVE  g[S] \in Nat /\ h[S] = g[S] - w[c] + v[c]
<1> DEFINE R == S \ {c}
<1>1. S \in SUBSET S /\ R \in SUBSET S /\ R \subseteq S
  OBVIOUS
<1>2. SumLaws(g, w, S) /\ SumLaws(h, v, S)
  BY SumAnyOrder
<1>3. g[S] = w[c] + g[R]
  BY <1>1, <1>2 DEF SumLaws
<1>4. h[S] = v[c] + h[R]
  BY <1>1, <1>2 DEF SumLaws
<1>5. \A x \in R : w[x] = v[x]
  OBVIOUS
<1> HIDE DEF R
<1>6. g[R] = h[R]
  BY <1>1, <1>5, SumSame
<1>7. g[S] \in Nat /\ g[R] \in Nat
  BY <1>1, <1>2 DEF SumLaws
<1>8. w[c] \in Nat /\ v[c] \in Nat
  BY DEF IsSum
<1> QED BY <1>3, <1>4, <1>6, <1>7, <1>8

(* Nothing adds up to nothing.                                             *)
LEMMA SumOfZeros ==
  ASSUME NEW S, NEW w, NEW g, IsSum(g, w, S), \A x \in S : w[x] = 0
  PROVE  g[S] = 0
<1>1. IsFiniteSet(S)
  BY DEF IsSum
<1>2. /\ g[{}] = 0
      /\ \A s \in SUBSET S : \A x \in s : g[s] = w[x] + g[s \ {x}]
  BY SumAnyOrder DEF SumLaws
<1> DEFINE B == {s \in SUBSET S : g[s] # 0}
<1>3. SUFFICES ASSUME B # {} PROVE FALSE
  OBVIOUS
<1>4. PICK s \in B : \A t \in B : Cardinality(s) <= Cardinality(t)
  <2>1. B \subseteq SUBSET S
    OBVIOUS
  <2> HIDE DEF B
  <2> QED BY <1>1, <1>3, <2>1, FewestElements
<1>5. s \in SUBSET S /\ g[s] # 0
  OBVIOUS
<1>6. PICK x : x \in s
  BY <1>2, <1>5
<1>7. /\ s \ {x} \in SUBSET S
      /\ Cardinality(s \ {x}) = Cardinality(s) - 1
      /\ Cardinality(s) \in Nat /\ Cardinality(s \ {x}) \in Nat
  BY <1>1, <1>5, <1>6, OneLess
<1>8. g[s \ {x}] = 0
  <2>1. ~(Cardinality(s) <= Cardinality(s \ {x}))
    BY <1>7
  <2>2. s \ {x} \notin B
    <3> HIDE DEF B
    <3> QED BY <1>4, <1>7, <2>1
  <2> QED BY <1>7, <2>2
<1>9. w[x] = 0 /\ g[s] = w[x] + g[s \ {x}]
  BY <1>2, <1>5, <1>6
<1> HIDE DEF B
<1> QED BY <1>5, <1>8, <1>9

(* The sum splits at any subset.                                           *)
LEMMA SumSplit ==
  ASSUME NEW S, NEW w, NEW g, IsSum(g, w, S), NEW G0 \in SUBSET S
  PROVE  g[S] = g[G0] + g[S \ G0]
<1> DEFINE B == {G \in SUBSET S : g[S] # g[G] + g[S \ G]}
<1>1. SUFFICES ASSUME B # {} PROVE FALSE
  OBVIOUS
<1>2. PICK G \in B : \A t \in B : Cardinality(G) <= Cardinality(t)
  <2>1. B \subseteq SUBSET S
    OBVIOUS
  <2> HIDE DEF B
  <2> QED BY <1>1, <2>1, FewestElements DEF IsSum
<1>3. G \in SUBSET S /\ g[S] # g[G] + g[S \ G]
  OBVIOUS
<1>4. /\ g[{}] = 0 /\ \A s \in SUBSET S : g[s] \in Nat
      /\ \A s \in SUBSET S : \A x \in s : g[s] = w[x] + g[s \ {x}]
  BY SumAnyOrder DEF SumLaws
<1>5. PICK x : x \in G
  <2> HIDE DEF B
  <2>1. SUFFICES ASSUME G = {} PROVE FALSE
    OBVIOUS
  <2>2. g[G] = 0 /\ S \ G = S /\ g[S] \in Nat
    BY <1>4, <2>1
  <2>3. g[S] # g[S \ G]
    BY <1>3, <2>2
  <2> QED BY <2>2, <2>3
<1>6. /\ G \ {x} \in SUBSET S
      /\ Cardinality(G \ {x}) = Cardinality(G) - 1
      /\ Cardinality(G) \in Nat /\ Cardinality(G \ {x}) \in Nat
  BY <1>3, <1>5, OneLess DEF IsSum
<1>7. g[S] = g[G \ {x}] + g[S \ (G \ {x})]
  <2>1. ~(Cardinality(G) <= Cardinality(G \ {x}))
    BY <1>6
  <2>2. G \ {x} \notin B
    <3> HIDE DEF B
    <3> QED BY <1>2, <1>6, <2>1
  <2> QED BY <1>6, <2>2
<1>8. g[G] = w[x] + g[G \ {x}]
  BY <1>3, <1>4, <1>5
<1>9. g[S \ (G \ {x})] = w[x] + g[S \ G]
  <2>1. x \in S \ (G \ {x}) /\ S \ (G \ {x}) \in SUBSET S
    BY <1>3, <1>5
  <2>2. (S \ (G \ {x})) \ {x} = S \ G
    BY <1>3, <1>5
  <2>3. g[S \ (G \ {x})] = w[x] + g[(S \ (G \ {x})) \ {x}]
    BY <1>4, <2>1
  <2> QED BY <2>2, <2>3
<1>10. w[x] \in Nat /\ g[G \ {x}] \in Nat /\ g[S \ G] \in Nat
  <2>1. x \in S /\ S \ G \in SUBSET S
    BY <1>3, <1>5
  <2>2. w[x] \in Nat
    BY <2>1 DEF IsSum
  <2> QED BY <1>4, <1>6, <2>1, <2>2
<1> HIDE DEF B
<1> QED BY <1>3, <1>7, <1>8, <1>9, <1>10

-----------------------------------------------------------------------------
(* The octets of a queue and of all queues.                                *)

LEMMA OctetsAreSum ==
  ASSUME NEW S, IsFiniteSet(S), NEW w,
         \A f \in S : f.len \in Nat /\ w[f] = f.len
  PROVE  \E g : IsSum(g, w, S) /\ Octets(S) = g[S]
<1> DEFINE Len1(g) == g = [s \in SUBSET S |->
                            IF s = {} THEN 0 ELSE Pick(s).len + g[s \ {Pick(s)}]]
<1>1. ASSUME NEW g
      PROVE  Len1(g) <=> IsSum(g, w, S)
  <2>1. \A s \in SUBSET S : s # {} => Pick(s).len = w[Pick(s)]
    BY PickIn
  <2>2. [s \in SUBSET S |-> IF s = {} THEN 0 ELSE Pick(s).len + g[s \ {Pick(s)}]]
          = [s \in SUBSET S |-> IF s = {} THEN 0 ELSE w[Pick(s)] + g[s \ {Pick(s)}]]
    BY <2>1
  <2>3. IsFiniteSet(S) /\ \A x \in S : w[x] \in Nat
    OBVIOUS
  <2> QED BY <2>2, <2>3 DEF IsSum
<1>2. PICK g : IsSum(g, w, S)
  <2>1. \A x \in S : w[x] \in Nat
    OBVIOUS
  <2> QED BY <2>1, SumExists
<1>3. Octets(S) = (CHOOSE h : Len1(h))[S]
  BY DEF Octets, MapThenSumSet, MapThenFoldSet, Pick
<1> HIDE DEF Len1
<1>4. Len1(CHOOSE h : Len1(h))
  BY <1>1, <1>2
<1> QED BY <1>1, <1>3, <1>4

(* The octets of a finite queue are a natural number.                      *)
LEMMA OctetsType ==
  ASSUME NEW S, IsFiniteSet(S), \A f \in S : f.len \in Nat
  PROVE  Octets(S) \in Nat
<1> DEFINE w == [f \in S |-> f.len]
<1>1. \A f \in S : f.len \in Nat /\ w[f] = f.len
  OBVIOUS
<1> HIDE DEF w
<1>2. PICK g : IsSum(g, w, S) /\ Octets(S) = g[S]
  BY <1>1, OctetsAreSum
<1> QED BY <1>2, SumAnyOrder DEF SumLaws

(* An empty queue has no octets.                                           *)
LEMMA OctetsOfNone == Octets({}) = 0
<1> DEFINE w == [f \in {} |-> 0]
<1>1. IsFiniteSet({}) /\ \A f \in {} : f.len \in Nat /\ w[f] = f.len
  BY FS_EmptySet
<1> HIDE DEF w
<1>2. PICK g : IsSum(g, w, {}) /\ Octets({}) = g[{}]
  BY <1>1, OctetsAreSum
<1> QED BY <1>2, SumAnyOrder DEF SumLaws

(* What is taken out is taken off.                                         *)
LEMMA OctetsWithout ==
  ASSUME NEW S, IsFiniteSet(S), \A f \in S : f.len \in Nat, NEW G \in SUBSET S
  PROVE  Octets(S \ G) = Octets(S) - Octets(G)
<1> DEFINE w == [f \in S |-> f.len]
<1>1. \A f \in S : f.len \in Nat /\ w[f] = f.len /\ w[f] \in Nat
  OBVIOUS
<1> HIDE DEF w
<1>2. PICK g : IsSum(g, w, S) /\ Octets(S) = g[S]
  BY <1>1, OctetsAreSum
<1>3. ASSUME NEW T \in SUBSET S PROVE Octets(T) = g[T] /\ g[T] \in Nat
  <2>1. IsFiniteSet(T)
    BY FS_Subset
  <2>2. \A f \in T : f.len \in Nat /\ w[f] = f.len /\ w[f] \in Nat
    BY <1>1
  <2>3. PICK h : IsSum(h, w, T) /\ Octets(T) = h[T]
    BY <2>1, <2>2, OctetsAreSum
  <2>4. g[T] = h[T]
    <3>1. T \in SUBSET S /\ T \subseteq T /\ \A x \in T : w[x] = w[x]
      OBVIOUS
    <3> QED BY <1>2, <2>3, <3>1, SumSame
  <2>5. \A s \in SUBSET S : g[s] \in Nat
    BY <1>2, SumAnyOrder DEF SumLaws
  <2> QED BY <2>3, <2>4, <2>5
<1>4. g[S] = g[G] + g[S \ G]
  BY <1>2, SumSplit
<1>5. S \ G \in SUBSET S
  OBVIOUS
<1> QED BY <1>2, <1>3, <1>4, <1>5

(* A frame alone has its own length.                                       *)
LEMMA OctetsOfOne ==
  ASSUME NEW f, f.len \in Nat
  PROVE  Octets({f}) = f.len
<1> DEFINE S == {f}
           w == [h \in S |-> h.len]
<1>1. \A h \in S : h.len \in Nat /\ w[h] = h.len /\ w[h] \in Nat
  OBVIOUS
<1>2. IsFiniteSet(S)
  BY FS_Singleton
<1>3. w[f] = f.len /\ f \in S /\ S \in SUBSET S /\ S \ {f} = {}
  OBVIOUS
<1> HIDE DEF S, w
<1>4. PICK g : IsSum(g, w, S) /\ Octets(S) = g[S]
  BY <1>1, <1>2, OctetsAreSum
<1>5. /\ g[{}] = 0
      /\ \A s \in SUBSET S : \A x \in s : g[s] = w[x] + g[s \ {x}]
  BY <1>4, SumAnyOrder DEF SumLaws
<1>6. g[S] = w[f] + g[{}]
  BY <1>3, <1>5
<1> QED BY <1>3, <1>4, <1>5, <1>6 DEF S

(* A new frame adds its length.                                            *)
LEMMA OctetsWith ==
  ASSUME NEW S, IsFiniteSet(S), \A f \in S : f.len \in Nat,
         NEW f, f \notin S, f.len \in Nat
  PROVE  Octets(S \union {f}) = Octets(S) + f.len
<1> DEFINE T == S \union {f}
<1>1. IsFiniteSet(T) /\ \A h \in T : h.len \in Nat
  BY FS_AddElement
<1>2. {f} \in SUBSET T /\ T \ {f} = S
  OBVIOUS
<1> HIDE DEF T
<1>3. Octets(T \ {f}) = Octets(T) - Octets({f})
  BY <1>1, <1>2, OctetsWithout
<1>4. Octets(T) \in Nat /\ Octets(S) \in Nat /\ Octets({f}) = f.len
  BY <1>1, OctetsType, OctetsOfOne
<1>5. Octets(T) = Octets(S) + f.len
  BY <1>2, <1>3, <1>4
<1> QED BY <1>5 DEF T

(* All queues together, in the state t of the connections.                 *)
Total(t) == MapThenSumSet(LAMBDA c : Octets(t[c].TxQueue), Conns)

(* The total is the sum of the octets of the queues.                       *)
LEMMA TotalIsSum ==
  ASSUME NEW t, NEW w,
         \A c \in Conns : Octets(t[c].TxQueue) \in Nat /\ w[c] = Octets(t[c].TxQueue)
  PROVE  \E g : IsSum(g, w, Conns) /\ Total(t) = g[Conns]
<1> DEFINE Total1(g) ==
      g = [s \in SUBSET Conns |->
             IF s = {} THEN 0 ELSE Octets(t[Pick(s)].TxQueue) + g[s \ {Pick(s)}]]
<1>1. ASSUME NEW g
      PROVE  Total1(g) <=> IsSum(g, w, Conns)
  <2>1. \A s \in SUBSET Conns : s # {} => Octets(t[Pick(s)].TxQueue) = w[Pick(s)]
    BY PickIn
  <2>2. [s \in SUBSET Conns |->
           IF s = {} THEN 0 ELSE Octets(t[Pick(s)].TxQueue) + g[s \ {Pick(s)}]]
          = [s \in SUBSET Conns |-> IF s = {} THEN 0 ELSE w[Pick(s)] + g[s \ {Pick(s)}]]
    BY <2>1
  <2>3. IsFiniteSet(Conns) /\ \A x \in Conns : w[x] \in Nat
    BY ConnsAssumption
  <2> QED BY <2>2, <2>3 DEF IsSum
<1>2. PICK g : IsSum(g, w, Conns)
  <2>1. \A x \in Conns : w[x] \in Nat
    OBVIOUS
  <2> QED BY <2>1, ConnsAssumption, SumExists
<1>3. Total(t) = (CHOOSE h : Total1(h))[Conns]
  BY DEF Total, MapThenSumSet, MapThenFoldSet, Pick
<1> HIDE DEF Total1
<1>4. Total1(CHOOSE h : Total1(h))
  BY <1>1, <1>2
<1> QED BY <1>1, <1>3, <1>4

(* The queue is finite and within its depth.                               *)
QueueInv(t) == IsFiniteSet(t.TxQueue) /\ Cardinality(t.TxQueue) <= QueueDepth

(* A finite queue holds frames, and its octets are a natural number.       *)
LEMMA QueueOctets ==
  ASSUME NEW t \in Tunnel, IsFiniteSet(t.TxQueue)
  PROVE  /\ \A f \in t.TxQueue : f \in Frame /\ f.len \in Nat
         /\ Octets(t.TxQueue) \in Nat
<1>1. \A f \in t.TxQueue : f \in Frame
  BY DEF Tunnel
<1>2. \A f \in t.TxQueue : f.len \in Nat
  BY <1>1, LengthsAssumption DEF Frame
<1>3. Octets(t.TxQueue) \in Nat
  BY <1>2, OctetsType
<1> QED BY <1>1, <1>2, <1>3

(* A change of one queue changes the total by the difference.              *)
LEMMA TotalChange ==
  ASSUME NEW t \in [Conns -> Tunnel], NEW u \in [Conns -> Tunnel], NEW c \in Conns,
         \A x \in Conns : IsFiniteSet(t[x].TxQueue) /\ IsFiniteSet(u[x].TxQueue),
         \A x \in Conns \ {c} : u[x].TxQueue = t[x].TxQueue
  PROVE  /\ Total(t) \in Nat
         /\ Total(u) = Total(t) - Octets(t[c].TxQueue) + Octets(u[c].TxQueue)
<1> DEFINE w == [x \in Conns |-> Octets(t[x].TxQueue)]
           v == [x \in Conns |-> Octets(u[x].TxQueue)]
<1>1. \A x \in Conns : /\ Octets(t[x].TxQueue) \in Nat
                       /\ w[x] = Octets(t[x].TxQueue) /\ w[x] \in Nat
  BY QueueOctets
<1>2. \A x \in Conns : /\ Octets(u[x].TxQueue) \in Nat
                       /\ v[x] = Octets(u[x].TxQueue) /\ v[x] \in Nat
  BY QueueOctets
<1> HIDE DEF w, v
<1>3. PICK g : IsSum(g, w, Conns) /\ Total(t) = g[Conns]
  BY <1>1, TotalIsSum
<1>4. PICK h : IsSum(h, v, Conns) /\ Total(u) = h[Conns]
  BY <1>2, TotalIsSum
<1>5. \A x \in Conns \ {c} : w[x] = v[x]
  BY <1>1, <1>2
<1>6. g[Conns] \in Nat /\ h[Conns] = g[Conns] - w[c] + v[c]
  BY <1>3, <1>4, <1>5, SumChange
<1>7. w[c] = Octets(t[c].TxQueue) /\ v[c] = Octets(u[c].TxQueue) /\ w[c] \in Nat /\ v[c] \in Nat
  BY <1>1, <1>2
<1> QED BY <1>3, <1>4, <1>6, <1>7

-----------------------------------------------------------------------------
(* The budget: the counter is the octets queued and within the budget.     *)

BytesInv ==
  /\ \A c \in Conns : QueueInv(tun[c])
  /\ QueuedBytes = Total(tun)
  /\ QueuedBytes <= QueueBytes

(* At first nothing is queued.                                             *)
LEMMA InitBytes == Init => BytesInv
<1> SUFFICES ASSUME Init PROVE BytesInv
  OBVIOUS
<1>1. \A c \in Conns : tun[c].TxQueue = {}
  BY DEF Init, FreeTunnel
<1>2. \A c \in Conns : QueueInv(tun[c])
  BY <1>1, FS_EmptySet, BudgetAssumption DEF QueueInv
<1>3. Total(tun) = 0
  <2> DEFINE w == [c \in Conns |-> 0]
  <2>1. \A c \in Conns : Octets(tun[c].TxQueue) = 0 /\ w[c] = 0
    BY <1>1, OctetsOfNone
  <2> HIDE DEF w
  <2>2. PICK g : IsSum(g, w, Conns) /\ Total(tun) = g[Conns]
    BY <2>1, TotalIsSum
  <2> QED BY <2>1, <2>2, SumOfZeros
<1> QED BY <1>2, <1>3, BudgetAssumption DEF Init, BytesInv

(* A step about connection c keeps the budget if the counter follows its   *)
(* queue.                                                                  *)
LEMMA BytesStep ==
  ASSUME TypeOK, TypeOK', BytesInv, NEW c \in Conns,
         \A x \in Conns \ {c} : tun'[x] = tun[x],
         QueueInv(tun'[c]),
         QueuedBytes' = QueuedBytes - Octets(tun[c].TxQueue) + Octets(tun'[c].TxQueue),
         QueuedBytes' <= QueueBytes
  PROVE  BytesInv'
<1>1. \A x \in Conns : QueueInv(tun[x]) /\ QueueInv(tun'[x])
  BY DEF BytesInv
<1>2. tun \in [Conns -> Tunnel] /\ tun' \in [Conns -> Tunnel]
  BY DEF TypeOK
<1>3. \A x \in Conns : IsFiniteSet(tun[x].TxQueue) /\ IsFiniteSet(tun'[x].TxQueue)
  BY <1>1 DEF QueueInv
<1>4. Total(tun') = Total(tun) - Octets(tun[c].TxQueue) + Octets(tun'[c].TxQueue)
  BY <1>2, <1>3, TotalChange
<1>5. QueuedBytes' = Total(tun')
  BY <1>4 DEF BytesInv
<1> QED BY <1>1, <1>5 DEF BytesInv

(* A free slot is a connection whose queue is in order.                    *)
LEMMA FreeTypes == FreeTunnel \in Tunnel /\ FreeTunnel.TxQueue = {} /\ QueueInv(FreeTunnel)
<1>1. FreeTunnel \in Tunnel
  BY SeqModAssumption, BoundAssumption DEF FreeTunnel, Tunnel, Seq8
<1>2. FreeTunnel.TxQueue = {}
  BY DEF FreeTunnel
<1>3. QueueInv(FreeTunnel)
  BY <1>2, FS_EmptySet, BudgetAssumption DEF QueueInv
<1> QED BY <1>1, <1>2, <1>3

(* sendTunnelHead leaves the queue alone.                                  *)
LEMMA HeadKeepsQueue ==
  ASSUME NEW t, NEW Q, t.TxQueue = Q, SendTunnelHead(t) \in Tunnel, t \in Tunnel
  PROVE  SendTunnelHead(t).TxQueue = Q
BY DEF SendTunnelHead, StartRequest, Tunnel

(* What the invariant says of the counter and of each queue.               *)
LEMMA CounterType ==
  ASSUME TypeOK, BytesInv
  PROVE  /\ QueuedBytes \in Int /\ QueueBytes \in Int
         /\ QueuedBytes <= QueueBytes
         /\ \A c \in Conns : /\ tun[c] \in Tunnel /\ QueueInv(tun[c])
                             /\ IsFiniteSet(tun[c].TxQueue)
                             /\ Cardinality(tun[c].TxQueue) <= QueueDepth
                             /\ Octets(tun[c].TxQueue) \in Nat
                             /\ \A f \in tun[c].TxQueue : f \in Frame /\ f.len \in Nat
<1>1. \A c \in Conns : tun[c] \in Tunnel /\ QueueInv(tun[c])
  BY DEF TypeOK, BytesInv
<1>2. \A c \in Conns : IsFiniteSet(tun[c].TxQueue) /\ Cardinality(tun[c].TxQueue) <= QueueDepth
  BY <1>1 DEF QueueInv
<1>3. \A c \in Conns : /\ Octets(tun[c].TxQueue) \in Nat
                       /\ \A f \in tun[c].TxQueue : f \in Frame /\ f.len \in Nat
  BY <1>1, <1>2, QueueOctets
<1>4. QueuedBytes \in Int
  <2>1. tun \in [Conns -> Tunnel]
    BY DEF TypeOK
  <2>2. \A x \in Conns : IsFiniteSet(tun[x].TxQueue)
    BY <1>2
  <2>3. QueuedBytes = Total(tun)
    BY DEF BytesInv
  <2>4. CASE Conns = {}
    <3> DEFINE w == [c \in Conns |-> 0]
    <3>1. \A c \in Conns : Octets(tun[c].TxQueue) \in Nat /\ w[c] = Octets(tun[c].TxQueue)
      BY <2>4
    <3> HIDE DEF w
    <3>2. PICK g : IsSum(g, w, Conns) /\ Total(tun) = g[Conns]
      BY <3>1, TotalIsSum
    <3>3. \A s \in SUBSET Conns : g[s] \in Nat
      BY <3>2, SumAnyOrder DEF SumLaws
    <3> QED BY <2>3, <3>2, <3>3
  <2>5. ASSUME NEW c \in Conns PROVE QueuedBytes \in Int
    BY <2>1, <2>2, <2>3, TotalChange
  <2> QED BY <2>4, <2>5
<1> QED BY <1>1, <1>2, <1>3, <1>4, BudgetAssumption DEF BytesInv

(* Taking frames out leaves a queue that is in order.                      *)
LEMMA QueueWithout ==
  ASSUME NEW t \in Tunnel, QueueInv(t), NEW G \in SUBSET t.TxQueue
  PROVE  /\ IsFiniteSet(t.TxQueue \ G) /\ Cardinality(t.TxQueue \ G) <= QueueDepth
         /\ Cardinality(t.TxQueue \ G) \in Nat
         /\ Octets(t.TxQueue \ G) = Octets(t.TxQueue) - Octets(G)
         /\ Octets(G) \in Nat /\ Octets(t.TxQueue) \in Nat
         /\ Octets(t.TxQueue \ G) \in Nat
<1> DEFINE Q == t.TxQueue
<1>1. IsFiniteSet(Q) /\ Cardinality(Q) <= QueueDepth
  BY DEF QueueInv
<1>2. \A f \in Q : f.len \in Nat
  BY <1>1, QueueOctets
<1>3. G \in SUBSET Q /\ Q \ G \in SUBSET Q
  OBVIOUS
<1> HIDE DEF Q
<1>4. /\ IsFiniteSet(Q \ G) /\ Cardinality(Q \ G) <= Cardinality(Q)
      /\ IsFiniteSet(G)
  BY <1>1, <1>3, FS_Subset
<1>5. Cardinality(Q \ G) \in Nat /\ Cardinality(Q) \in Nat
  BY <1>1, <1>4, FS_CardinalityType
<1>6. Octets(Q \ G) = Octets(Q) - Octets(G)
  BY <1>1, <1>2, <1>3, OctetsWithout
<1>7. Octets(G) \in Nat /\ Octets(Q) \in Nat /\ Octets(Q \ G) \in Nat
  <2>1. \A f \in G : f.len \in Nat
    BY <1>2, <1>3
  <2>2. \A f \in Q \ G : f.len \in Nat
    BY <1>2
  <2> QED BY <1>1, <1>2, <1>4, <2>1, <2>2, OctetsType
<1>8. Cardinality(Q \ G) <= QueueDepth
  BY <1>1, <1>4, <1>5, BudgetAssumption
<1> QED BY <1>4, <1>5, <1>6, <1>7, <1>8 DEF Q

(* A connection starts with the empty queue its free slot had.             *)
LEMMA ConnectBytes ==
  ASSUME IInv, TypeOK', BytesInv, NEW c \in Conns, NEW config \in BOOLEAN,
         Connect(c, config)
  PROVE  BytesInv'
<1>1. TypeOK /\ ConnInv(c, tun[c], delivered[c], net)
  BY DEF IInv
<1>2. tun[c].TxQueue = {}
  BY <1>1, FreeTypes DEF Connect, ConnInv, BaseInv, ClosedInv
<1>3. /\ \A x \in Conns \ {c} : tun'[x] = tun[x]
      /\ tun'[c].TxQueue = {}
      /\ QueuedBytes' = QueuedBytes
  <2>1. tun' = [tun EXCEPT ![c] = [FreeTunnel EXCEPT !.open = TRUE, !.IsConfig = config]]
        /\ QueuedBytes' = QueuedBytes
    BY DEF Connect
  <2>2. [FreeTunnel EXCEPT !.open = TRUE, !.IsConfig = config].TxQueue = {}
    BY DEF FreeTunnel
  <2> QED BY <1>1, <2>1, <2>2 DEF TypeOK
<1>4. QueueInv(tun'[c])
  BY <1>3, FS_EmptySet, BudgetAssumption DEF QueueInv
<1>5. QueuedBytes \in Int /\ QueuedBytes <= QueueBytes
  BY <1>1, CounterType
<1>6. QueuedBytes' = QueuedBytes - Octets(tun[c].TxQueue) + Octets(tun'[c].TxQueue)
  BY <1>2, <1>3, <1>5, OctetsOfNone
<1> QED BY <1>1, <1>3, <1>4, <1>5, <1>6, BytesStep

(* sendFrameToTunnel, the frame queued: those given up are taken off and   *)
(* it is added, which Full allowed.                                        *)
LEMMA FrameQueuedBytes ==
  ASSUME IInv, TypeOK', BytesInv, NEW c \in Conns, NEW len \in Lengths,
         NEW drop \in BOOLEAN, FrameQueued(c, len, drop)
  PROVE  BytesInv'
<1> DEFINE t == tun[c]
           gone == GivenUp(t, len)
           new == [n |-> t.offered + 1, len |-> len, drop |-> drop]
           rest == t.TxQueue \ gone
           t1 == WithFrame(t, gone, new)
<1>1. /\ TypeOK /\ t \in Tunnel /\ QueueInv(t) /\ StampInv(t) /\ len \in Nat
      /\ QueuedBytes \in Int /\ QueueBytes \in Int
  <2>1. TypeOK /\ ConnInv(c, t, delivered[c], net)
    BY DEF IInv
  <2> QED BY <2>1, CounterType, LengthsAssumption DEF ConnInv, BaseInv
<1>2. /\ t.open /\ t.offered < MaxOffered
      /\ ~Full(rest, QueuedBytes - Octets(gone), len)
      /\ tun' = [tun EXCEPT ![c] = SendTunnelHead(t1)]
      /\ QueuedBytes' = QueuedBytes - Octets(gone) + len
  BY DEF FrameQueued, WithFrame
<1>3. gone \in SUBSET t.TxQueue
  BY GivenUpIsDroppable DEF Droppable
<1>4. new \in Frame /\ new.n = t.offered + 1 /\ new.len = len
  BY <1>1, <1>2, BoundAssumption DEF Frame, Stamp, Tunnel
<1>5. new \notin t.TxQueue
  <2>1. \A f \in t.TxQueue : f.n \in 1 .. t.offered
    BY <1>1 DEF StampInv, Conserved, Stamps
  <2>2. t.offered \in Nat
    BY <1>1, BoundAssumption DEF Tunnel
  <2> QED BY <1>4, <2>1, <2>2
<1>6. t1.TxQueue = rest \union {new} /\ t1 \in Tunnel
  <2>1. t1.TxQueue = rest \union {new}
    BY <1>1 DEF WithFrame, Tunnel
  <2>2. gone \in SUBSET Droppable(t)
    BY GivenUpIsDroppable
  <2>3. ConnInv(c, t, delivered[c], net)
    BY DEF IInv
  <2> HIDE DEF t, gone, new
  <2>4. t1 \in Tunnel
    BY <1>1, <1>2, <1>4, <2>2, <2>3, FrameIsQueued
  <2> QED BY <2>1, <2>4
<1> HIDE DEF t, gone, new
<1>7. /\ IsFiniteSet(rest) /\ Cardinality(rest) \in Nat
      /\ Octets(rest) = Octets(t.TxQueue) - Octets(gone)
      /\ Octets(gone) \in Nat /\ Octets(t.TxQueue) \in Nat /\ Octets(rest) \in Nat
  BY <1>1, <1>3, QueueWithout
<1>8. Octets(rest \union {new}) = Octets(rest) + len
  <2>1. \A f \in rest : f.len \in Nat
    <3>1. IsFiniteSet(t.TxQueue)
      BY <1>1 DEF QueueInv
    <3> QED BY <1>1, <3>1, QueueOctets
  <2>2. new \notin rest /\ new.len \in Nat
    BY <1>1, <1>4, <1>5
  <2> HIDE DEF rest
  <2> QED BY <1>4, <1>7, <2>1, <2>2, OctetsWith
<1>9. Cardinality(rest \union {new}) <= QueueDepth /\ IsFiniteSet(rest \union {new})
  <2>1. ~(Cardinality(rest) >= QueueDepth)
    BY <1>2 DEF Full
  <2>2. new \notin rest
    BY <1>5
  <2> HIDE DEF rest
  <2>3. /\ IsFiniteSet(rest \union {new})
        /\ Cardinality(rest \union {new}) = Cardinality(rest) + 1
    BY <1>7, <2>2, FS_AddElement
  <2> QED BY <1>7, <2>1, <2>3, BudgetAssumption
<1>10. QueuedBytes' <= QueueBytes
  <2>1. ~(QueuedBytes - Octets(gone) + len > QueueBytes)
    BY <1>2 DEF Full
  <2> QED BY <1>1, <1>2, <1>7, <2>1
<1> HIDE DEF rest, t1
<1>11. /\ \A x \in Conns \ {c} : tun'[x] = tun[x]
       /\ tun'[c] = SendTunnelHead(t1)
  BY <1>1, <1>2 DEF TypeOK
<1>12. tun'[c].TxQueue = rest \union {new}
  <2>1. tun'[c] \in Tunnel
    BY DEF TypeOK
  <2> QED BY <1>6, <1>11, <2>1, HeadKeepsQueue
<1>13. QueueInv(tun'[c])
  BY <1>9, <1>12 DEF QueueInv
<1>14. QueuedBytes' = QueuedBytes - Octets(tun[c].TxQueue) + Octets(tun'[c].TxQueue)
  <2>1. Octets(tun'[c].TxQueue) = Octets(t.TxQueue) - Octets(gone) + len
    BY <1>7, <1>8, <1>12
  <2>2. Octets(tun[c].TxQueue) = Octets(t.TxQueue)
    BY DEF t
  <2> HIDE DEF Full
  <2> QED BY <1>1, <1>2, <1>7, <2>1, <2>2
<1> QED BY <1>1, <1>10, <1>11, <1>13, <1>14, BytesStep

(* sendFrameToTunnel, the frame lost: those given up are taken off.        *)
LEMMA FrameLostBytes ==
  ASSUME IInv, TypeOK', BytesInv, NEW c \in Conns, NEW len \in Lengths,
         FrameLost(c, len)
  PROVE  BytesInv'
<1> DEFINE t == tun[c]
           gone == GivenUp(t, len)
           rest == t.TxQueue \ gone
<1>1. /\ TypeOK /\ t \in Tunnel /\ QueueInv(t)
      /\ QueuedBytes \in Int /\ QueueBytes \in Int /\ QueuedBytes <= QueueBytes
  BY CounterType DEF IInv
<1>2. /\ \A x \in Conns \ {c} : tun'[x] = tun[x]
      /\ tun'[c].TxQueue = rest
      /\ QueuedBytes' = QueuedBytes - Octets(gone)
  BY <1>1 DEF FrameLost, TypeOK, Tunnel
<1>3. gone \in SUBSET t.TxQueue
  BY GivenUpIsDroppable DEF Droppable
<1> HIDE DEF t, gone
<1>4. /\ IsFiniteSet(rest) /\ Cardinality(rest) <= QueueDepth
      /\ Octets(rest) = Octets(t.TxQueue) - Octets(gone)
      /\ Octets(gone) \in Nat /\ Octets(t.TxQueue) \in Nat /\ Octets(rest) \in Nat
  BY <1>1, <1>3, QueueWithout
<1> HIDE DEF rest
<1>5. QueueInv(tun'[c])
  BY <1>2, <1>4 DEF QueueInv
<1>6. QueuedBytes' = QueuedBytes - Octets(tun[c].TxQueue) + Octets(tun'[c].TxQueue)
  BY <1>1, <1>2, <1>4 DEF t
<1>7. QueuedBytes' <= QueueBytes
  BY <1>1, <1>2, <1>4
<1> QED BY <1>1, <1>2, <1>5, <1>6, <1>7, BytesStep

(* TxClear takes off the octets of the whole queue.                        *)
LEMMA ResetBytes ==
  ASSUME TypeOK, TypeOK', BytesInv, NEW c \in Conns, Reset(c)
  PROVE  BytesInv'
<1>1. /\ \A x \in Conns \ {c} : tun'[x] = tun[x]
      /\ tun'[c] = FreeTunnel
      /\ QueuedBytes' = QueuedBytes - Octets(tun[c].TxQueue)
  BY DEF Reset, TypeOK
<1>2. /\ QueuedBytes \in Int /\ QueueBytes \in Int /\ QueuedBytes <= QueueBytes
      /\ Octets(tun[c].TxQueue) \in Nat
  BY CounterType
<1>3. QueuedBytes' = QueuedBytes - Octets(tun[c].TxQueue) + Octets(tun'[c].TxQueue)
  BY <1>1, <1>2, FreeTypes, OctetsOfNone
<1>4. QueuedBytes' <= QueueBytes /\ QueueInv(tun'[c])
  BY <1>1, <1>2, FreeTypes
<1> QED BY <1>1, <1>3, <1>4, BytesStep

(* A repeat leaves the queue alone, a closed channel clears it.            *)
LEMMA ResendOrCloseBytes ==
  ASSUME TypeOK, TypeOK', BytesInv, NEW c \in Conns, ResendOrCloseTunnel(c)
  PROVE  BytesInv'
<1>1. CASE Reset(c)
  BY <1>1, ResetBytes
<1>2. CASE tun' = [tun EXCEPT ![c].TxRepeats = @ + 1] /\ QueuedBytes' = QueuedBytes
  <2>1. /\ QueuedBytes \in Int /\ QueuedBytes <= QueueBytes /\ QueueInv(tun[c])
        /\ Octets(tun[c].TxQueue) \in Nat
    BY CounterType
  <2>2. tun'[c].TxQueue = tun[c].TxQueue /\ \A x \in Conns \ {c} : tun'[x] = tun[x]
    BY <1>2 DEF TypeOK, Tunnel
  <2>3. QueueInv(tun'[c])
    BY <2>1, <2>2 DEF QueueInv
  <2>4. QueuedBytes' = QueuedBytes - Octets(tun[c].TxQueue) + Octets(tun'[c].TxQueue)
    BY <1>2, <2>1, <2>2
  <2> QED BY <1>2, <2>1, <2>2, <2>3, <2>4, BytesStep
<1> QED BY <1>1, <1>2 DEF ResendOrCloseTunnel

(* loopHandleAck takes off the frame that leaves the queue.                *)
LEMMA AckBytes ==
  ASSUME IInv, TypeOK', BytesInv, NEW m \in net, AckReceived(m)
  PROVE  BytesInv'
<1> DEFINE c == m.conn
           t == tun[c]
           gone == {Oldest(t.TxQueue)}
           rest == t.TxQueue \ gone
           t1 == Acknowledged(t)
<1>1. m \in Ack /\ t.TxOnWire /\ c \in Conns
  BY DEF AckReceived, Stale, Ack
<1>2. /\ TypeOK /\ t \in Tunnel /\ QueueInv(t)
      /\ QueuedBytes \in Int /\ QueueBytes \in Int /\ QueuedBytes <= QueueBytes
      /\ ConnInv(c, t, delivered[c], net)
  BY <1>1, CounterType DEF IInv
<1>3. t.TxQueue # {} /\ t.TxQueue \in SUBSET Frame
  BY <1>1, <1>2 DEF ConnInv, Tunnel
<1>4. Oldest(t.TxQueue) \in t.TxQueue
  BY <1>3, OldestInQueue
<1>5. /\ tun' = [tun EXCEPT ![c] = SendTunnelHead(t1)]
      /\ QueuedBytes' = QueuedBytes - Oldest(t.TxQueue).len
  BY DEF AckReceived
<1>6. t1.TxQueue = rest /\ t1 \in Tunnel
  <2>1. t1.TxQueue = rest
    BY <1>2 DEF Acknowledged, Tunnel
  <2>2. m.ok /\ m.seq = t.TxSeq /\ t.open
    BY DEF AckReceived, Stale
  <2> HIDE DEF t
  <2>3. Len(delivered[c]) = t.sent /\ WireHead(t).n \in Del(delivered[c])
    BY <1>1, <1>2, <2>2, AckIsForHead
  <2>4. t1 \in Tunnel
    BY <1>1, <1>2, <2>2, <2>3, RequestIsAcknowledged
  <2> QED BY <2>1, <2>4
<1>7. Octets(gone) = Oldest(t.TxQueue).len
  <2>1. Oldest(t.TxQueue).len \in Nat
    BY <1>3, <1>4, LengthsAssumption DEF Frame
  <2> QED BY <2>1, OctetsOfOne
<1>8. gone \in SUBSET t.TxQueue
  BY <1>4
<1> HIDE DEF c, t, gone, t1
<1>9. /\ IsFiniteSet(rest) /\ Cardinality(rest) <= QueueDepth
      /\ Octets(rest) = Octets(t.TxQueue) - Octets(gone)
      /\ Octets(gone) \in Nat /\ Octets(t.TxQueue) \in Nat /\ Octets(rest) \in Nat
  BY <1>2, <1>8, QueueWithout
<1> HIDE DEF rest
<1>10. /\ \A x \in Conns \ {c} : tun'[x] = tun[x]
       /\ tun'[c] = SendTunnelHead(t1) /\ tun'[c] \in Tunnel
  BY <1>1, <1>2, <1>5 DEF TypeOK
<1>11. tun'[c].TxQueue = rest
  BY <1>6, <1>10, HeadKeepsQueue
<1>12. QueueInv(tun'[c])
  BY <1>9, <1>11 DEF QueueInv
<1>13. QueuedBytes' = QueuedBytes - Octets(tun[c].TxQueue) + Octets(tun'[c].TxQueue)
  BY <1>2, <1>5, <1>7, <1>9, <1>11 DEF t
<1>14. QueuedBytes' <= QueueBytes
  BY <1>2, <1>5, <1>7, <1>9
<1> QED BY <1>1, <1>2, <1>10, <1>12, <1>13, <1>14, BytesStep

(* Every step keeps the budget: the steps of the client and of the network *)
(* touch no queue.                                                         *)
LEMMA NextBytes == IInv /\ TypeOK' /\ BytesInv /\ [Next]_vars => BytesInv'
<1> SUFFICES ASSUME IInv, TypeOK', BytesInv, [Next]_vars PROVE BytesInv'
  OBVIOUS
<1>0. TypeOK
  BY DEF IInv
<1>1. CASE \E c \in Conns, config \in BOOLEAN : Connect(c, config)
  BY <1>1, ConnectBytes
<1>2. CASE \E c \in Conns : \E len \in Lengths, drop \in BOOLEAN :
             FrameQueued(c, len, drop)
  BY <1>2, FrameQueuedBytes
<1>3. CASE \E c \in Conns : \E len \in Lengths : FrameLost(c, len)
  BY <1>3, FrameLostBytes
<1>4. CASE \E c \in Conns : AckTimeout(c)
  BY <1>0, <1>4, ResendOrCloseBytes DEF AckTimeout
<1>5. CASE \E c \in Conns : CloseTunnel(c)
  BY <1>0, <1>5, ResetBytes DEF CloseTunnel
<1>6. CASE \E m \in net : AckReceived(m)
  BY <1>6, AckBytes
<1>7. CASE \E m \in net : NegativeAckReceived(m)
  BY <1>0, <1>7, ResendOrCloseBytes DEF NegativeAckReceived, Ack
<1>8. CASE UNCHANGED <<tun, QueuedBytes>>
  BY <1>8 DEF BytesInv
<1>9. CASE \E m \in net : \/ ClientAccepts(m) \/ ClientAcksRepeat(m)
                           \/ ClientRefuses(m) \/ Vanish(m)
  BY <1>8, <1>9 DEF ClientAccepts, ClientAcksRepeat, ClientRefuses, Vanish
<1>10. CASE UNCHANGED vars
  BY <1>8, <1>10 DEF vars
<1> QED BY <1>1, <1>2, <1>3, <1>4, <1>5, <1>6, <1>7, <1>9, <1>10 DEF Next

(* The counter of the budget follows every queue in every reachable state. *)
THEOREM BudgetInvariant == Spec => []BytesInv
<1>1. Init => BytesInv BY InitBytes
<1>2. IInv /\ IInv' /\ BytesInv /\ [Next]_vars => BytesInv'
  <2>1. IInv' => TypeOK' BY DEF IInv
  <2> QED BY <2>1, NextBytes
<1> QED BY <1>1, <1>2, Invariant, PTL DEF Spec

(* The octets counted are the octets queued, over all connections, and     *)
(* neither the budget nor the depth of a queue is exceeded                 *)
(* (sendFrameToTunnel, dropQueuedGroupTelegram, loopHandleAck, TxClear).   *)
THEOREM BudgetKept == Spec => []BytesAccounted
<1>1. BytesInv => BytesAccounted
  BY DEF BytesInv, QueueInv, Total, BytesAccounted
<1> QED BY <1>1, BudgetInvariant, PTL

=============================================================================
