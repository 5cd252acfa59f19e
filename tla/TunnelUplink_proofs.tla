------------------------- MODULE TunnelUplink_proofs -------------------------
(***************************************************************************)
(* TunnelUplink, for any number of sessions and addresses and any octet    *)
(* and lateness that LateAssumption allows: requests are executed once     *)
(* and in order, an acknowledged one was executed, messages reach only     *)
(* those they are for, and every telegram of an open tunnel is queued or   *)
(* was confirmed, once.                                                    *)
(***************************************************************************)
EXTENDS TunnelUplink, FiniteSetTheorems, TLAPS

-----------------------------------------------------------------------------
(* Arithmetic.                                                             *)

(* Quotient and remainder are unique.                                       *)
LEMMA ModIs ==
  ASSUME NEW c \in Nat, NEW M \in Nat, M > 1, NEW q \in Int, NEW r \in 0..M-1,
         c = M * q + r
  PROVE  c % M = r
<1> DEFINE p == c \div M  s == c % M
<1>1. c = M * p + s /\ s \in 0..M-1 /\ p \in Nat
  OBVIOUS
<1> HIDE DEF p, s
<1>3. s - r = M * (q - p)
  BY <1>1
<1>4. q = p
  <2>1. CASE q > p
    <3>1. M * (q-p) >= M BY <2>1, <1>1
    <3> QED BY <3>1, <1>3, <1>1
  <2>2. CASE q < p
    <3>1. M * (q-p) <= -M BY <2>2, <1>1
    <3> QED BY <3>1, <1>3, <1>1
  <2> QED BY <2>1, <2>2, <1>1
<1> QED BY <1>1, <1>3, <1>4 DEF s

(* Incrementing a wrapped counter wraps the incremented one.               *)
LEMMA ModStep ==
  ASSUME NEW a \in Nat, NEW M \in Nat, M > 1
  PROVE  ((a % M) + 1) % M = (a + 1) % M
<1> DEFINE q == a \div M  r == a % M
<1>1. a = M * q + r /\ r \in 0..M-1 /\ q \in Nat
  OBVIOUS
<1>2. (r+1) % M = (a+1) % M
  <2> HIDE DEF q, r
  <2>1. CASE r + 1 < M
     <3>1. r+1 \in 0..M-1 /\ a + 1 = M * q + (r+1)
       BY <1>1, <2>1
     <3>2. (a+1) % M = r+1
       BY <3>1, <1>1, ModIs
     <3>3. (r+1) % M = r + 1
       BY <3>1
     <3> QED BY <3>2, <3>3
  <2>2. CASE r + 1 = M
     <3>1. a + 1 = M * (q+1) + 0
       BY <1>1, <2>2
     <3>2. (a+1) % M = 0
       BY <3>1, <1>1, ModIs
     <3>3. (r+1) % M = 0
       BY <2>2
     <3> QED BY <3>2, <3>3
  <2> QED BY <1>1, <2>1, <2>2
<1> QED BY <1>2

(* Two counts less than M apart are told apart by their residues: what a   *)
(* sequence counter relies on.                                             *)
LEMMA ModUnique ==
  ASSUME NEW a \in Nat, NEW b \in Nat, NEW M \in Nat, M > 1,
         a % M = b % M, b <= a, a - b < M
  PROVE  a = b
<1> DEFINE q == a \div M  r == a % M  p == b \div M
<1>1. a = M * q + r /\ r \in 0..M-1 /\ q \in Nat
  OBVIOUS
<1>2. b = M * p + r /\ p \in Nat
  OBVIOUS
<1> HIDE DEF q, p, r
<1>3. a - b = M * (q - p)
  BY <1>1, <1>2
<1>4. q = p
  <2>1. CASE q > p
    <3>1. M * (q-p) >= M BY <2>1, <1>1, <1>2
    <3> QED BY <3>1, <1>3
  <2>2. CASE q < p
    <3>1. M * (q-p) <= -M BY <2>2, <1>1, <1>2
    <3> QED BY <3>1, <1>3
  <2> QED BY <2>1, <2>2, <1>1, <1>2
<1> QED BY <1>1, <1>2, <1>4

-----------------------------------------------------------------------------
(* The octet.                                                              *)

LEMMA OctetType ==
  ASSUME NEW n \in Nat
  PROVE  Octet(n) \in Seq8
BY SeqModAssumption DEF Octet, Seq8

LEMMA FirstOctet == Octet(0) = FirstReceived
<1>1. 0 + SeqMod - 1 \in Nat /\ 0 + SeqMod - 1 = SeqMod * 0 + (SeqMod - 1)
  BY SeqModAssumption
<1>2. (0 + SeqMod - 1) % SeqMod = SeqMod - 1
  BY <1>1, ModIs, SeqModAssumption
<1> QED BY <1>2 DEF Octet, FirstReceived

(* (uint8_t)(sequence - 1) is the octet before.                            *)
LEMMA OctetBefore ==
  ASSUME NEW n \in Nat \ {0}
  PROVE  (Octet(n) - 1) % SeqMod = Octet(n - 1)
<1> DEFINE r == Octet(n - 1)
<1>1. r \in 0 .. SeqMod - 1
  BY OctetType DEF Seq8
<1>2. n - 1 + SeqMod - 1 \in Nat /\ n - 1 + SeqMod - 1 + 1 = n + SeqMod - 1
  BY SeqModAssumption
<1>3. Octet(n) = (r + 1) % SeqMod
  BY <1>2, ModStep, SeqModAssumption DEF Octet
<1> HIDE DEF r
<1>4. CASE r + 1 < SeqMod
  <2>1. (r + 1) % SeqMod = r + 1 BY <1>1, <1>4, SeqModAssumption
  <2>2. (Octet(n) - 1) % SeqMod = r % SeqMod BY <2>1, <1>3, <1>1
  <2>3. r % SeqMod = r BY <1>1, SeqModAssumption
  <2> QED BY <2>2, <2>3 DEF r
<1>5. CASE r + 1 = SeqMod
  <2>1. (r + 1) % SeqMod = 0 BY <1>5, SeqModAssumption
  <2>2. (0 - 1) % SeqMod = SeqMod - 1 BY SeqModAssumption
  <2> QED BY <2>1, <2>2, <1>3, <1>5, <1>1, SeqModAssumption DEF r
<1> QED BY <1>1, <1>4, <1>5, SeqModAssumption

(* Numbers less than SeqMod apart have different octets.                   *)
LEMMA OctetUnique ==
  ASSUME NEW a \in Nat, NEW b \in Nat, Octet(a) = Octet(b),
         a - b < SeqMod, b - a < SeqMod
  PROVE  a = b
<1>1. a + SeqMod - 1 \in Nat /\ b + SeqMod - 1 \in Nat
  BY SeqModAssumption
<1>2. CASE b <= a
  <2>1. b + SeqMod - 1 <= a + SeqMod - 1
        /\ (a + SeqMod - 1) - (b + SeqMod - 1) < SeqMod
    BY <1>2, SeqModAssumption
  <2>2. a + SeqMod - 1 = b + SeqMod - 1
    BY <1>1, <2>1, ModUnique, SeqModAssumption DEF Octet
  <2> QED BY <2>2, SeqModAssumption
<1>3. CASE a <= b
  <2>1. a + SeqMod - 1 <= b + SeqMod - 1
        /\ (b + SeqMod - 1) - (a + SeqMod - 1) < SeqMod
    BY <1>3, SeqModAssumption
  <2>2. b + SeqMod - 1 = a + SeqMod - 1
    BY <1>1, <2>1, ModUnique, SeqModAssumption DEF Octet
  <2> QED BY <2>2, SeqModAssumption
<1> QED BY <1>2, <1>3

-----------------------------------------------------------------------------
(* The inductive invariant.                                                *)

(* Sessions are opened in order; addresses are those of the pool and each  *)
(* is one open tunnel's.                                                   *)
ConnInv ==
  /\ \A s, t \in Sessions : s < t /\ conn[s].state = "new" => conn[t].state = "new"
  /\ \A s \in Tunnels : conn[s].IndividualAddress \in Addresses
  /\ \A s, t \in Tunnels :
       conn[s].IndividualAddress = conn[t].IndividualAddress => s = t
  /\ \A s \in Sessions :
       conn[s].IsConfig \/ ~Open(s) => conn[s].IndividualAddress = NoAddress
  /\ \A s \in Sessions : conn[s].state = "new" => ~conn[s].IsConfig

(* The server has executed the client's requests up to the current one or  *)
(* up to the one before, and its octet is that of the last.                *)
CountInv ==
  \A s \in Sessions :
    /\ conn[s].SequenceCounter_R = Octet(Len(taken[s]))
    /\ \A i \in 1 .. Len(taken[s]) : taken[s][i] = i
    /\ Len(taken[s]) <= client[s].n
    /\ client[s].n <= Len(taken[s]) + 1
    /\ client[s].waiting \/ Len(taken[s]) = client[s].n
    /\ client[s].waiting => 1 <= client[s].n
    /\ conn[s].state = "new" => client[s].n = 0

(* No datagram is from the future or too late; what is acknowledged was    *)
(* executed.                                                               *)
NetInv ==
  \A d \in net :
    /\ 1 <= d.n /\ d.n <= client[d.s].n
    /\ client[d.s].n <= d.n + MaxLate
    /\ d.type = "ack" => d.n <= Len(taken[d.s])

(* A queued frame has the address of its session, or that session is gone  *)
(* and who has the address now came later.                                 *)
FrameOf(f) ==
  /\ conn[f.s].state # "new" /\ ~conn[f.s].IsConfig
  /\ Open(f.s) => conn[f.s].IndividualAddress = f.source
  /\ \A t \in Holders(f.source) :
       t = f.s \/ (f.s < t /\ conn[f.s].state = "closed")

FrameInv == \A i \in DOMAIN line : FrameOf(line[i])

(* m may be in the inbox of s.                                             *)
MessageFor(s, m) ==
  /\ conn[s].state # "new" /\ conn[m.s].state # "new"
  /\ m.kind = "answer" => m.s = s
  /\ m.kind # "answer" => ~conn[s].IsConfig /\ ~conn[m.s].IsConfig
  /\ m.kind = "ind" => m.s # s
  /\ m.kind = "con" => m.s = s \/ (m.s < s /\ conn[m.s].state = "closed")

MessageInv ==
  \A s \in Sessions : \A i \in DOMAIN inbox[s] : MessageFor(s, inbox[s][i])

IInv == TypeOK /\ ConnInv /\ CountInv /\ NetInv /\ FrameInv /\ MessageInv

-----------------------------------------------------------------------------
(* Inboxes.                                                                *)

Boxes == [Sessions -> Seq(Message)]

(* A message is put at the end of some inboxes and nothing else changes.   *)
LEMMA PutMessages ==
  ASSUME NEW boxes \in Boxes, NEW to, NEW m \in Message
  PROVE  /\ Put(boxes, to, m) \in Boxes
         /\ \A s \in Sessions : \A i \in DOMAIN Put(boxes, to, m)[s] :
              \/ i \in DOMAIN boxes[s] /\ Put(boxes, to, m)[s][i] = boxes[s][i]
              \/ s \in to /\ Put(boxes, to, m)[s][i] = m
<1>1. ASSUME NEW s \in Sessions
      PROVE  Put(boxes, to, m)[s] = IF s \in to THEN Append(boxes[s], m) ELSE boxes[s]
  BY <1>1 DEF Put
<1>2. ASSUME NEW s \in Sessions PROVE boxes[s] \in Seq(Message)
  BY <1>2 DEF Boxes
<1>3. Put(boxes, to, m) \in Boxes
  <2>1. ASSUME NEW s \in Sessions
        PROVE  (IF s \in to THEN Append(boxes[s], m) ELSE boxes[s]) \in Seq(Message)
    BY <1>2
  <2> QED BY <2>1 DEF Put, Boxes
<1>4. ASSUME NEW s \in Sessions, NEW i \in DOMAIN Put(boxes, to, m)[s]
      PROVE  \/ i \in DOMAIN boxes[s] /\ Put(boxes, to, m)[s][i] = boxes[s][i]
             \/ s \in to /\ Put(boxes, to, m)[s][i] = m
  <2>1. CASE s \notin to
    BY <1>1, <2>1
  <2>2. CASE s \in to
    <3>1. Put(boxes, to, m)[s] = Append(boxes[s], m)
      BY <1>1, <2>2
    <3>2. i \in 1 .. Len(boxes[s]) + 1 /\ DOMAIN boxes[s] = 1 .. Len(boxes[s])
          /\ Len(boxes[s]) \in Nat
      BY <3>1, <1>2, <1>4
    <3> QED BY <3>1, <3>2, <1>2, <2>2
  <2> QED BY <2>1, <2>2
<1> QED BY <1>3, <1>4

(* All of them in the inboxes of a step may be there if the old ones and   *)
(* the new one may.                                                        *)
LEMMA PutFor ==
  ASSUME NEW boxes \in Boxes, NEW to, NEW m \in Message,
         \A s \in Sessions : \A i \in DOMAIN boxes[s] : MessageFor(s, boxes[s][i]),
         \A s \in Sessions : s \in to => MessageFor(s, m)
  PROVE  \A s \in Sessions : \A i \in DOMAIN Put(boxes, to, m)[s] :
           MessageFor(s, Put(boxes, to, m)[s][i])
BY PutMessages

LEMMA HoldersAreTunnels ==
  ASSUME NEW a
  PROVE  Holders(a) \subseteq Tunnels /\ Tunnels \subseteq Sessions
BY DEF Holders, Tunnels

(* An open tunnel is the only holder of its address.                       *)
LEMMA OneHolder ==
  ASSUME ConnInv, NEW s \in Tunnels
  PROVE  Holders(conn[s].IndividualAddress) = {s}
BY DEF ConnInv, Holders

(* The con of a frame, the indication of one whose tunnel is open, and     *)
(* this device's answer to it are for those that get them.                 *)
LEMMA ConfirmedFor ==
  ASSUME TypeOK, NEW boxes \in Boxes,
         \A s \in Sessions : \A i \in DOMAIN boxes[s] : MessageFor(s, boxes[s][i]),
         NEW f \in Frame,
         conn[f.s].state # "new", ~conn[f.s].IsConfig,
         \A t \in Holders(f.source) :
           t = f.s \/ (f.s < t /\ conn[f.s].state = "closed")
  PROVE  /\ Confirmed(boxes, f) \in Boxes
         /\ \A s \in Sessions : \A i \in DOMAIN Confirmed(boxes, f)[s] :
              MessageFor(s, Confirmed(boxes, f)[s][i])
<1> DEFINE m == MessageOf("con", f)
<1>1. m \in Message /\ m.kind = "con" /\ m.s = f.s
  BY DEF MessageOf, Message, Frame
<1>2. ASSUME NEW s \in Sessions, s \in Holders(f.source) PROVE MessageFor(s, m)
  <2>1. conn[s].state = "open" /\ ~conn[s].IsConfig
    BY <1>2 DEF Holders, Tunnels, Open
  <2> QED BY <1>1, <1>2, <2>1 DEF MessageFor
<1> HIDE DEF m
<1>3. Put(boxes, Holders(f.source), m) \in Boxes
  BY <1>1, PutMessages
<1>4. \A s \in Sessions : \A i \in DOMAIN Put(boxes, Holders(f.source), m)[s] :
        MessageFor(s, Put(boxes, Holders(f.source), m)[s][i])
  BY <1>1, <1>2, PutFor
<1> QED BY <1>3, <1>4 DEF Confirmed, m

LEMMA IndicatedFor ==
  ASSUME TypeOK, NEW boxes \in Boxes,
         \A s \in Sessions : \A i \in DOMAIN boxes[s] : MessageFor(s, boxes[s][i]),
         NEW f \in Frame, f.s \in Tunnels,
         conn[f.s].IndividualAddress = f.source
  PROVE  /\ Indicated(boxes, f) \in Boxes
         /\ \A s \in Sessions : \A i \in DOMAIN Indicated(boxes, f)[s] :
              MessageFor(s, Indicated(boxes, f)[s][i])
<1> DEFINE m == MessageOf("ind", f)
<1>1. m \in Message /\ m.kind = "ind" /\ m.s = f.s
  BY DEF MessageOf, Message, Frame
<1>2. ASSUME NEW s \in Sessions, s \in Hearers(f) PROVE MessageFor(s, m)
  <2>1. conn[s].state = "open" /\ ~conn[s].IsConfig /\ s # f.s
    BY <1>2 DEF Hearers, Tunnels, Open
  <2>2. conn[f.s].state = "open" /\ ~conn[f.s].IsConfig
    BY DEF Tunnels, Open
  <2> QED BY <1>1, <2>1, <2>2 DEF MessageFor
<1> HIDE DEF m
<1>3. Put(boxes, Hearers(f), m) \in Boxes
  BY <1>1, PutMessages
<1>4. \A s \in Sessions : \A i \in DOMAIN Put(boxes, Hearers(f), m)[s] :
        MessageFor(s, Put(boxes, Hearers(f), m)[s][i])
  BY <1>1, <1>2, PutFor
<1> QED BY <1>3, <1>4 DEF Indicated, m

(* An answer goes to the session it answers: by the channel or, for a      *)
(* telegram, by the address.                                               *)
LEMMA AnswerFor ==
  ASSUME TypeOK, NEW boxes \in Boxes,
         \A s \in Sessions : \A i \in DOMAIN boxes[s] : MessageFor(s, boxes[s][i]),
         NEW s0 \in Sessions, Open(s0), NEW m \in Message,
         m.kind = "answer", m.s = s0
  PROVE  /\ Put(boxes, {s0}, m) \in Boxes
         /\ \A s \in Sessions : \A i \in DOMAIN Put(boxes, {s0}, m)[s] :
              MessageFor(s, Put(boxes, {s0}, m)[s][i])
<1>1. \A s \in Sessions : s \in {s0} => MessageFor(s, m)
  BY DEF MessageFor, Open
<1> QED BY <1>1, PutMessages, PutFor

-----------------------------------------------------------------------------
(* The initial state and the steps.                                        *)

LEMMA InitInv == Init => IInv
<1> SUFFICES ASSUME Init PROVE IInv
  OBVIOUS
<1>1. FirstReceived \in Seq8 /\ Octet(0) = FirstReceived
  BY SeqModAssumption, FirstOctet DEF FirstReceived, Seq8
<1>2. TypeOK
  <2>1. conn \in [Sessions -> Connection]
    BY <1>1 DEF Init, Connection
  <2>2. client \in [Sessions -> Client]
    BY DEF Init, Client, Service, Destination
  <2>3. <<>> \in Seq(Nat) /\ <<>> \in Seq(Message) /\ <<>> \in Seq(Frame)
    OBVIOUS
  <2>4. taken \in [Sessions -> Seq(Nat)] /\ inbox \in [Sessions -> Seq(Message)]
    BY <2>3 DEF Init
  <2> QED BY <2>1, <2>2, <2>3, <2>4 DEF Init, TypeOK
<1>3. Tunnels = {}
  BY DEF Init, Tunnels, Open
<1>4. ConnInv
  BY <1>3 DEF Init, ConnInv
<1>5. CountInv
  BY <1>1 DEF Init, CountInv
<1>6. NetInv /\ FrameInv /\ MessageInv
  BY DEF Init, NetInv, FrameInv, MessageInv
<1> QED BY <1>2, <1>4, <1>5, <1>6 DEF IInv

(* A step that changes no connection's state, type or address.             *)
LEMMA SameConnections ==
  ASSUME \A s \in Sessions :
           /\ conn'[s].state = conn[s].state
           /\ conn'[s].IsConfig = conn[s].IsConfig
           /\ conn'[s].IndividualAddress = conn[s].IndividualAddress
  PROVE  /\ Tunnels' = Tunnels
         /\ \A a : Holders(a)' = Holders(a)
         /\ ConnInv => ConnInv'
<1>1. Tunnels' = Tunnels
  BY DEF Tunnels, Open
<1>2. \A a : Holders(a)' = Holders(a)
  BY <1>1 DEF Holders, Tunnels
<1>3. ConnInv => ConnInv'
  <2> SUFFICES ASSUME ConnInv PROVE ConnInv'
    OBVIOUS
  <2>1. \A s \in Sessions : Open(s)' = Open(s)
    BY DEF Open
  <2> QED BY <1>1, <2>1 DEF ConnInv, Tunnels
<1> QED BY <1>1, <1>2, <1>3

(* What holds of a message or a frame still holds after such a step.       *)
LEMMA SameFor ==
  ASSUME \A s \in Sessions :
           /\ conn'[s].state = conn[s].state
           /\ conn'[s].IsConfig = conn[s].IsConfig
           /\ conn'[s].IndividualAddress = conn[s].IndividualAddress
  PROVE  /\ \A s \in Sessions : \A m \in Message :
              MessageFor(s, m) => MessageFor(s, m)'
         /\ \A f \in Frame : FrameOf(f) => FrameOf(f)'
<1>1. ASSUME NEW s \in Sessions, NEW m \in Message, MessageFor(s, m)
      PROVE  MessageFor(s, m)'
  <2>1. m.s \in Sessions BY DEF Message
  <2> QED BY <1>1, <2>1 DEF MessageFor
<1>2. ASSUME NEW f \in Frame, FrameOf(f) PROVE FrameOf(f)'
  <2>1. f.s \in Sessions BY DEF Frame
  <2>2. Holders(f.source)' = Holders(f.source) BY SameConnections
  <2> QED BY <1>2, <2>1, <2>2 DEF FrameOf, Open
<1> QED BY <1>1, <1>2

(* Executing a request leaves frames and messages that may be there.       *)
LEMMA ExecuteInv ==
  ASSUME IInv, NEW d \in net, d.type = "request", Open(d.s), Execute(d)
  PROVE  /\ line' \in Seq(Frame) /\ inbox' \in Boxes
         /\ \A i \in DOMAIN line' : FrameOf(line'[i])
         /\ \A s \in Sessions : \A i \in DOMAIN inbox'[s] : MessageFor(s, inbox'[s][i])
<1> USE DEF IInv
<1>1. d.s \in Sessions /\ d.n \in Nat /\ d.to \in Service
  BY DEF TypeOK, Request, Ack
<1>2. /\ line \in Seq(Frame) /\ inbox \in Boxes
      /\ \A i \in DOMAIN line : FrameOf(line[i])
      /\ \A s \in Sessions : \A i \in DOMAIN inbox[s] : MessageFor(s, inbox[s][i])
  BY DEF TypeOK, Boxes, FrameInv, MessageInv
<1>3. CASE Ignored(d)
  BY <1>2, <1>3 DEF Execute
<1>4. CASE ~Ignored(d) /\ d.to = "management"
  <2>1. inbox' = Put(inbox, {d.s}, MessageOf("answer", d)) /\ line' = line
    BY <1>4 DEF Execute
  <2> DEFINE m == MessageOf("answer", d)
  <2>2. m \in Message /\ m.kind = "answer" /\ m.s = d.s
    BY <1>1 DEF MessageOf, Message
  <2>3. inbox' = Put(inbox, {d.s}, m)
    BY <2>1
  <2> HIDE DEF m
  <2>4. /\ Put(inbox, {d.s}, m) \in Boxes
        /\ \A s \in Sessions : \A i \in DOMAIN Put(inbox, {d.s}, m)[s] :
             MessageFor(s, Put(inbox, {d.s}, m)[s][i])
    BY <1>1, <1>2, <2>2, AnswerFor
  <2> QED BY <1>2, <2>1, <2>3, <2>4
<1>5. CASE ~Ignored(d) /\ d.to # "management"
  <2> DEFINE f == [s |-> d.s, n |-> d.n, to |-> d.to,
                   source |-> conn[d.s].IndividualAddress]
  <2>1. d.s \in Tunnels
    BY <1>1, <1>5 DEF Ignored, Tunnels
  <2>2. conn[d.s].IndividualAddress \in Addresses
    BY <2>1 DEF ConnInv
  <2>3. /\ f \in Frame /\ f.s = d.s /\ f.source = conn[d.s].IndividualAddress
        /\ f.s \in Tunnels /\ conn[f.s].IndividualAddress = f.source
    BY <1>1, <1>5, <2>1, <2>2 DEF Frame, Service
  <2>4. DataRequestFromTunnel(f)
    BY <1>5 DEF Execute
  <2> HIDE DEF f
  <2>5. conn[f.s].state = "open" /\ ~conn[f.s].IsConfig /\ f.s \in Sessions
    BY <2>3 DEF Tunnels, Open
  <2>6. Holders(f.source) = {f.s}
    BY <2>3, OneHolder
  <2>7. FrameOf(f)
    BY <2>3, <2>5, <2>6 DEF FrameOf
  <2> DEFINE Good(b) ==
        /\ b \in Boxes
        /\ \A s \in Sessions : \A i \in DOMAIN b[s] : MessageFor(s, b[s][i])
  <2>8. ASSUME NEW b, Good(b) PROVE Good(Confirmed(b, f))
    BY <2>3, <2>5, <2>6, <2>8, ConfirmedFor
  <2>9. ASSUME NEW b, Good(b) PROVE Good(Indicated(b, f))
    BY <2>3, <2>9, IndicatedFor
  <2>10. ASSUME NEW b, Good(b) PROVE \A c \in Answered(b, f) : Good(c)
    <3> DEFINE m == MessageOf("answer", f)
    <3>1. m \in Message /\ m.kind = "answer" /\ m.s = f.s
      BY <2>3 DEF MessageOf, Message, Frame
    <3>2. Open(f.s) BY <2>5 DEF Open
    <3>3. Answered(b, f) = {b, Put(b, {f.s}, m)}
      BY <2>6 DEF Answered
    <3> HIDE DEF m
    <3>4. Good(Put(b, {f.s}, m))
      BY <2>5, <2>10, <3>1, <3>2, AnswerFor
    <3> QED BY <2>10, <3>3, <3>4
  <2>11. Good(inbox)
    BY <1>2
  <2>12. Good(inbox') /\ (line' = line \/ line' = Append(line, f))
    <3> HIDE DEF Good
    <3>1. CASE f.to = "self"
      BY <3>1, <2>4, <2>8, <2>9, <2>10, <2>11 DEF DataRequestFromTunnel, Local
    <3>2. CASE f.to # "self"
      BY <3>2, <2>4, <2>8, <2>9, <2>11 DEF DataRequestFromTunnel
    <3> QED BY <3>1, <3>2
  <2>13. line' \in Seq(Frame) /\ \A i \in DOMAIN line' : FrameOf(line'[i])
    <3>1. CASE line' = line
      BY <3>1, <1>2
    <3>2. CASE line' = Append(line, f)
      <4>1. line' \in Seq(Frame) /\ DOMAIN line' = 1 .. Len(line) + 1
            /\ DOMAIN line = 1 .. Len(line) /\ Len(line) \in Nat
        BY <3>2, <1>2, <2>3
      <4>2. \A i \in 1 .. Len(line) : line'[i] = line[i]
        BY <3>2, <1>2, <2>3
      <4>3. line'[Len(line) + 1] = f
        BY <3>2, <1>2, <2>3
      <4> QED BY <1>2, <2>7, <4>1, <4>2, <4>3
    <3> QED BY <2>12, <3>1, <3>2
  <2> QED BY <2>12, <2>13
<1> QED BY <1>3, <1>4, <1>5

-----------------------------------------------------------------------------
(* The steps.                                                              *)

LEMMA ConnectStep ==
  ASSUME IInv, NEW s \in Sessions, Connect(s)
  PROVE  IInv'
<1> USE DEF IInv
<1>1. /\ conn[s].state = "new"
      /\ \A t \in Sessions : t < s => conn[t].state # "new"
      /\ UNCHANGED <<client, net, taken, line, inbox>>
  BY DEF Connect
<1>2. PICK isConfig \in BOOLEAN, address \in Addresses \union {NoAddress} :
        /\ conn' = [conn EXCEPT ![s] = Connected(isConfig, address)]
        /\ isConfig => address = NoAddress
        /\ ~isConfig => address \in Addresses /\ Holders(address) = {}
  BY DEF Connect, Free
<1>3. conn \in [Sessions -> Connection]
  BY DEF TypeOK
<1>4. /\ conn'[s] = Connected(isConfig, address)
      /\ \A t \in Sessions \ {s} : conn'[t] = conn[t]
  BY <1>2, <1>3
<1>5. /\ conn'[s].state = "open" /\ conn'[s].IsConfig = isConfig
      /\ conn'[s].IndividualAddress = address
      /\ conn'[s].SequenceCounter_R = FirstReceived
  BY <1>4 DEF Connected
<1>6. \A t \in Sessions : t \in Tunnels' <=> (IF t = s THEN ~isConfig ELSE t \in Tunnels)
  BY <1>4, <1>5 DEF Tunnels, Open
<1>7. TypeOK'
  <2>1. FirstReceived \in Seq8
    BY SeqModAssumption DEF FirstReceived, Seq8
  <2>2. Connected(isConfig, address) \in Connection
    BY <2>1 DEF Connected, Connection
  <2> QED BY <1>1, <1>2, <2>2 DEF TypeOK
<1>8. ConnInv'
  <2>1. s \notin Tunnels
    BY <1>1 DEF Tunnels, Open
  <2>2. \A t, u \in Sessions : t < u /\ conn'[t].state = "new" => conn'[u].state = "new"
    <3> SUFFICES ASSUME NEW t \in Sessions, NEW u \in Sessions, t < u,
                        conn'[t].state = "new"
                 PROVE  conn'[u].state = "new"
      OBVIOUS
    <3>1. t # s /\ conn[t].state = "new"
      BY <1>4, <1>5
    <3>2. u # s
      BY <1>1, <3>1
    <3> QED BY <1>4, <3>1, <3>2 DEF ConnInv
  <2>3. \A t \in Tunnels' : conn'[t].IndividualAddress \in Addresses
    <3>1. Tunnels' \subseteq Sessions BY DEF Tunnels
    <3> QED BY <1>2, <1>4, <1>5, <1>6, <3>1 DEF ConnInv
  <2>4. \A t, u \in Tunnels' :
          conn'[t].IndividualAddress = conn'[u].IndividualAddress => t = u
    <3>1. Tunnels' \subseteq Sessions BY DEF Tunnels
    <3>2. \A t \in Tunnels' \ {s} :
            t \in Tunnels /\ conn'[t].IndividualAddress = conn[t].IndividualAddress
      BY <3>1, <1>4, <1>6
    <3>3. s \in Tunnels' => \A t \in Tunnels : conn[t].IndividualAddress # address
      BY <1>2, <1>6 DEF Holders
    <3> QED BY <1>5, <3>1, <3>2, <3>3 DEF ConnInv
  <2>5. \A t \in Sessions :
          conn'[t].IsConfig \/ ~Open(t)' => conn'[t].IndividualAddress = NoAddress
    BY <1>2, <1>4, <1>5 DEF ConnInv, Open
  <2>6. \A t \in Sessions : conn'[t].state = "new" => ~conn'[t].IsConfig
    BY <1>4, <1>5 DEF ConnInv
  <2> QED BY <2>2, <2>3, <2>4, <2>5, <2>6 DEF ConnInv
<1>9. CountInv'
  <2>1. Len(taken[s]) \in Nat /\ client[s].n \in Nat
    BY DEF TypeOK, Client
  <2>2. Len(taken[s]) = 0
    BY <1>1, <2>1 DEF CountInv
  <2>3. conn'[s].SequenceCounter_R = Octet(Len(taken[s]))
    BY <1>5, <2>2, FirstOctet
  <2> QED BY <1>1, <1>4, <1>5, <2>3 DEF CountInv
<1>10. NetInv'
  BY <1>1 DEF NetInv
<1>11. FrameInv'
  <2> SUFFICES ASSUME NEW f \in Frame, FrameOf(f) PROVE FrameOf(f)'
    BY <1>1 DEF FrameInv, TypeOK
  <2>1. f.s \in Sessions
    BY DEF Frame
  <2>2. f.s # s
    BY <1>1, <2>1 DEF FrameOf
  <2>3. ASSUME NEW t \in Holders(f.source)'
        PROVE  t = f.s \/ (f.s < t /\ conn[f.s].state = "closed")
    <3>1. t \in Sessions /\ t \in Tunnels'
      BY DEF Holders, Tunnels
    <3>2. CASE t # s
      <4>1. t \in Holders(f.source)
        BY <1>4, <1>6, <3>1, <3>2 DEF Holders
      <4> QED BY <2>1, <4>1 DEF FrameOf
    <3>3. CASE t = s
      <4>1. ~isConfig /\ f.source = address /\ Holders(f.source) = {}
        BY <1>2, <1>5, <1>6, <3>1, <3>3 DEF Holders
      <4>2. ~Open(f.s)
        BY <2>1, <4>1 DEF FrameOf, Holders, Tunnels
      <4>3. conn[f.s].state = "closed"
        BY <2>1, <4>2 DEF FrameOf, Open, TypeOK, Connection
      <4>4. f.s < s
        <5>1. f.s \in Nat /\ s \in Nat BY <2>1, SessionAssumption
        <5>2. ~(s < f.s)
          BY <1>1, <2>1, <4>3 DEF ConnInv
        <5> QED BY <5>1, <5>2, <2>2
      <4> QED BY <3>3, <4>3, <4>4
    <3> QED BY <3>2, <3>3
  <2> QED
    BY <1>1, <1>4, <2>1, <2>2, <2>3 DEF FrameOf, Open
<1>12. MessageInv'
  <2> SUFFICES ASSUME NEW t \in Sessions, NEW m \in Message, MessageFor(t, m)
               PROVE  MessageFor(t, m)'
    BY <1>1 DEF MessageInv, TypeOK
  <2>1. m.s \in Sessions
    BY DEF Message
  <2>2. t # s /\ m.s # s
    BY <1>1, <2>1 DEF MessageFor
  <2> QED
    BY <1>4, <2>1, <2>2 DEF MessageFor
<1> QED BY <1>7, <1>8, <1>9, <1>10, <1>11, <1>12

LEMMA CloseStep ==
  ASSUME IInv, NEW s \in Sessions, Close(s)
  PROVE  IInv'
<1> USE DEF IInv
<1>1. /\ conn[s].state = "open"
      /\ UNCHANGED <<client, net, taken, line, inbox>>
  BY DEF Close, Open
<1>2. conn \in [Sessions -> Connection]
  BY DEF TypeOK
<1>3. conn' = [conn EXCEPT ![s] = [conn[s] EXCEPT !.state = "closed",
                                                 !.IndividualAddress = NoAddress]]
  BY <1>2 DEF Close
<1>4. /\ conn' \in [Sessions -> Connection]
      /\ conn'[s].state = "closed"
      /\ conn'[s].IndividualAddress = NoAddress
      /\ \A t \in Sessions : /\ conn'[t].IsConfig = conn[t].IsConfig
                             /\ conn'[t].SequenceCounter_R = conn[t].SequenceCounter_R
      /\ \A t \in Sessions \ {s} : conn'[t] = conn[t]
  BY <1>2, <1>3 DEF Connection
<1>5. TypeOK'
  BY <1>1, <1>4 DEF TypeOK
<1>6. Tunnels' = Tunnels \ {s}
  BY <1>4 DEF Tunnels, Open
<1>7. ConnInv'
  <2>1. \A t, u \in Sessions : t < u /\ conn'[t].state = "new" => conn'[u].state = "new"
    BY <1>1, <1>4 DEF ConnInv
  <2>2. \A t \in Tunnels' : t \in Tunnels /\ t \in Sessions /\ conn'[t] = conn[t]
    BY <1>4, <1>6 DEF Tunnels
  <2>3. \A t \in Sessions :
          conn'[t].IsConfig \/ ~Open(t)' => conn'[t].IndividualAddress = NoAddress
    BY <1>4 DEF ConnInv, Open
  <2>4. \A t \in Sessions : conn'[t].state = "new" => ~conn'[t].IsConfig
    BY <1>1, <1>4 DEF ConnInv
  <2> QED BY <2>1, <2>2, <2>3, <2>4 DEF ConnInv
<1>8. CountInv'
  BY <1>1, <1>4 DEF CountInv
<1>9. NetInv'
  BY <1>1 DEF NetInv
<1>10. FrameInv'
  <2> SUFFICES ASSUME NEW f \in Frame, FrameOf(f) PROVE FrameOf(f)'
    BY <1>1 DEF FrameInv, TypeOK
  <2>1. f.s \in Sessions
    BY DEF Frame
  <2>2. \A t \in Holders(f.source)' : t \in Holders(f.source)
    BY <1>4, <1>6 DEF Holders, Tunnels
  <2>3. conn'[f.s].state # "new" /\ (conn[f.s].state = "closed" => conn'[f.s].state = "closed")
    BY <1>1, <1>4, <2>1 DEF FrameOf
  <2>4. Open(f.s)' => conn'[f.s].IndividualAddress = f.source
    BY <1>4, <2>1 DEF FrameOf, Open
  <2> QED
    BY <1>4, <2>1, <2>2, <2>3, <2>4 DEF FrameOf
<1>11. MessageInv'
  <2> SUFFICES ASSUME NEW t \in Sessions, NEW m \in Message, MessageFor(t, m)
               PROVE  MessageFor(t, m)'
    BY <1>1 DEF MessageInv, TypeOK
  <2>1. m.s \in Sessions
    BY DEF Message
  <2>2. \A u \in Sessions : /\ conn[u].state # "new" => conn'[u].state # "new"
                            /\ conn[u].state = "closed" => conn'[u].state = "closed"
    BY <1>1, <1>4
  <2> QED
    BY <1>4, <2>1, <2>2 DEF MessageFor
<1> QED BY <1>5, <1>7, <1>8, <1>9, <1>10, <1>11

(* The client's and the network's steps leave the connections alone.       *)
LEMMA ClientStep ==
  ASSUME IInv, NEW s \in Sessions,
         ClientRequests(s) \/ ClientRepeats(s) \/ ClientAcknowledged(s) \/ Vanish
  PROVE  IInv'
<1> USE DEF IInv
<1>1. UNCHANGED <<conn, taken, line, inbox>>
  BY DEF ClientRequests, ClientRepeats, ClientAcknowledged, Vanish
<1>2. ConnInv' /\ FrameInv' /\ MessageInv'
  BY <1>1 DEF ConnInv, FrameInv, FrameOf, MessageInv, MessageFor, Tunnels, Open, Holders
<1>3. /\ client \in [Sessions -> Client]
      /\ \A t \in Sessions : client[t].n \in Nat /\ Len(taken[t]) \in Nat
      /\ \A d \in net : d.s \in Sessions /\ d.n \in Nat
  BY DEF TypeOK, Client, Request, Ack
<1>4. SUFFICES TypeOK' /\ CountInv' /\ NetInv'
  BY <1>2
<1>5. CASE ClientRequests(s)
  <2>1. PICK to \in Services[s] :
          client' = [client EXCEPT ![s] = [n |-> client[s].n + 1, to |-> to, waiting |-> TRUE]]
    BY <1>5 DEF ClientRequests
  <2>2. to \in Service
    BY ServiceAssumption
  <2>3. /\ client'[s] = [n |-> client[s].n + 1, to |-> to, waiting |-> TRUE]
        /\ \A t \in Sessions \ {s} : client'[t] = client[t]
        /\ client' \in [Sessions -> Client]
    BY <1>3, <2>1, <2>2 DEF Client
  <2>4. /\ Open(s) /\ ~client[s].waiting
        /\ \A d \in net : d.s = s => d.n + MaxLate > client[s].n
        /\ net' = net \union {CurrentRequest(s)'}
    BY <1>5 DEF ClientRequests
  <2>5. CurrentRequest(s)' = [type |-> "request", s |-> s, n |-> client[s].n + 1, to |-> to]
    BY <2>3 DEF CurrentRequest
  <2>6. TypeOK'
    <3>1. CurrentRequest(s)' \in Request
      BY <1>3, <2>2, <2>5 DEF Request
    <3> QED BY <1>1, <2>3, <2>4, <3>1 DEF TypeOK
  <2>7. CountInv'
    <3>1. Len(taken[s]) = client[s].n /\ conn[s].state = "open"
      BY <2>4 DEF CountInv, Open
    <3>2. ASSUME NEW t \in Sessions
          PROVE  /\ conn[t].SequenceCounter_R = Octet(Len(taken[t]))
                 /\ \A i \in 1 .. Len(taken[t]) : taken[t][i] = i
                 /\ Len(taken[t]) <= client'[t].n
                 /\ client'[t].n <= Len(taken[t]) + 1
                 /\ client'[t].waiting \/ Len(taken[t]) = client'[t].n
                 /\ client'[t].waiting => 1 <= client'[t].n
                 /\ conn[t].state = "new" => client'[t].n = 0
      BY <1>3, <2>3, <3>1 DEF CountInv
    <3> QED BY <1>1, <3>2 DEF CountInv
  <2>8. NetInv'
    <3> SUFFICES ASSUME NEW d \in net'
                 PROVE  /\ 1 <= d.n /\ d.n <= client'[d.s].n
                        /\ client'[d.s].n <= d.n + MaxLate
                        /\ d.type = "ack" => d.n <= Len(taken[d.s])
      BY <1>1 DEF NetInv
    <3>1. CASE d \in net /\ d.s = s
      BY <1>3, <2>3, <2>4, <3>1, LateAssumption DEF NetInv
    <3>2. CASE d \in net /\ d.s # s
      BY <1>3, <2>3, <3>2 DEF NetInv
    <3>3. CASE d = CurrentRequest(s)'
      BY <1>3, <2>3, <2>5, <3>3, LateAssumption
    <3> QED BY <2>4, <3>1, <3>2, <3>3
  <2> QED BY <2>6, <2>7, <2>8
<1>6. CASE ClientRepeats(s)
  <2>1. UNCHANGED client /\ client[s].waiting /\ net' = net \union {CurrentRequest(s)}
    BY <1>6 DEF ClientRepeats
  <2>2. CountInv'
    BY <1>1, <2>1 DEF CountInv
  <2>3. Len(taken[s]) <= client[s].n
    BY DEF CountInv
  <2>4. CASE client[s].n >= 1
    <3>1. CurrentRequest(s) = [type |-> "request", s |-> s, n |-> client[s].n,
                               to |-> client[s].to]
      BY DEF CurrentRequest
    <3>2. CurrentRequest(s) \in Request
      BY <1>3, <3>1 DEF Request, Client
    <3>3. TypeOK'
      BY <1>1, <2>1, <3>2 DEF TypeOK
    <3>4. NetInv'
      BY <1>1, <1>3, <2>1, <2>4, <3>1, LateAssumption DEF NetInv
    <3> QED BY <2>2, <3>3, <3>4
  <2>5. CASE client[s].n < 1
    BY <2>1, <2>5, <1>3 DEF CountInv
  <2> QED BY <1>3, <2>4, <2>5
<1>7. CASE ClientAcknowledged(s)
  <2>1. PICK d \in net :
          /\ d.type = "ack" /\ d.s = s
          /\ client[s].waiting /\ Octet(d.n) = Octet(client[s].n)
          /\ client' = [client EXCEPT ![s].waiting = FALSE]
          /\ net' \in Consumed(d)
    BY <1>7 DEF ClientAcknowledged
  <2>2. /\ client' \in [Sessions -> Client]
        /\ \A t \in Sessions : client'[t].n = client[t].n
        /\ client'[s].waiting = FALSE
        /\ \A t \in Sessions \ {s} : client'[t] = client[t]
    BY <1>3, <2>1 DEF Client
  <2>3. net' \subseteq net
    BY <2>1 DEF Consumed
  <2>4. d.n = client[s].n
    <3>1. d.n <= client[s].n /\ client[s].n <= d.n + MaxLate
      BY <2>1 DEF NetInv
    <3>2. d.n - client[s].n < SeqMod /\ client[s].n - d.n < SeqMod
      BY <1>3, <3>1, LateAssumption, SeqModAssumption
    <3> QED BY <1>3, <2>1, <3>2, OctetUnique
  <2>5. Len(taken[s]) = client[s].n
    BY <1>3, <2>1, <2>4 DEF NetInv, CountInv
  <2>6. CountInv'
    BY <1>1, <2>2, <2>5 DEF CountInv
  <2>7. TypeOK' /\ NetInv'
    BY <1>1, <1>3, <2>2, <2>3 DEF TypeOK, NetInv
  <2> QED BY <2>6, <2>7
<1>8. CASE Vanish
  <2>1. net' \subseteq net /\ UNCHANGED client
    BY <1>8 DEF Vanish
  <2> QED BY <1>1, <2>1 DEF TypeOK, CountInv, NetInv
<1> QED BY <1>5, <1>6, <1>7, <1>8

(* The server's steps.                                                     *)
LEMMA RepeatedStep ==
  ASSUME IInv, NEW s \in Sessions, RequestRepeated(s)
  PROVE  IInv'
<1> USE DEF IInv
<1>1. PICK d \in net :
        /\ d.type = "request" /\ d.s = s /\ Repeat(d)
        /\ \E left \in Consumed(d) : net' = left \union {AckOf(d)}
        /\ UNCHANGED <<conn, client, taken, line, inbox>>
  BY DEF RequestRepeated
<1>2. /\ d.n \in Nat /\ client[s].n \in Nat /\ Len(taken[s]) \in Nat
      /\ 1 <= d.n /\ d.n <= client[s].n /\ client[s].n <= d.n + MaxLate
  <2>1. d.n \in Nat
    BY DEF TypeOK, Request, Ack
  <2>2. client[s].n \in Nat /\ Len(taken[s]) \in Nat
    BY DEF TypeOK, Client
  <2>3. 1 <= d.n /\ d.n <= client[s].n /\ client[s].n <= d.n + MaxLate
    BY <1>1 DEF NetInv
  <2> QED BY <2>1, <2>2, <2>3
<1>3. d.n = Len(taken[s])
  <2>1. Octet(d.n) = Octet(Len(taken[s]))
    BY <1>1 DEF Repeat, CountInv
  <2>2. Len(taken[s]) <= client[s].n /\ client[s].n <= Len(taken[s]) + 1
    BY DEF CountInv
  <2>3. d.n - Len(taken[s]) < SeqMod /\ Len(taken[s]) - d.n < SeqMod
    BY <1>2, <2>2, LateAssumption, SeqModAssumption
  <2> QED BY <1>2, <2>1, <2>3, OctetUnique
<1>4. /\ AckOf(d) = [type |-> "ack", s |-> s, n |-> d.n]
      /\ AckOf(d) \in Ack
      /\ net' \subseteq net \union {AckOf(d)}
  BY <1>1, <1>2 DEF AckOf, Ack, Consumed
<1>5. TypeOK'
  BY <1>1, <1>4 DEF TypeOK
<1>6. NetInv'
  BY <1>1, <1>2, <1>3, <1>4 DEF NetInv
<1>7. ConnInv' /\ CountInv' /\ FrameInv' /\ MessageInv'
  BY <1>1 DEF ConnInv, CountInv, FrameInv, FrameOf, MessageInv, MessageFor,
             Tunnels, Open, Holders
<1> QED BY <1>5, <1>6, <1>7

(* The request executed is the one after the last.                         *)
LEMMA NextNumber ==
  ASSUME IInv, NEW s \in Sessions, NEW d \in net,
         d.type = "request", d.s = s, Expected(d)
  PROVE  d.n \in Nat /\ d.n = Len(taken[s]) + 1 /\ client[s].n = d.n
<1> USE DEF IInv
<1>1. /\ d.n \in Nat /\ client[s].n \in Nat /\ Len(taken[s]) \in Nat
      /\ 1 <= d.n /\ d.n <= client[s].n /\ client[s].n <= d.n + MaxLate
  <2>1. d.n \in Nat
    BY DEF TypeOK, Request, Ack
  <2>2. client[s].n \in Nat /\ Len(taken[s]) \in Nat
    BY DEF TypeOK, Client
  <2>3. 1 <= d.n /\ d.n <= client[s].n /\ client[s].n <= d.n + MaxLate
    BY DEF NetInv
  <2> QED BY <2>1, <2>2, <2>3
<1>2. Octet(d.n - 1) = Octet(Len(taken[s]))
  <2>1. (Octet(d.n) - 1) % SeqMod = Octet(Len(taken[s]))
    BY DEF Expected, CountInv
  <2> QED BY <1>1, <2>1, OctetBefore
<1>3. Len(taken[s]) <= client[s].n /\ client[s].n <= Len(taken[s]) + 1
  BY DEF CountInv
<1>4. d.n - 1 \in Nat /\ d.n - 1 - Len(taken[s]) < SeqMod
      /\ Len(taken[s]) - (d.n - 1) < SeqMod
  BY SMTT(20), <1>1, <1>3, LateAssumption, SeqModAssumption
<1>5. d.n - 1 = Len(taken[s])
  BY <1>1, <1>2, <1>4, OctetUnique
<1> QED BY <1>1, <1>3, <1>5

LEMMA ExecutedStep ==
  ASSUME IInv, NEW s \in Sessions, RequestExecuted(s)
  PROVE  IInv'
<1> USE DEF IInv
<1>1. PICK d \in net :
        /\ d.type = "request" /\ d.s = s /\ Open(s) /\ Expected(d)
        /\ \E left \in Consumed(d) : net' = left \union {AckOf(d)}
        /\ conn' = [conn EXCEPT ![s].SequenceCounter_R = Octet(d.n)]
        /\ taken' = [taken EXCEPT ![s] = Append(@, d.n)]
        /\ Execute(d)
        /\ UNCHANGED client
  BY DEF RequestExecuted
<1>2. Len(taken[s]) \in Nat /\ client[s].n \in Nat
  BY DEF TypeOK, Client
<1>3. d.n \in Nat /\ d.n = Len(taken[s]) + 1 /\ client[s].n = d.n
  BY <1>1, NextNumber
<1>4. /\ AckOf(d) = [type |-> "ack", s |-> s, n |-> d.n]
      /\ AckOf(d) \in Ack
      /\ net' \subseteq net \union {AckOf(d)}
  BY <1>1, <1>3 DEF AckOf, Ack, Consumed
<1>5. /\ conn' \in [Sessions -> Connection]
      /\ conn'[s].SequenceCounter_R = Octet(d.n)
      /\ \A t \in Sessions :
           /\ conn'[t].state = conn[t].state
           /\ conn'[t].IsConfig = conn[t].IsConfig
           /\ conn'[t].IndividualAddress = conn[t].IndividualAddress
      /\ \A t \in Sessions \ {s} : conn'[t] = conn[t]
  <2>1. conn \in [Sessions -> Connection] /\ Octet(d.n) \in Seq8
    BY <1>3, OctetType DEF TypeOK
  <2>2. conn' = [conn EXCEPT ![s] = [conn[s] EXCEPT !.SequenceCounter_R = Octet(d.n)]]
    BY <1>1, <2>1
  <2> QED BY <2>1, <2>2 DEF Connection
<1>6. /\ taken' \in [Sessions -> Seq(Nat)]
      /\ taken'[s] = Append(taken[s], d.n)
      /\ Len(taken'[s]) = d.n
      /\ \A t \in Sessions \ {s} : taken'[t] = taken[t]
  <2>1. taken \in [Sessions -> Seq(Nat)]
    BY DEF TypeOK
  <2> QED BY <1>1, <1>2, <1>3, <2>1
<1>7. /\ line' \in Seq(Frame) /\ inbox' \in Boxes
      /\ \A i \in DOMAIN line' : FrameOf(line'[i])
      /\ \A t \in Sessions : \A i \in DOMAIN inbox'[t] : MessageFor(t, inbox'[t][i])
  BY <1>1, ExecuteInv
<1>8. TypeOK'
  BY <1>1, <1>4, <1>5, <1>6, <1>7 DEF TypeOK, Boxes
<1>9. ConnInv'
  BY <1>5, SameConnections
<1>10. CountInv'
  <2>1. \A i \in 1 .. Len(taken'[s]) : taken'[s][i] = i
    <3>1. taken[s] \in Seq(Nat)
      BY DEF TypeOK
    <3> QED BY <1>2, <1>3, <1>6, <3>1 DEF CountInv
  <2>2. /\ Len(taken'[s]) <= client[s].n /\ client[s].n <= Len(taken'[s]) + 1
        /\ Len(taken'[s]) = client[s].n
    BY <1>2, <1>3, <1>6
  <2> QED BY <1>1, <1>5, <1>6, <2>1, <2>2 DEF CountInv
<1>11. NetInv'
  <2>1. ASSUME NEW t \in Sessions PROVE Len(taken[t]) <= Len(taken'[t])
    <3>1. Len(taken[t]) \in Nat
      BY DEF TypeOK
    <3>2. CASE t = s
      BY <1>2, <1>3, <1>6, <3>2
    <3>3. CASE t # s
      BY <1>6, <3>1, <3>3
    <3> QED BY <3>2, <3>3
  <2>2. \A e \in net : e.s \in Sessions /\ e.n \in Nat
    BY DEF TypeOK, Request, Ack
  <2>3. \A t \in Sessions : Len(taken[t]) \in Nat /\ Len(taken'[t]) \in Nat
    BY <1>6 DEF TypeOK
  <2>4. ASSUME NEW e \in net
        PROVE  /\ 1 <= e.n /\ e.n <= client[e.s].n
               /\ client[e.s].n <= e.n + MaxLate
               /\ e.type = "ack" => e.n <= Len(taken'[e.s])
    BY <2>1, <2>2, <2>3 DEF NetInv
  <2> QED BY <1>1, <1>2, <1>4, <1>6, <2>4 DEF NetInv
<1>12. FrameInv'
  <2>1. \A f \in Frame : FrameOf(f) => FrameOf(f)'
    BY <1>5, SameFor
  <2>2. \A i \in DOMAIN line' : line'[i] \in Frame
    BY <1>7
  <2> QED BY <1>7, <2>1, <2>2 DEF FrameInv
<1>13. MessageInv'
  <2>1. \A t \in Sessions : \A m \in Message : MessageFor(t, m) => MessageFor(t, m)'
    BY <1>5, SameFor
  <2>2. \A t \in Sessions : \A i \in DOMAIN inbox'[t] : inbox'[t][i] \in Message
    BY <1>7 DEF Boxes
  <2> QED BY <1>7, <2>1, <2>2 DEF MessageInv
<1> QED BY <1>8, <1>9, <1>10, <1>11, <1>12, <1>13

LEMMA DiscardedStep ==
  ASSUME IInv, NEW s \in Sessions, RequestDiscarded(s)
  PROVE  IInv'
<1>1. net' \subseteq net /\ UNCHANGED <<conn, client, taken, line, inbox>>
  BY DEF RequestDiscarded, Consumed
<1> QED BY <1>1 DEF IInv, TypeOK, ConnInv, CountInv, NetInv, FrameInv, FrameOf,
                    MessageInv, MessageFor, Tunnels, Open, Holders

LEMMA LineStep ==
  ASSUME IInv, LineAnswers
  PROVE  IInv'
<1> USE DEF IInv
<1>1. /\ line # <<>> /\ inbox' = Confirmed(inbox, Head(line)) /\ line' = Tail(line)
      /\ UNCHANGED <<conn, client, net, taken>>
  BY DEF LineAnswers
<1>2. line \in Seq(Frame) /\ inbox \in Boxes
  BY DEF TypeOK, Boxes
<1>3. /\ Len(line) \in Nat /\ Len(line) >= 1 /\ DOMAIN line = 1 .. Len(line)
      /\ line' \in Seq(Frame) /\ DOMAIN line' = 1 .. Len(line) - 1
      /\ \A i \in 1 .. Len(line) - 1 : line'[i] = line[i + 1]
      /\ Head(line) = line[1]
  BY <1>1, <1>2
<1>4. Head(line) \in Frame /\ FrameOf(Head(line))
  BY <1>2, <1>3 DEF FrameInv
<1>5. \A t \in Sessions : \A i \in DOMAIN inbox[t] : MessageFor(t, inbox[t][i])
  BY DEF MessageInv
<1>6. /\ inbox' \in Boxes
      /\ \A t \in Sessions : \A i \in DOMAIN inbox'[t] : MessageFor(t, inbox'[t][i])
  BY <1>1, <1>2, <1>4, <1>5, ConfirmedFor DEF FrameOf
<1>7. TypeOK'
  BY <1>1, <1>3, <1>6 DEF TypeOK, Boxes
<1>8. ConnInv' /\ CountInv' /\ NetInv'
  BY <1>1 DEF ConnInv, CountInv, NetInv, Tunnels, Open
<1>9. FrameInv'
  <2>1. \A i \in DOMAIN line' : FrameOf(line'[i])
    <3> SUFFICES ASSUME NEW i \in 1 .. Len(line) - 1 PROVE FrameOf(line[i + 1])
      BY <1>3
    <3>1. i + 1 \in 1 .. Len(line)
      BY <1>3
    <3> QED BY <1>3, <3>1 DEF FrameInv
  <2>2. \A f \in Frame : FrameOf(f) => FrameOf(f)'
    BY <1>1, SameFor
  <2>3. \A i \in DOMAIN line' : line'[i] \in Frame
    BY <1>3
  <2> QED BY <2>1, <2>2, <2>3 DEF FrameInv
<1>10. MessageInv'
  <2>1. \A t \in Sessions : \A m \in Message : MessageFor(t, m) => MessageFor(t, m)'
    BY <1>1, SameFor
  <2>2. \A t \in Sessions : \A i \in DOMAIN inbox'[t] : inbox'[t][i] \in Message
    BY <1>6 DEF Boxes
  <2> QED BY <1>6, <2>1, <2>2 DEF MessageInv
<1> QED BY <1>7, <1>8, <1>9, <1>10

-----------------------------------------------------------------------------
(* The theorems.                                                           *)

(* The invariant above holds in every behaviour of the uplink.             *)
THEOREM Invariant == Spec => []IInv
<1>1. Init => IInv
  BY InitInv
<1>2. IInv /\ [Next]_vars => IInv'
  <2> SUFFICES ASSUME IInv, [Next]_vars PROVE IInv'
    OBVIOUS
  <2>1. ASSUME NEW s \in Sessions, Connect(s) PROVE IInv'
    BY <2>1, ConnectStep
  <2>2. ASSUME NEW s \in Sessions, Close(s) PROVE IInv'
    BY <2>2, CloseStep
  <2>3. ASSUME NEW s \in Sessions,
               ClientRequests(s) \/ ClientRepeats(s) \/ ClientAcknowledged(s)
        PROVE  IInv'
    BY <2>3, ClientStep
  <2>4. ASSUME NEW s \in Sessions, RequestRepeated(s) PROVE IInv'
    BY <2>4, RepeatedStep
  <2>5. ASSUME NEW s \in Sessions, RequestExecuted(s) PROVE IInv'
    BY <2>5, ExecutedStep
  <2>6. ASSUME NEW s \in Sessions, RequestDiscarded(s) PROVE IInv'
    BY <2>6, DiscardedStep
  <2>7. ASSUME Vanish PROVE IInv'
    <3>1. PICK d \in net : net' = net \ {d} /\ UNCHANGED <<conn, client, taken, line, inbox>>
      BY <2>7 DEF Vanish
    <3>2. d.s \in Sessions
      BY DEF IInv, TypeOK, Request, Ack
    <3> QED BY <2>7, <3>2, ClientStep
  <2>8. CASE LineAnswers
    BY <2>8, LineStep
  <2>9. CASE UNCHANGED vars
    BY <2>9 DEF vars, IInv, TypeOK, ConnInv, CountInv, NetInv, FrameInv, FrameOf,
                MessageInv, MessageFor, Tunnels, Open, Holders
  <2> QED BY <2>1, <2>2, <2>3, <2>4, <2>5, <2>6, <2>7, <2>8, <2>9 DEF Next
<1> QED BY <1>1, <1>2, PTL DEF Spec

(* Frames and messages are what the code makes them: what goes to the line *)
(* has a tunnel's address for its source.                                  *)
THEOREM TypeCorrect == Spec => []TypeOK
<1>1. IInv => TypeOK BY DEF IInv
<1> QED BY <1>1, Invariant, PTL

(* Every request is executed once and in order, whatever the network loses *)
(* and repeats and however long the session is.                            *)
THEOREM OnceAndInOrder == Spec => []TakenInOrder
<1>1. IInv => TakenInOrder
  BY DEF IInv, TypeOK, CountInv, TakenInOrder
<1> QED BY <1>1, Invariant, PTL

(* A client does not hold a request for acknowledged that was discarded.   *)
THEOREM AcksAreTrue == Spec => []AckedWasTaken
<1>1. IInv => AckedWasTaken
  BY DEF IInv, CountInv, AckedWasTaken
<1> QED BY <1>1, Invariant, PTL

(* A con is the client's own or that of a closed session whose address it  *)
(* was given.                                                              *)
THEOREM ConsAreFromThisAddress == Spec => []ConFromPredecessor
<1>1. IInv => ConFromPredecessor
  BY DEF IInv, MessageInv, MessageFor, ConFromPredecessor
<1> QED BY <1>1, Invariant, PTL

(* No client hears itself.                                                 *)
THEOREM NobodyHearsItself == Spec => []NoEcho
<1>1. IInv => NoEcho
  BY DEF IInv, MessageInv, MessageFor, NoEcho
<1> QED BY <1>1, Invariant, PTL

(* Device management and telegrams do not mix.                             *)
THEOREM ManagementIsApart == Spec => []ManagementApart
<1>1. IInv => ManagementApart
  <2> SUFFICES ASSUME IInv, NEW s \in Sessions, conn[s].IsConfig
               PROVE  /\ \A i \in DOMAIN inbox[s] :
                           inbox[s][i].kind = "answer" /\ inbox[s][i].s = s
                      /\ \A t \in Sessions \ {s} :
                           \A i \in DOMAIN inbox[t] : inbox[t][i].s # s
                      /\ \A i \in DOMAIN line : line[i].s # s
    BY DEF ManagementApart
  <2>1. \A t \in Sessions : \A i \in DOMAIN inbox[t] : MessageFor(t, inbox[t][i])
    BY DEF IInv, MessageInv
  <2>2. \A i \in DOMAIN line : ~conn[line[i].s].IsConfig
    BY DEF IInv, FrameInv, FrameOf
  <2> QED BY <2>1, <2>2 DEF MessageFor
<1> QED BY <1>1, Invariant, PTL

-----------------------------------------------------------------------------
(* Every telegram is accounted for.  Numbers of requests that were not     *)
(* executed are nowhere; a telegram is queued or confirmed at most once    *)
(* and not both; a queued one has not been answered, and an answer comes   *)
(* after the con; and each executed request of an open tunnel left a       *)
(* trace.                                                                  *)

AtMostOne(set) == \A i, j \in set : i = j

Cons(s, n) == Places(inbox[s], "con", s, n)
Answers(s, n) == Places(inbox[s], "answer", s, n)

PastInv ==
  /\ \A i \in DOMAIN line : line[i].n \in 1 .. Len(taken[line[i].s])
  /\ \A s \in Sessions : \A i \in DOMAIN inbox[s] :
       inbox[s][i].s = s => inbox[s][i].n \in 1 .. Len(taken[s])

OneTrace(s, n) ==
  /\ AtMostOne(Cons(s, n)) /\ AtMostOne(Queued(s, n))
  /\ Cons(s, n) = {} \/ Queued(s, n) = {}
  /\ Queued(s, n) # {} => Answers(s, n) = {}
  /\ \A i \in Answers(s, n), j \in Cons(s, n) : j < i

TraceInv == \A s \in Sessions : \A n \in Nat : OneTrace(s, n)

SettledInv ==
  \A s \in Tunnels : \A n \in 1 .. Len(taken[s]) :
    Cons(s, n) # {} \/ Queued(s, n) # {} \/ Answers(s, n) # {}

AInv == PastInv /\ TraceInv /\ SettledInv

(* A message at the end of an inbox is one more place of its own kind,     *)
(* session and number.                                                     *)
LEMMA AppendPlaces ==
  ASSUME NEW q \in Seq(Message), NEW m \in Message, NEW kind, NEW s, NEW n
  PROVE  Places(Append(q, m), kind, s, n) =
           IF m.kind = kind /\ m.s = s /\ m.n = n
             THEN Places(q, kind, s, n) \union {Len(q) + 1}
             ELSE Places(q, kind, s, n)
<1> DEFINE r == Append(q, m)
<1>1. /\ DOMAIN q = 1 .. Len(q) /\ Len(q) \in Nat
      /\ DOMAIN r = 1 .. Len(q) + 1
      /\ \A i \in 1 .. Len(q) : r[i] = q[i]
      /\ r[Len(q) + 1] = m
  OBVIOUS
<1> HIDE DEF r
<1>2. DOMAIN r = DOMAIN q \union {Len(q) + 1} /\ Len(q) + 1 \notin DOMAIN q
  BY <1>1
<1>3. \A i \in DOMAIN q : r[i] = q[i]
  BY <1>1
<1>4. Places(r, kind, s, n) =
        {i \in DOMAIN q \union {Len(q) + 1} : r[i].kind = kind /\ r[i].s = s /\ r[i].n = n}
  BY <1>2 DEF Places
<1>5. Places(q, kind, s, n) =
        {i \in DOMAIN q : q[i].kind = kind /\ q[i].s = s /\ q[i].n = n}
  BY DEF Places
<1>6. CASE m.kind = kind /\ m.s = s /\ m.n = n
  <2>1. Places(r, kind, s, n) = Places(q, kind, s, n) \union {Len(q) + 1}
    BY <1>1, <1>3, <1>4, <1>5, <1>6
  <2> QED BY <2>1, <1>6 DEF r
<1>7. CASE ~(m.kind = kind /\ m.s = s /\ m.n = n)
  <2>1. Places(r, kind, s, n) = Places(q, kind, s, n)
    BY <1>1, <1>3, <1>4, <1>5, <1>7
  <2> QED BY <2>1, <1>7 DEF r
<1> QED BY <1>6, <1>7

(* Messages of another session do not count.                               *)
LEMMA PutPlaces ==
  ASSUME NEW boxes \in Boxes, NEW to, NEW m \in Message, NEW s \in Sessions
  PROVE  /\ s \notin to => Put(boxes, to, m)[s] = boxes[s]
         /\ s \in to => Put(boxes, to, m)[s] = Append(boxes[s], m)
         /\ m.s # s => \A kind, n : Places(Put(boxes, to, m)[s], kind, s, n)
                                      = Places(boxes[s], kind, s, n)
<1>1. Put(boxes, to, m)[s] = IF s \in to THEN Append(boxes[s], m) ELSE boxes[s]
  BY DEF Put
<1>2. boxes[s] \in Seq(Message)
  BY DEF Boxes
<1>3. ASSUME m.s # s, NEW kind, NEW n
      PROVE  Places(Put(boxes, to, m)[s], kind, s, n) = Places(boxes[s], kind, s, n)
  <2>1. Places(Append(boxes[s], m), kind, s, n) = Places(boxes[s], kind, s, n)
    BY <1>2, <1>3, AppendPlaces
  <2> QED BY <1>1, <2>1
<1> QED BY <1>1, <1>3

(* What executing a request does to the traces of requests.                *)
Trace(d, kind) == [kind |-> kind, s |-> d.s, n |-> d.n]

LEMMA ExecuteTraces ==
  ASSUME IInv, NEW d \in net, d.type = "request", Open(d.s), Execute(d)
  PROVE  /\ \A t \in Sessions : t # d.s =>
              \A kind, n : Places(inbox'[t], kind, t, n) = Places(inbox[t], kind, t, n)
         /\ \/ /\ d.s \notin Tunnels
               /\ line' = line
               /\ \/ inbox'[d.s] = inbox[d.s]
                  \/ inbox'[d.s] = Append(inbox[d.s], Trace(d, "answer"))
            \/ /\ line' = line
               /\ \/ inbox'[d.s] = Append(inbox[d.s], Trace(d, "answer"))
                  \/ inbox'[d.s] = Append(inbox[d.s], Trace(d, "con"))
                  \/ inbox'[d.s] = Append(Append(inbox[d.s], Trace(d, "con")),
                                          Trace(d, "answer"))
            \/ /\ inbox'[d.s] = inbox[d.s]
               /\ \E f \in Frame : f.s = d.s /\ f.n = d.n /\ line' = Append(line, f)
<1> USE DEF IInv
<1>1. d.s \in Sessions /\ d.n \in Nat /\ d.to \in Service
  BY DEF TypeOK, Request, Ack
<1>2. inbox \in Boxes
  BY DEF TypeOK, Boxes
<1>3. CASE Ignored(d)
  <2>1. inbox' = inbox /\ line' = line
    BY <1>3 DEF Execute
  <2>2. d.s \notin Tunnels
    BY <1>3 DEF Ignored, Tunnels
  <2> QED BY <2>1, <2>2
<1> DEFINE ans == Trace(d, "answer")  con == Trace(d, "con")
<1>4. /\ ans \in Message /\ con \in Message
      /\ ans.s = d.s /\ con.s = d.s
  BY <1>1 DEF Trace, Message
<1>5. CASE ~Ignored(d) /\ d.to = "management"
  <2>1. inbox' = Put(inbox, {d.s}, MessageOf("answer", d)) /\ line' = line
    BY <1>5 DEF Execute
  <2>2. inbox' = Put(inbox, {d.s}, ans)
    BY <2>1 DEF MessageOf, Trace
  <2> HIDE DEF ans, con
  <2>3. \A t \in Sessions : t # d.s =>
          \A kind, n : Places(inbox'[t], kind, t, n) = Places(inbox[t], kind, t, n)
    BY <1>2, <1>4, <2>2, PutPlaces
  <2>4. inbox'[d.s] = Append(inbox[d.s], ans)
    BY <1>1, <2>2 DEF Put
  <2> QED BY <2>1, <2>3, <2>4 DEF ans
<1>6. CASE ~Ignored(d) /\ d.to # "management"
  <2> DEFINE f == [s |-> d.s, n |-> d.n, to |-> d.to,
                   source |-> conn[d.s].IndividualAddress]
             ind == Trace(d, "ind")
  <2>1. d.s \in Tunnels
    BY <1>1, <1>6 DEF Ignored, Tunnels
  <2>2. conn[d.s].IndividualAddress \in Addresses
    BY <2>1 DEF ConnInv
  <2>3. /\ f \in Frame /\ f.s = d.s /\ f.n = d.n
        /\ f.source = conn[d.s].IndividualAddress
    BY <1>1, <1>6, <2>2 DEF Frame, Service
  <2>4. DataRequestFromTunnel(f)
    BY <1>6 DEF Execute
  <2>5. MessageOf("con", f) = con /\ MessageOf("answer", f) = ans
        /\ MessageOf("ind", f) = ind
    BY <2>3 DEF MessageOf, Trace
  <2>6. ind \in Message /\ ind.s = d.s
    BY <1>1 DEF Trace, Message
  <2>7. Holders(f.source) = {d.s}
    BY <2>1, <2>3, OneHolder
  <2>8. d.s \notin Hearers(f)
    BY <2>3 DEF Hearers
  <2> HIDE DEF f, ind, ans, con
  <2> DEFINE Apart(b) ==
        /\ b \in Boxes
        /\ \A t \in Sessions : t # d.s =>
             \A kind, n : Places(b[t], kind, t, n) = Places(inbox[t], kind, t, n)
  <2>9. ASSUME NEW b, Apart(b)
        PROVE  Apart(Confirmed(b, f)) /\ Confirmed(b, f)[d.s] = Append(b[d.s], con)
    <3>1. Confirmed(b, f) = Put(b, {d.s}, con)
      BY <2>5, <2>7 DEF Confirmed
    <3>2. Put(b, {d.s}, con) \in Boxes
      BY <2>9, <1>4, PutMessages
    <3>3. Put(b, {d.s}, con)[d.s] = Append(b[d.s], con)
      BY <1>1 DEF Put
    <3>4. ASSUME NEW t \in Sessions, t # d.s, NEW kind, NEW n
          PROVE  Places(Put(b, {d.s}, con)[t], kind, t, n) = Places(b[t], kind, t, n)
      BY <2>9, <1>4, <3>4, PutPlaces
    <3>5. Apart(Put(b, {d.s}, con))
      BY <2>9, <3>2, <3>4
    <3> HIDE DEF Apart
    <3> QED BY <3>1, <3>3, <3>5
  <2>10. ASSUME NEW b, Apart(b)
         PROVE  Apart(Indicated(b, f)) /\ Indicated(b, f)[d.s] = b[d.s]
    <3>1. Indicated(b, f) = Put(b, Hearers(f), ind)
      BY <2>5 DEF Indicated
    <3>2. Put(b, Hearers(f), ind) \in Boxes
      BY <2>10, <2>6, PutMessages
    <3>3. Put(b, Hearers(f), ind)[d.s] = b[d.s]
      BY <2>10, <2>8, <2>6, <1>1, PutPlaces
    <3>4. ASSUME NEW t \in Sessions, t # d.s, NEW kind, NEW n
          PROVE  Places(Put(b, Hearers(f), ind)[t], kind, t, n) = Places(b[t], kind, t, n)
      BY <2>10, <2>6, <3>4, PutPlaces
    <3> QED BY <2>10, <3>1, <3>2, <3>3, <3>4
  <2>11. ASSUME NEW b, Apart(b), NEW c \in Answered(b, f)
         PROVE  Apart(c) /\ (c[d.s] = b[d.s] \/ c[d.s] = Append(b[d.s], ans))
    <3>1. c = b \/ c = Put(b, {d.s}, ans)
      BY <2>11, <2>5, <2>7 DEF Answered
    <3>2. Put(b, {d.s}, ans) \in Boxes
      BY <2>11, <1>4, PutMessages
    <3>3. Put(b, {d.s}, ans)[d.s] = Append(b[d.s], ans)
      BY <1>1 DEF Put
    <3>4. ASSUME NEW t \in Sessions, t # d.s, NEW kind, NEW n
          PROVE  Places(Put(b, {d.s}, ans)[t], kind, t, n) = Places(b[t], kind, t, n)
      BY <2>11, <1>4, <3>4, PutPlaces
    <3>5. Apart(Put(b, {d.s}, ans))
      BY <2>11, <3>2, <3>4
    <3> HIDE DEF Apart
    <3> QED BY <2>11, <3>1, <3>3, <3>5
  <2>12. Apart(inbox)
    BY <1>2
  <2>13. CASE f.to = "self"
    <3>1. inbox' \in Answered(Indicated(Confirmed(inbox, f), f), f) /\ line' = line
      BY <2>4, <2>13 DEF DataRequestFromTunnel, Local
    <3> HIDE DEF Apart
    <3>2. Apart(Confirmed(inbox, f)) /\ Confirmed(inbox, f)[d.s] = Append(inbox[d.s], con)
      BY <2>9, <2>12
    <3>3. /\ Apart(Indicated(Confirmed(inbox, f), f))
          /\ Indicated(Confirmed(inbox, f), f)[d.s] = Append(inbox[d.s], con)
      BY <2>10, <3>2
    <3>4. /\ Apart(inbox')
          /\ \/ inbox'[d.s] = Append(inbox[d.s], con)
             \/ inbox'[d.s] = Append(Append(inbox[d.s], con), ans)
      BY <2>11, <3>1, <3>3
    <3> QED BY <3>1, <3>4 DEF Apart, ans, con
  <2>14. CASE f.to # "self"
    <3> HIDE DEF Apart
    <3>1. Apart(Indicated(inbox, f)) /\ Indicated(inbox, f)[d.s] = inbox[d.s]
      BY <2>10, <2>12
    <3>2. /\ Apart(Confirmed(Indicated(inbox, f), f))
          /\ Confirmed(Indicated(inbox, f), f)[d.s] = Append(inbox[d.s], con)
      BY <2>9, <3>1
    <3>3. \/ line' = Append(line, f) /\ inbox' = Indicated(inbox, f)
          \/ inbox' = Confirmed(Indicated(inbox, f), f) /\ line' = line
      BY <2>4, <2>14 DEF DataRequestFromTunnel
    <3>4. CASE line' = Append(line, f) /\ inbox' = Indicated(inbox, f)
      BY <2>3, <3>1, <3>4 DEF Apart
    <3>5. CASE inbox' = Confirmed(Indicated(inbox, f), f) /\ line' = line
      BY <3>2, <3>5 DEF Apart, con
    <3> QED BY <3>3, <3>4, <3>5
  <2> QED BY <2>13, <2>14
<1> QED BY <1>3, <1>5, <1>6

(* The steps that touch neither inboxes nor the queue, nor open a tunnel.  *)
LEMMA ApartSteps ==
  ASSUME AInv, UNCHANGED <<taken, line, inbox>>, Tunnels' \subseteq Tunnels
  PROVE  AInv'
<1>1. /\ \A s, n : Cons(s, n)' = Cons(s, n)
      /\ \A s, n : Answers(s, n)' = Answers(s, n)
      /\ \A s, n : Queued(s, n)' = Queued(s, n)
  BY DEF Cons, Answers, Queued, Places
<1>2. PastInv'
  BY DEF AInv, PastInv
<1>3. TraceInv'
  BY <1>1 DEF AInv, TraceInv, OneTrace, AtMostOne
<1>4. SettledInv'
  BY <1>1 DEF AInv, SettledInv
<1> QED BY <1>2, <1>3, <1>4 DEF AInv

LEMMA ConnectAccounts ==
  ASSUME IInv, AInv, NEW s \in Sessions, Connect(s)
  PROVE  AInv'
<1> USE DEF IInv
<1>1. conn[s].state = "new" /\ UNCHANGED <<client, net, taken, line, inbox>>
  BY DEF Connect
<1>2. \A t \in Sessions \ {s} : conn'[t] = conn[t]
  BY DEF Connect, TypeOK
<1>3. /\ \A t, n : Cons(t, n)' = Cons(t, n)
      /\ \A t, n : Answers(t, n)' = Answers(t, n)
      /\ \A t, n : Queued(t, n)' = Queued(t, n)
  BY <1>1 DEF Cons, Answers, Queued, Places
<1>4. PastInv' /\ TraceInv'
  BY <1>1, <1>3 DEF AInv, PastInv, TraceInv, OneTrace, AtMostOne
<1>5. 1 .. Len(taken[s]) = {}
  <2>1. Len(taken[s]) \in Nat
    BY DEF TypeOK
  <2>2. Len(taken[s]) <= client[s].n /\ client[s].n = 0
    BY <1>1 DEF CountInv
  <2> QED BY <2>1, <2>2
<1>6. \A t \in Tunnels' : t = s \/ t \in Tunnels
  BY <1>2 DEF Tunnels, Open
<1>7. SettledInv'
  BY <1>1, <1>3, <1>5, <1>6 DEF AInv, SettledInv
<1> QED BY <1>4, <1>7 DEF AInv

LEMMA ExecutedAccounts ==
  ASSUME IInv, AInv, NEW s \in Sessions, RequestExecuted(s)
  PROVE  AInv'
<1> USE DEF IInv
<1>1. PICK d \in net :
        /\ d.type = "request" /\ d.s = s /\ Open(s) /\ Expected(d)
        /\ conn' = [conn EXCEPT ![s].SequenceCounter_R = Octet(d.n)]
        /\ taken' = [taken EXCEPT ![s] = Append(@, d.n)]
        /\ Execute(d)
  BY DEF RequestExecuted
<1>2. d.n \in Nat /\ d.n = Len(taken[s]) + 1 /\ Len(taken[s]) \in Nat
  BY <1>1, NextNumber DEF TypeOK
<1>3. /\ \A t \in Sessions : t # s => taken'[t] = taken[t]
      /\ Len(taken'[s]) = d.n
      /\ \A t \in Sessions : Len(taken[t]) \in Nat /\ Len(taken'[t]) \in Nat
      /\ \A t \in Sessions : Len(taken[t]) <= Len(taken'[t])
  <2>1. taken \in [Sessions -> Seq(Nat)]
    BY DEF TypeOK
  <2>2. taken'[s] = Append(taken[s], d.n) /\ taken'[s] \in Seq(Nat)
    BY <1>1, <1>2, <2>1
  <2>3. \A t \in Sessions : t # s => taken'[t] = taken[t]
    BY <1>1, <2>1
  <2>4. Len(taken'[s]) = Len(taken[s]) + 1
    BY <2>1, <2>2
  <2>5. ASSUME NEW t \in Sessions
        PROVE  /\ Len(taken[t]) \in Nat /\ Len(taken'[t]) \in Nat
               /\ Len(taken[t]) <= Len(taken'[t])
    <3>1. Len(taken[t]) \in Nat BY <2>1
    <3> QED BY <3>1, <1>2, <2>3, <2>4
  <2> QED BY <1>2, <2>3, <2>4, <2>5
<1>4. Tunnels' = Tunnels
  <2>1. \A t \in Sessions : /\ conn'[t].state = conn[t].state
                            /\ conn'[t].IsConfig = conn[t].IsConfig
    <3>1. conn \in [Sessions -> Connection]
      BY DEF TypeOK
    <3>2. conn' = [conn EXCEPT ![s] = [conn[s] EXCEPT !.SequenceCounter_R = Octet(d.n)]]
      BY <1>1, <3>1
    <3> QED BY <3>1, <3>2 DEF Connection
  <2> QED BY <2>1 DEF Tunnels, Open
<1> DEFINE con == Trace(d, "con")  ans == Trace(d, "answer")  q == inbox[s]
<1>5. /\ con \in Message /\ ans \in Message
      /\ con.kind = "con" /\ con.s = s /\ con.n = d.n
      /\ ans.kind = "answer" /\ ans.s = s /\ ans.n = d.n
      /\ q \in Seq(Message) /\ Len(q) \in Nat
      /\ line \in Seq(Frame) /\ Len(line) \in Nat /\ DOMAIN line = 1 .. Len(line)
  BY <1>1, <1>2 DEF Trace, Message, TypeOK
<1>6. /\ \A t \in Sessions : t # s =>
           \A kind, n : Places(inbox'[t], kind, t, n) = Places(inbox[t], kind, t, n)
      /\ \/ /\ s \notin Tunnels /\ line' = line
            /\ inbox'[s] = q \/ inbox'[s] = Append(q, ans)
         \/ /\ line' = line
            /\ \/ inbox'[s] = Append(q, ans)
               \/ inbox'[s] = Append(q, con)
               \/ inbox'[s] = Append(Append(q, con), ans)
         \/ /\ inbox'[s] = q
            /\ \E f \in Frame : f.s = s /\ f.n = d.n /\ line' = Append(line, f)
  BY <1>1, ExecuteTraces
<1> HIDE DEF con, ans
<1>7. /\ Cons(s, d.n) = {} /\ Answers(s, d.n) = {} /\ Queued(s, d.n) = {}
  <2>1. d.n \notin 1 .. Len(taken[s])
    BY <1>2
  <2> QED BY <2>1 DEF AInv, PastInv, Cons, Answers, Queued, Places
<1>8. Append(q, con) \in Seq(Message) /\ Len(Append(q, con)) = Len(q) + 1
  BY <1>5
<1>9. ASSUME NEW n
      PROVE  n # d.n => Cons(s, n)' = Cons(s, n) /\ Answers(s, n)' = Answers(s, n)
  <2> SUFFICES ASSUME n # d.n, NEW kind
               PROVE  Places(inbox'[s], kind, s, n) = Places(q, kind, s, n)
    BY DEF Cons, Answers
  <2> HIDE DEF q
  <2>1. Places(Append(q, ans), kind, s, n) = Places(q, kind, s, n)
    BY <1>5, AppendPlaces
  <2>2. Places(Append(q, con), kind, s, n) = Places(q, kind, s, n)
    BY <1>5, AppendPlaces
  <2>3. Places(Append(Append(q, con), ans), kind, s, n) = Places(Append(q, con), kind, s, n)
    <3> DEFINE r == Append(q, con)
    <3>1. r \in Seq(Message)
      BY <1>8
    <3> HIDE DEF r
    <3>2. Places(Append(r, ans), kind, s, n) = Places(r, kind, s, n)
      BY <1>5, <3>1, AppendPlaces
    <3> QED BY <3>2 DEF r
  <2> QED BY <1>6, <2>1, <2>2, <2>3
<1>10. ASSUME NEW t \in Sessions, t # s, NEW n
       PROVE  Cons(t, n)' = Cons(t, n) /\ Answers(t, n)' = Answers(t, n)
  BY <1>6, <1>10 DEF Cons, Answers
<1>11. ASSUME NEW t, NEW n, t # s \/ n # d.n
       PROVE  Queued(t, n)' = Queued(t, n)
  <2>1. CASE line' = line
    BY <2>1 DEF Queued
  <2>2. ASSUME NEW f \in Frame, f.s = s, f.n = d.n, line' = Append(line, f)
        PROVE  Queued(t, n)' = Queued(t, n)
    <3>1. /\ DOMAIN line' = 1 .. Len(line) + 1
          /\ \A i \in 1 .. Len(line) : line'[i] = line[i]
          /\ line'[Len(line) + 1] = f
      BY <1>5, <2>2
    <3>2. \A i \in DOMAIN line' : i \in DOMAIN line \/ line'[i] = f
      BY <1>5, <3>1
    <3>3. \A i \in DOMAIN line : i \in DOMAIN line' /\ line'[i] = line[i]
      BY <1>5, <3>1
    <3> QED BY <1>11, <2>2, <3>2, <3>3 DEF Queued
  <2> QED BY <1>6, <2>1, <2>2
<1>12. OneTrace(s, d.n)' /\ (s \in Tunnels =>
         Cons(s, d.n)' # {} \/ Queued(s, d.n)' # {} \/ Answers(s, d.n)' # {})
  <2>1. CASE line' = line /\ inbox'[s] = q /\ s \notin Tunnels
    <3>1. Cons(s, d.n)' = {} /\ Answers(s, d.n)' = {} /\ Queued(s, d.n)' = {}
      BY <1>7, <2>1 DEF Cons, Answers, Queued
    <3> QED BY <2>1, <3>1 DEF OneTrace, AtMostOne
  <2>2. CASE line' = line /\ inbox'[s] = Append(q, ans)
    <3>1. /\ Places(Append(q, ans), "con", s, d.n) = {}
          /\ Places(Append(q, ans), "answer", s, d.n) = {Len(q) + 1}
      BY <1>5, <1>7, AppendPlaces DEF Cons, Answers
    <3>2. /\ Cons(s, d.n)' = {} /\ Answers(s, d.n)' = {Len(q) + 1} /\ Queued(s, d.n)' = {}
      BY <1>7, <2>2, <3>1 DEF Cons, Answers, Queued
    <3> QED BY <3>2 DEF OneTrace, AtMostOne
  <2>3. CASE line' = line /\ inbox'[s] = Append(q, con)
    <3>1. /\ Places(Append(q, con), "con", s, d.n) = {Len(q) + 1}
          /\ Places(Append(q, con), "answer", s, d.n) = {}
      BY <1>5, <1>7, AppendPlaces DEF Cons, Answers
    <3>2. /\ Cons(s, d.n)' = {Len(q) + 1} /\ Answers(s, d.n)' = {} /\ Queued(s, d.n)' = {}
      BY <1>7, <2>3, <3>1 DEF Cons, Answers, Queued
    <3> QED BY <3>2 DEF OneTrace, AtMostOne
  <2>4. CASE line' = line /\ inbox'[s] = Append(Append(q, con), ans)
    <3>1. /\ Places(Append(q, con), "con", s, d.n) = {Len(q) + 1}
          /\ Places(Append(q, con), "answer", s, d.n) = {}
      BY <1>5, <1>7, AppendPlaces DEF Cons, Answers
    <3>2. /\ Places(Append(Append(q, con), ans), "con", s, d.n) = {Len(q) + 1}
          /\ Places(Append(Append(q, con), ans), "answer", s, d.n) = {Len(q) + 2}
      <4> DEFINE r == Append(q, con)
      <4>1. r \in Seq(Message) /\ Len(r) + 1 = Len(q) + 2
        BY <1>5, <1>8
      <4>2. Places(r, "con", s, d.n) = {Len(q) + 1} /\ Places(r, "answer", s, d.n) = {}
        BY <3>1
      <4> HIDE DEF r, q
      <4>3. Places(Append(r, ans), "con", s, d.n) = Places(r, "con", s, d.n)
        BY <1>5, <4>1, AppendPlaces
      <4>4. Places(Append(r, ans), "answer", s, d.n)
              = Places(r, "answer", s, d.n) \union {Len(r) + 1}
        BY <1>5, <4>1, AppendPlaces
      <4> QED BY <4>1, <4>2, <4>3, <4>4 DEF r
    <3>3. /\ Cons(s, d.n)' = {Len(q) + 1} /\ Answers(s, d.n)' = {Len(q) + 2}
          /\ Queued(s, d.n)' = {}
      BY <1>7, <2>4, <3>2 DEF Cons, Answers, Queued
    <3>4. Len(q) + 1 < Len(q) + 2
      BY <1>5
    <3> QED BY <3>3, <3>4 DEF OneTrace, AtMostOne
  <2>5. ASSUME inbox'[s] = q,
               NEW f \in Frame, f.s = s, f.n = d.n, line' = Append(line, f)
        PROVE  /\ OneTrace(s, d.n)'
               /\ Cons(s, d.n)' # {} \/ Queued(s, d.n)' # {} \/ Answers(s, d.n)' # {}
    <3>1. /\ DOMAIN line' = 1 .. Len(line) + 1
          /\ \A i \in 1 .. Len(line) : line'[i] = line[i]
          /\ line'[Len(line) + 1] = f
      BY <1>5, <2>5
    <3>2. \A i \in DOMAIN line' : i \in DOMAIN line \/ i = Len(line) + 1
      BY <1>5, <3>1
    <3>3. \A i \in DOMAIN line : i \in DOMAIN line' /\ line'[i] = line[i]
      BY <1>5, <3>1
    <3>4. Len(line) + 1 \in DOMAIN line'
      BY <1>5, <3>1
    <3>5. Queued(s, d.n)' = {Len(line) + 1}
      BY <1>7, <2>5, <3>1, <3>2, <3>3, <3>4 DEF Queued
    <3>6. Cons(s, d.n)' = {} /\ Answers(s, d.n)' = {}
      BY <1>7, <2>5 DEF Cons, Answers
    <3> QED BY <3>5, <3>6 DEF OneTrace, AtMostOne
  <2> QED BY <1>6, <2>1, <2>2, <2>3, <2>4, <2>5
<1>13. TraceInv'
  <2> SUFFICES ASSUME NEW t \in Sessions, NEW n \in Nat PROVE OneTrace(t, n)'
    BY DEF TraceInv
  <2>1. CASE t = s /\ n = d.n
    BY <1>12, <2>1
  <2>2. CASE t # s \/ n # d.n
    <3>1. /\ Cons(t, n)' = Cons(t, n) /\ Answers(t, n)' = Answers(t, n)
          /\ Queued(t, n)' = Queued(t, n)
      BY <1>9, <1>10, <1>11, <2>2
    <3>2. OneTrace(t, n)
      BY DEF AInv, TraceInv
    <3> QED BY <3>1, <3>2 DEF OneTrace, AtMostOne
  <2> QED BY <2>1, <2>2
<1>14. SettledInv'
  <2> SUFFICES ASSUME NEW t \in Tunnels, NEW n \in 1 .. Len(taken'[t])
               PROVE  Cons(t, n)' # {} \/ Queued(t, n)' # {} \/ Answers(t, n)' # {}
    BY <1>4 DEF SettledInv
  <2>1. t \in Sessions
    BY DEF Tunnels
  <2>2. CASE t = s /\ n = d.n
    BY <1>12, <2>2
  <2>3. CASE t # s \/ n # d.n
    <3>1. n \in 1 .. Len(taken[t])
      BY <1>2, <1>3, <2>1, <2>3
    <3>2. /\ Cons(t, n)' = Cons(t, n) /\ Answers(t, n)' = Answers(t, n)
          /\ Queued(t, n)' = Queued(t, n)
      BY <1>9, <1>10, <1>11, <2>1, <2>3
    <3> QED BY <3>1, <3>2 DEF AInv, SettledInv
  <2> QED BY <2>2, <2>3
<1>15. PastInv'
  <2>1. \A t \in Sessions : 1 .. Len(taken[t]) \subseteq 1 .. Len(taken'[t])
    BY <1>3
  <2>2. d.n \in 1 .. Len(taken'[s])
    BY <1>2, <1>3
  <2>3. \A i \in DOMAIN line :
          line[i].s \in Sessions /\ line[i].n \in 1 .. Len(taken'[line[i].s])
    <3>1. \A i \in DOMAIN line : line[i] \in Frame
      BY <1>5
    <3> QED BY <2>1, <3>1 DEF AInv, PastInv, Frame
  <2>4. \A i \in DOMAIN line' : line'[i].n \in 1 .. Len(taken'[line'[i].s])
    <3>1. CASE line' = line
      BY <2>3, <3>1
    <3>2. ASSUME NEW f \in Frame, f.s = s, f.n = d.n, line' = Append(line, f)
          PROVE  \A i \in DOMAIN line' : line'[i].n \in 1 .. Len(taken'[line'[i].s])
      <4>1. \A i \in DOMAIN line' : (i \in DOMAIN line /\ line'[i] = line[i]) \/ line'[i] = f
        BY <1>5, <3>2
      <4> QED BY <2>2, <2>3, <3>2, <4>1
    <3> QED BY <1>6, <3>1, <3>2
  <2>5. ASSUME NEW t \in Sessions, NEW i \in DOMAIN inbox'[t], inbox'[t][i].s = t
        PROVE  inbox'[t][i].n \in 1 .. Len(taken'[t])
    <3> DEFINE m == inbox'[t][i]
    <3>1. i \in Places(inbox'[t], m.kind, t, m.n)
      BY <2>5 DEF Places
    <3>2. CASE t # s
      <4>1. i \in Places(inbox[t], m.kind, t, m.n)
        BY <1>6, <3>1, <3>2
      <4>2. i \in DOMAIN inbox[t] /\ inbox[t][i].s = t /\ inbox[t][i].n = m.n
        BY <4>1 DEF Places
      <4>3. m.n \in 1 .. Len(taken[t])
        BY <4>2 DEF AInv, PastInv
      <4> QED BY <2>1, <4>3
    <3>3. CASE t = s
      <4>1. (i \in DOMAIN q /\ m = q[i]) \/ m = con \/ m = ans
        <5>1. i \in DOMAIN inbox'[s] /\ m = inbox'[s][i]
          BY <2>5, <3>3
        <5> HIDE DEF q, m
        <5>2. CASE inbox'[s] = q
          BY <5>1, <5>2
        <5>3. CASE inbox'[s] = Append(q, ans)
          BY <1>5, <5>1, <5>3
        <5>4. CASE inbox'[s] = Append(q, con)
          BY <1>5, <5>1, <5>4
        <5>5. CASE inbox'[s] = Append(Append(q, con), ans)
          BY <1>5, <5>1, <5>5
        <5> QED BY <1>6, <5>2, <5>3, <5>4, <5>5
      <4>2. CASE i \in DOMAIN q /\ m = q[i]
        <5>1. q[i].n \in 1 .. Len(taken[s])
          BY <2>5, <3>3, <4>2 DEF AInv, PastInv
        <5> QED BY <2>1, <3>3, <4>2, <5>1
      <4>3. CASE m = con \/ m = ans
        BY <1>5, <2>2, <3>3, <4>3
      <4> QED BY <4>1, <4>2, <4>3
    <3> QED BY <3>2, <3>3
  <2> QED BY <2>4, <2>5 DEF PastInv
<1> QED BY <1>13, <1>14, <1>15 DEF AInv

(* The line is done with a frame: its con is the trace that is left, if    *)
(* its tunnel is still there to hear it.                                   *)
LEMMA LineAccounts ==
  ASSUME IInv, AInv, LineAnswers
  PROVE  AInv'
<1> USE DEF IInv
<1>1. line # <<>> /\ line \in Seq(Frame) /\ inbox \in Boxes
  BY DEF LineAnswers, TypeOK, Boxes
<1>2. PICK f \in Frame : f = Head(line)
  BY <1>1
<1> DEFINE con == MessageOf("con", f)
<1>3. /\ inbox' = Put(inbox, Holders(f.source), con) /\ line' = Tail(line)
      /\ UNCHANGED <<conn, taken>>
  BY <1>2 DEF LineAnswers, Confirmed
<1>4. /\ Len(line) \in Nat /\ Len(line) >= 1 /\ DOMAIN line = 1 .. Len(line)
      /\ DOMAIN line' = 1 .. Len(line) - 1
      /\ \A i \in 1 .. Len(line) - 1 : line'[i] = line[i + 1]
      /\ f = line[1] /\ 1 \in DOMAIN line
  BY <1>1, <1>2, <1>3
<1>5. f \in Frame /\ FrameOf(f)
  BY <1>4 DEF FrameInv
<1>6. /\ con \in Message /\ con.kind = "con" /\ con.s = f.s /\ con.n = f.n
      /\ f.s \in Sessions /\ f.n \in Nat
  BY <1>5 DEF MessageOf, Message, Frame
<1> HIDE DEF con
<1>7. Tunnels' = Tunnels
  BY <1>3 DEF Tunnels, Open
<1>8. \A i \in DOMAIN line' : i + 1 \in DOMAIN line /\ line'[i] = line[i + 1]
  BY <1>4
<1>9. \A i \in DOMAIN line : i = 1 \/ (i - 1 \in DOMAIN line' /\ line'[i - 1] = line[i])
  BY <1>4
<1>10. 1 \in Queued(f.s, f.n)
  BY <1>4 DEF Queued
<1>11. /\ Queued(f.s, f.n) = {1} /\ Cons(f.s, f.n) = {} /\ Answers(f.s, f.n) = {}
  BY <1>6, <1>10 DEF AInv, TraceInv, OneTrace, AtMostOne
<1>12. Queued(f.s, f.n)' = {}
  <2>1. ASSUME NEW i \in Queued(f.s, f.n)' PROVE FALSE
    <3>1. i \in DOMAIN line' /\ line'[i].s = f.s /\ line'[i].n = f.n
      BY <2>1 DEF Queued
    <3>2. i + 1 \in Queued(f.s, f.n) /\ i \in Nat /\ i >= 1
      BY <1>4, <1>8, <3>1 DEF Queued
    <3> QED BY <1>11, <3>2
  <2> QED BY <2>1
<1>13. ASSUME NEW t, NEW n, ~(t = f.s /\ n = f.n)
       PROVE  /\ AtMostOne(Queued(t, n)) => AtMostOne(Queued(t, n)')
              /\ Queued(t, n)' = {} <=> Queued(t, n) = {}
  <2>1. ASSUME NEW i \in Queued(t, n)' PROVE i + 1 \in Queued(t, n) /\ i \in Nat
    BY <1>4, <1>8 DEF Queued
  <2>2. ASSUME NEW i \in Queued(t, n) PROVE i - 1 \in Queued(t, n)'
    <3>1. i \in DOMAIN line /\ line[i].s = t /\ line[i].n = n
      BY DEF Queued
    <3>2. i # 1
      BY <1>4, <1>13, <3>1
    <3> QED BY <1>9, <3>1, <3>2 DEF Queued
  <2>3. ASSUME AtMostOne(Queued(t, n)), NEW i \in Queued(t, n)', NEW j \in Queued(t, n)'
        PROVE  i = j
    <3>1. i + 1 = j + 1 /\ i \in Nat /\ j \in Nat
      BY <2>1, <2>3 DEF AtMostOne
    <3> QED BY <3>1
  <2> QED BY <2>1, <2>2, <2>3 DEF AtMostOne
<1>14. ASSUME NEW t \in Sessions, NEW n, ~(t = f.s /\ n = f.n), NEW kind
       PROVE  Places(inbox'[t], kind, t, n) = Places(inbox[t], kind, t, n)
  <2>1. inbox'[t] = inbox[t] \/ inbox'[t] = Append(inbox[t], con)
    BY <1>3 DEF Put
  <2>2. inbox[t] \in Seq(Message)
    BY <1>1 DEF Boxes
  <2>3. Places(Append(inbox[t], con), kind, t, n) = Places(inbox[t], kind, t, n)
    BY <1>6, <1>14, <2>2, AppendPlaces
  <2> QED BY <2>1, <2>3
<1>15. /\ Answers(f.s, f.n)' = {}
       /\ AtMostOne(Cons(f.s, f.n)')
       /\ f.s \in Tunnels => Cons(f.s, f.n)' # {}
  <2>1. inbox[f.s] \in Seq(Message)
    BY <1>1, <1>6 DEF Boxes
  <2>2. /\ Places(Append(inbox[f.s], con), "con", f.s, f.n) = {Len(inbox[f.s]) + 1}
        /\ Places(Append(inbox[f.s], con), "answer", f.s, f.n) = {}
    BY <1>6, <1>11, <2>1, AppendPlaces DEF Cons, Answers
  <2>3. inbox'[f.s] = IF f.s \in Holders(f.source) THEN Append(inbox[f.s], con)
                                                   ELSE inbox[f.s]
    BY <1>3, <1>6 DEF Put
  <2>4. f.s \in Tunnels => f.s \in Holders(f.source)
    BY <1>5 DEF FrameOf, Holders, Tunnels
  <2>5. CASE f.s \in Holders(f.source)
    <3>1. Cons(f.s, f.n)' = {Len(inbox[f.s]) + 1} /\ Answers(f.s, f.n)' = {}
      BY <2>2, <2>3, <2>5 DEF Cons, Answers
    <3> QED BY <3>1 DEF AtMostOne
  <2>6. CASE f.s \notin Holders(f.source)
    <3>1. Cons(f.s, f.n)' = {} /\ Answers(f.s, f.n)' = {}
      BY <1>11, <2>3, <2>6 DEF Cons, Answers
    <3> QED BY <2>4, <2>6, <3>1 DEF AtMostOne
  <2> QED BY <2>5, <2>6
<1>16. TraceInv'
  <2> SUFFICES ASSUME NEW t \in Sessions, NEW n \in Nat PROVE OneTrace(t, n)'
    BY DEF TraceInv
  <2>1. CASE t = f.s /\ n = f.n
    BY <1>12, <1>15, <2>1 DEF OneTrace, AtMostOne
  <2>2. CASE ~(t = f.s /\ n = f.n)
    <3>1. Cons(t, n)' = Cons(t, n) /\ Answers(t, n)' = Answers(t, n)
      BY <1>14, <2>2 DEF Cons, Answers
    <3>2. OneTrace(t, n)
      BY DEF AInv, TraceInv
    <3>3. AtMostOne(Queued(t, n)') /\ (Queued(t, n)' = {} <=> Queued(t, n) = {})
      BY <1>13, <2>2, <3>2 DEF OneTrace
    <3> QED BY <3>1, <3>2, <3>3 DEF OneTrace, AtMostOne
  <2> QED BY <2>1, <2>2
<1>17. SettledInv'
  <2> SUFFICES ASSUME NEW t \in Tunnels, NEW n \in 1 .. Len(taken[t])
               PROVE  Cons(t, n)' # {} \/ Queued(t, n)' # {} \/ Answers(t, n)' # {}
    BY <1>3, <1>7 DEF SettledInv
  <2>1. t \in Sessions
    BY DEF Tunnels
  <2>2. CASE t = f.s /\ n = f.n
    BY <1>15, <2>2
  <2>3. CASE ~(t = f.s /\ n = f.n)
    <3>1. Cons(t, n)' = Cons(t, n) /\ Answers(t, n)' = Answers(t, n)
      BY <1>14, <2>1, <2>3 DEF Cons, Answers
    <3>2. Queued(t, n)' = {} <=> Queued(t, n) = {}
      BY <1>13, <2>3
    <3> QED BY <3>1, <3>2 DEF AInv, SettledInv
  <2> QED BY <2>2, <2>3
<1>18. PastInv'
  <2>1. \A i \in DOMAIN line' : line'[i].n \in 1 .. Len(taken'[line'[i].s])
    BY <1>3, <1>8 DEF AInv, PastInv
  <2>2. ASSUME NEW t \in Sessions, NEW i \in DOMAIN inbox'[t], inbox'[t][i].s = t
        PROVE  inbox'[t][i].n \in 1 .. Len(taken'[t])
    <3>1. inbox[t] \in Seq(Message)
      BY <1>1 DEF Boxes
    <3>2. (i \in DOMAIN inbox[t] /\ inbox'[t][i] = inbox[t][i]) \/ inbox'[t][i] = con
      <4>1. inbox'[t] = inbox[t] \/ inbox'[t] = Append(inbox[t], con)
        BY <1>3 DEF Put
      <4> QED BY <1>6, <2>2, <3>1, <4>1
    <3>3. CASE i \in DOMAIN inbox[t] /\ inbox'[t][i] = inbox[t][i]
      BY <1>3, <2>2, <3>3 DEF AInv, PastInv
    <3>4. CASE inbox'[t][i] = con
      <4>1. f.n \in 1 .. Len(taken[f.s])
        BY <1>4 DEF AInv, PastInv
      <4> QED BY <1>3, <1>6, <2>2, <3>4, <4>1
    <3> QED BY <3>2, <3>3, <3>4
  <2> QED BY <2>1, <2>2 DEF PastInv
<1> QED BY <1>16, <1>17, <1>18 DEF AInv

(* Every executed telegram is accounted for in every behaviour.            *)
THEOREM AccountInvariant == Spec => []AInv
<1>1. Init => AInv
  <2> SUFFICES ASSUME Init PROVE AInv
    OBVIOUS
  <2>1. Tunnels = {} /\ line = <<>> /\ \A s \in Sessions : inbox[s] = <<>>
    BY DEF Init, Tunnels, Open
  <2>2. \A s \in Sessions, n \in Nat :
          Cons(s, n) = {} /\ Answers(s, n) = {} /\ Queued(s, n) = {}
    BY <2>1 DEF Cons, Answers, Queued, Places
  <2> QED BY <2>1, <2>2 DEF AInv, PastInv, TraceInv, OneTrace, AtMostOne, SettledInv
<1>2. IInv /\ AInv /\ [Next]_vars => AInv'
  <2> SUFFICES ASSUME IInv, AInv, [Next]_vars PROVE AInv'
    OBVIOUS
  <2>1. ASSUME NEW s \in Sessions, Connect(s) PROVE AInv'
    BY <2>1, ConnectAccounts
  <2>2. ASSUME NEW s \in Sessions, Close(s) PROVE AInv'
    <3>1. UNCHANGED <<taken, line, inbox>>
      BY <2>2 DEF Close
    <3>2. Tunnels' \subseteq Tunnels
      BY <2>2 DEF Close, Tunnels, Open, IInv, TypeOK, Connection
    <3> QED BY <3>1, <3>2, ApartSteps
  <2>3. ASSUME NEW s \in Sessions,
               \/ ClientRequests(s) \/ ClientRepeats(s) \/ ClientAcknowledged(s)
               \/ RequestRepeated(s) \/ RequestDiscarded(s)
        PROVE  AInv'
    <3>1. UNCHANGED <<conn, taken, line, inbox>>
      BY <2>3 DEF ClientRequests, ClientRepeats, ClientAcknowledged,
                  RequestRepeated, RequestDiscarded
    <3> QED BY <3>1, ApartSteps DEF Tunnels, Open
  <2>4. ASSUME NEW s \in Sessions, RequestExecuted(s) PROVE AInv'
    BY <2>4, ExecutedAccounts
  <2>5. CASE Vanish
    <3>1. UNCHANGED <<conn, taken, line, inbox>>
      BY <2>5 DEF Vanish
    <3> QED BY <3>1, ApartSteps DEF Tunnels, Open
  <2>6. CASE LineAnswers
    BY <2>6, LineAccounts
  <2>7. CASE UNCHANGED vars
    <3>1. UNCHANGED <<conn, taken, line, inbox>>
      BY <2>7 DEF vars
    <3> QED BY <3>1, ApartSteps DEF Tunnels, Open
  <2> QED BY <2>1, <2>2, <2>3, <2>4, <2>5, <2>6, <2>7 DEF Next
<1> QED BY <1>1, <1>2, Invariant, PTL DEF Spec

(* While its tunnel is open, a telegram is queued or was confirmed, once.  *)
THEOREM EveryTelegramAccounted == Spec => []ConAccounted
<1>1. IInv /\ AInv => ConAccounted
  <2> SUFFICES ASSUME IInv, AInv, NEW s \in Tunnels, NEW n \in DOMAIN taken[s]
               PROVE  \/ Cardinality(Cons(s, n)) + Cardinality(Queued(s, n)) = 1
                      \/ Answers(s, n) # {} /\ Cons(s, n) = {} /\ Queued(s, n) = {}
    BY DEF ConAccounted, Cons, Answers
  <2>1. s \in Sessions
    BY DEF Tunnels
  <2>2. n \in 1 .. Len(taken[s]) /\ n \in Nat
    <3>1. taken[s] \in Seq(Nat)
      BY <2>1 DEF IInv, TypeOK
    <3> QED BY <3>1
  <2>3. OneTrace(s, n) /\ (Cons(s, n) # {} \/ Queued(s, n) # {} \/ Answers(s, n) # {})
    BY <2>1, <2>2 DEF AInv, TraceInv, SettledInv
  <2>4. ASSUME NEW set, AtMostOne(set), set # {} PROVE Cardinality(set) = 1
    <3>1. PICK i : set = {i}
      BY <2>4 DEF AtMostOne
    <3> QED BY <3>1, FS_Singleton
  <2>5. Cardinality({}) = 0
    BY FS_EmptySet
  <2> QED BY <2>3, <2>4, <2>5 DEF OneTrace
<1> QED BY <1>1, Invariant, AccountInvariant, PTL

(* The device's answer never overtakes the con.                            *)
THEOREM AnswersComeAfterCons == Spec => []AnswerAfterCon
<1>1. IInv /\ AInv => AnswerAfterCon
  <2> SUFFICES ASSUME IInv, AInv, NEW s \in Sessions,
                      NEW i \in DOMAIN inbox[s], NEW j \in DOMAIN inbox[s],
                      inbox[s][i].kind = "answer", inbox[s][j].kind = "con",
                      inbox[s][i].s = s, inbox[s][j].s = s,
                      inbox[s][i].n = inbox[s][j].n
               PROVE  j < i
    BY DEF AnswerAfterCon
  <2>1. inbox[s][i].n \in Nat
    <3>1. inbox[s] \in Seq(Message)
      BY DEF IInv, TypeOK
    <3>2. inbox[s][i] \in Message
      BY <3>1
    <3> QED BY <3>2 DEF Message
  <2>2. i \in Answers(s, inbox[s][i].n) /\ j \in Cons(s, inbox[s][i].n)
    BY DEF Answers, Cons, Places
  <2> QED BY <2>1, <2>2 DEF AInv, TraceInv, OneTrace
<1> QED BY <1>1, Invariant, AccountInvariant, PTL

=============================================================================
