-------------------------- MODULE TpTransmit_proofs --------------------------
(***************************************************************************)
(* Theorems about TpTransmit: type correctness, the frame the UART task    *)
(* reads, what becomes of every frame handed over, the truth of a          *)
(* confirmation, how often and when one is lost, and that TpTransmit       *)
(* implements LineContract, for any set of frames, any headers, and any    *)
(* size of queue, ring and serial line.                                    *)
(* At the end, the theorem about TpLink, the other half of the driver:     *)
(* that host and chip agree whether frames carry a CRC.                    *)
(***************************************************************************)
EXTENDS TpTransmit, TpAgreement, SequenceTheorems, TLAPS

USE FrameAssumption, BoundAssumption

FrameOrNone == Frame \union {NoFrame}

-----------------------------------------------------------------------------
(* Types.                                                                  *)

Places ==
  {"idle", "handle", "drop", "clear", "report", "queue", "transmit", "ring",
   "watch", "resetRing", "resetLock"}

MainType == pc \in Places /\ back \in {"idle", "queue"} /\ pops \in 0 .. PopMax
TransmitterType ==
  /\ queue \in Seq(Frame) /\ Len(queue) <= QueueMax
  /\ frame \in FrameOrNone /\ tx \in {"idle", "transmit", "await"}
  /\ begun \in BOOLEAN /\ dropped \in Seq(Frame)
ReceiverType ==
  /\ ring \in Seq(Entries) /\ Len(ring) <= RingMax
  /\ wait \in FrameOrNone /\ invalid \in BOOLEAN
LinkType == uReset \in BOOLEAN /\ resetPending \in BOOLEAN /\ connected \in BOOLEAN
UartType == uart \in Seq(Tokens) /\ Len(uart) <= UartMax
ChipType ==
  /\ up \in BOOLEAN /\ echoed \in BOOLEAN /\ request \in BOOLEAN
  /\ loading \in FrameOrNone /\ sending \in FrameOrNone
HistoryType ==
  /\ taken \subseteq Frame /\ acked \subseteq Frame /\ lost \subseteq Frame
  /\ confs \in [Frame -> Seq(BOOLEAN)]
BoundType == downs \in 0 .. MaxDowns /\ noises \in 0 .. MaxNoise

AllTypes ==
  /\ MainType /\ TransmitterType /\ ReceiverType /\ LinkType /\ UartType
  /\ ChipType /\ HistoryType /\ BoundType

LEMMA TypeParts == TypeOK <=> AllTypes
<1>1. TypeOK => AllTypes
  BY DEF TypeOK, AllTypes, MainType, TransmitterType, ReceiverType, LinkType, UartType,
         ChipType, HistoryType, BoundType, FrameOrNone, Places
<1>2. AllTypes => TypeOK
  BY DEF TypeOK, AllTypes, MainType, TransmitterType, ReceiverType, LinkType, UartType,
         ChipType, HistoryType, BoundType, FrameOrNone, Places
<1> QED BY <1>1, <1>2

-----------------------------------------------------------------------------
(* Whenever a frame is in flight there is one, but for the moment between  *)
(* the two steps of Transmitter::reset; what the chip says is about a      *)
(* frame, and so is a confirmation in the ring.                            *)
LiveInv ==
  /\ pc = "clear" => frame = NoFrame
  /\ pc # "clear" /\ tx # "idle" => frame \in Frame
  /\ \A i \in 1 .. Len(uart) : uart[i].kind \in {"echo", "con"} => uart[i].f \in Frame
  /\ \A i \in 1 .. Len(ring) : Confirms(ring[i]) => ring[i].f \in Frame

BaseInv == AllTypes /\ LiveInv

(* What is said on the serial line.                                        *)
LEMMA SaysIs ==
  ASSUME UartType, NEW t \in Tokens, Says(t)
  PROVE  /\ UartType' /\ Len(uart) \in Nat
         /\ Len(uart') = Len(uart) + 1 /\ uart'[Len(uart) + 1] = t
         /\ \A i \in 1 .. Len(uart) : uart'[i] = uart[i]
<1> HIDE DEF Tokens
<1>1. uart \in Seq(Tokens) /\ uart' = Append(uart, t) /\ Len(uart) < UartMax
  BY DEF UartType, Says
<1> QED BY <1>1 DEF UartType

LEMMA HearsIs ==
  ASSUME UartType, UartTask
  PROVE  /\ UartType' /\ Len(uart) \in Nat \ {0} /\ Len(uart') = Len(uart) - 1
         /\ Head(uart) = uart[1] /\ uart[1] \in Tokens
         /\ \A i \in 1 .. Len(uart') : uart'[i] = uart[i + 1]
         /\ Tail(uart) # <<>> <=> Len(uart) > 1
<1> HIDE DEF Tokens
<1>1. uart \in Seq(Tokens) /\ uart # <<>> /\ uart' = Tail(uart) /\ Len(uart) <= UartMax
  BY DEF UartType, UartTask
<1>2. /\ Tail(uart) \in Seq(Tokens) /\ Len(Tail(uart)) = Len(uart) - 1
      /\ \A i \in 1 .. Len(Tail(uart)) : Tail(uart)[i] = uart[i + 1]
      /\ Head(uart) = uart[1] /\ uart[1] \in Tokens /\ Len(uart) \in Nat \ {0}
  BY <1>1, HeadTailProperties, EmptySeq, ElementOfSeq
<1>3. Tail(uart) # <<>> <=> Len(Tail(uart)) # 0
  BY <1>2, EmptySeq
<1> QED BY <1>1, <1>2, <1>3 DEF UartType

(* The ring after some entries were pushed: what was there is there, and a *)
(* confirmation that was pushed is there or counted lost.                  *)
LEMMA PushedIs ==
  ASSUME ReceiverType, HistoryType, LiveInv, NEW es \in Seq(Entries), NEW u, u \subseteq Frame,
         \A i \in 1 .. Len(es) : Confirms(es[i]) => es[i].f \in Frame,
         Pushed(es, u)
  PROVE  /\ ring' \in Seq(Entries) /\ Len(ring') <= RingMax
         /\ Len(ring) \in Nat /\ Len(ring) <= Len(ring')
         /\ \A i \in 1 .. Len(ring) : ring'[i] = ring[i]
         /\ \A i \in Len(ring) + 1 .. Len(ring') :
              i - Len(ring) \in 1 .. Len(es) /\ ring'[i] = es[i - Len(ring)]
         /\ \A i \in 1 .. Len(ring') : Confirms(ring'[i]) => ring'[i].f \in Frame
         /\ lost' \subseteq Frame /\ lost \union u \subseteq lost'
         /\ \A i \in 1 .. Len(es) : Confirms(es[i]) =>
              es[i].f \in lost' \/ (Len(ring) + i \in 1 .. Len(ring') /\ ring'[Len(ring) + i] = es[i])
         /\ lost' \subseteq lost \union u \union
              {es[i].f : i \in {k \in 1 .. Len(es) : Confirms(es[k]) /\ Len(ring) + k > RingMax}}
<1> DEFINE space == RingMax - Len(ring)
           kept == IF Len(es) <= space THEN Len(es) ELSE space
           part == SubSeq(es, 1, kept)
<1> HIDE DEF Entries
<1>1. ring \in Seq(Entries) /\ Len(ring) <= RingMax /\ Len(ring) \in Nat /\ RingMax \in Nat
  BY DEF ReceiverType
<1>2. Len(es) \in Nat /\ kept \in 0 .. Len(es) /\ kept <= space
  BY <1>1
<1>3. /\ ring' = ring \o part
      /\ lost' = lost \union u \union {es[i].f : i \in {k \in kept + 1 .. Len(es) : Confirms(es[k])}}
  BY DEF Pushed
<1>4. \A k \in kept + 1 .. Len(es) : k \in 1 .. Len(es) /\ Len(ring) + k > RingMax
  BY <1>1, <1>2
<1> HIDE DEF kept
<1>5. /\ part \in Seq(Entries) /\ Len(part) = kept
      /\ \A i \in 1 .. kept : part[i] = es[i]
  <2>1. \A i \in 1 .. kept : es[i] \in Entries BY <1>2, ElementOfSeq
  <2>2. /\ SubSeq(es, 1, kept) \in Seq(Entries)
        /\ Len(SubSeq(es, 1, kept)) = IF 1 <= kept THEN kept - 1 + 1 ELSE 0
        /\ \A i \in 1 .. kept - 1 + 1 : SubSeq(es, 1, kept)[i] = es[1 + i - 1]
    BY <1>2, <2>1, SubSeqProperties
  <2> QED BY <1>2, <2>2
<1> HIDE DEF part
<1>6. /\ ring' \in Seq(Entries) /\ Len(ring') = Len(ring) + kept
      /\ \A i \in 1 .. Len(ring) + kept :
           ring'[i] = IF i <= Len(ring) THEN ring[i] ELSE part[i - Len(ring)]
  <2>1. /\ ring \o part \in Seq(Entries) /\ Len(ring \o part) = Len(ring) + Len(part)
        /\ \A i \in 1 .. Len(ring) + Len(part) :
             (ring \o part)[i] = IF i <= Len(ring) THEN ring[i] ELSE part[i - Len(ring)]
    BY <1>1, <1>5, ConcatProperties
  <2> QED BY <1>3, <1>5, <2>1
<1>7. \A i \in 1 .. Len(ring) : ring'[i] = ring[i]
  BY <1>1, <1>2, <1>6
<1>8. \A i \in Len(ring) + 1 .. Len(ring') :
        i - Len(ring) \in 1 .. Len(es) /\ ring'[i] = es[i - Len(ring)]
  BY <1>1, <1>2, <1>5, <1>6
<1>9. \A i \in 1 .. Len(ring') : Confirms(ring'[i]) => ring'[i].f \in Frame
  <2> TAKE i \in 1 .. Len(ring')
  <2>1. CASE i <= Len(ring) BY <1>1, <1>7, <2>1 DEF LiveInv
  <2>2. CASE i > Len(ring)
    <3>1. i \in Len(ring) + 1 .. Len(ring') BY <1>1, <1>2, <1>6, <2>2
    <3> QED BY <1>8, <3>1
  <2> QED BY <1>1, <1>6, <2>1, <2>2
<1>10. \A i \in 1 .. Len(es) : Confirms(es[i]) =>
         es[i].f \in lost' \/ (Len(ring) + i \in 1 .. Len(ring') /\ ring'[Len(ring) + i] = es[i])
  <2> SUFFICES ASSUME NEW i \in 1 .. Len(es), Confirms(es[i])
               PROVE  \/ es[i].f \in lost'
                      \/ Len(ring) + i \in 1 .. Len(ring') /\ ring'[Len(ring) + i] = es[i]
    OBVIOUS
  <2>1. CASE i <= kept
    <3>1. /\ Len(ring) + i \in 1 .. Len(ring) + kept /\ ~(Len(ring) + i <= Len(ring))
          /\ (Len(ring) + i) - Len(ring) = i /\ i \in 1 .. kept
      BY <1>1, <1>2, <2>1
    <3>2. ring'[Len(ring) + i] = part[i] BY <1>6, <3>1
    <3> QED BY <1>5, <1>6, <3>1, <3>2
  <2>2. CASE i > kept
    <3>1. i \in kept + 1 .. Len(es) BY <1>2, <2>2
    <3> QED BY <1>3, <3>1
  <2> QED BY <1>2, <2>1, <2>2
<1>11. lost' \subseteq Frame /\ lost \union u \subseteq lost'
  BY <1>2, <1>3, <1>4 DEF HistoryType
<1>12. lost' \subseteq lost \union u \union
              {es[i].f : i \in {k \in 1 .. Len(es) : Confirms(es[k]) /\ Len(ring) + k > RingMax}}
  BY <1>3, <1>4
<1>13. Len(ring') <= RingMax /\ Len(ring) <= Len(ring') BY <1>1, <1>2, <1>6
<1> HIDE DEF Confirms
<1> QED BY <1>1, <1>6, <1>7, <1>8, <1>9, <1>10, <1>11, <1>12, <1>13

(* One entry is pushed unless the ring is full.                            *)
LEMMA PushedFits ==
  ASSUME ReceiverType, NEW e \in Entries, NEW u, Pushed(<<e>>, u), Len(ring') = Len(ring)
  PROVE  Len(ring) = RingMax
<1> HIDE DEF Entries
<1>1. ring \in Seq(Entries) /\ Len(ring) <= RingMax /\ Len(ring) \in Nat /\ RingMax \in Nat
  BY DEF ReceiverType
<1>2. Len(<<e>>) = 1 /\ <<e>> \in Seq(Entries) OBVIOUS
<1>3. SUFFICES ASSUME Len(ring) < RingMax PROVE FALSE
  BY <1>1
<1>4. ring' = ring \o SubSeq(<<e>>, 1, 1) BY <1>1, <1>2, <1>3 DEF Pushed
<1>5. SubSeq(<<e>>, 1, 1) = <<e>> BY <1>2, SubSeqFull
<1>6. Len(ring \o <<e>>) = Len(ring) + 1 BY <1>1, <1>2, ConcatProperties
<1> QED BY <1>1, <1>4, <1>5, <1>6

-----------------------------------------------------------------------------
(* What the UART task does to the ring.                                    *)

RingGrows ==
  /\ ring' \in Seq(Entries) /\ Len(ring') <= RingMax
  /\ Len(ring) \in Nat /\ Len(ring) <= Len(ring')
  /\ \A i \in 1 .. Len(ring) : ring'[i] = ring[i]
  /\ \A i \in 1 .. Len(ring') : Confirms(ring'[i]) => ring'[i].f \in Frame
  /\ lost \subseteq lost' /\ lost' \subseteq Frame

(* Nothing but frames of others and echoes without a confirmation comes in *)
Plain ==
  /\ RingGrows
  /\ \A i \in Len(ring) + 1 .. Len(ring') : ~Confirms(ring'[i])

(* The confirmation of the held echo comes in, or is lost to a full ring.  *)
Confirming ==
  LET entry == Entry(wait, TRUE, TRUE, uart[1].ok)
  IN  /\ RingGrows
      /\ Len(ring') <= Len(ring) + 1
      /\ Len(ring') = Len(ring) + 1 => ring'[Len(ring) + 1] = entry
      /\ Len(ring') = Len(ring) => wait \in lost' /\ Len(ring) = RingMax
      /\ tx = "await" /\ frame # wait => frame \in lost'
      /\ tx # "await" \/ frame = wait => lost' = lost \/ Len(ring) = RingMax

LEMMA EntryType ==
  ASSUME NEW f \in FrameOrNone, NEW own \in BOOLEAN, NEW con \in BOOLEAN, NEW ok \in BOOLEAN
  PROVE  /\ Entry(f, own, con, ok) \in Entries
         /\ Confirms(Entry(f, own, con, ok)) <=> own /\ con
         /\ Entry(f, own, con, ok).f = f
BY DEF Entry, Entries, FrameOrNone, Confirms

LEMMA HeldIs ==
  ASSUME ReceiverType
  PROVE  /\ HeldEcho \in Seq(Entries)
         /\ \A i \in 1 .. Len(HeldEcho) : ~Confirms(HeldEcho[i])
<1> DEFINE e == Entry(wait, TRUE, FALSE, FALSE)
<1>1. e \in Entries /\ ~Confirms(e)
  BY EntryType DEF ReceiverType
<1> HIDE DEF e, Entries
<1>2. HeldEcho = <<>> \/ HeldEcho = <<e>> BY DEF HeldEcho, e
<1>3. CASE HeldEcho = <<>> BY <1>3
<1>4. CASE HeldEcho = <<e>>
  <2>1. <<e>> \in Seq(Entries) /\ Len(<<e>>) = 1 /\ <<e>>[1] = e BY <1>1
  <2> QED BY <1>1, <1>4, <2>1
<1> QED BY <1>2, <1>3, <1>4

LEMMA PlainPushed ==
  ASSUME BaseInv, NEW es \in Seq(Entries), \A i \in 1 .. Len(es) : ~Confirms(es[i]),
         Pushed(es, {})
  PROVE  Plain /\ lost' = lost
<1> HIDE DEF Entries, Confirms
<1>1. /\ ring' \in Seq(Entries) /\ Len(ring') <= RingMax
      /\ Len(ring) \in Nat /\ Len(ring) <= Len(ring')
      /\ \A i \in 1 .. Len(ring) : ring'[i] = ring[i]
      /\ \A i \in Len(ring) + 1 .. Len(ring') :
           i - Len(ring) \in 1 .. Len(es) /\ ring'[i] = es[i - Len(ring)]
      /\ \A i \in 1 .. Len(ring') : Confirms(ring'[i]) => ring'[i].f \in Frame
      /\ lost' \subseteq Frame /\ lost \union {} \subseteq lost'
      /\ lost' \subseteq lost \union {} \union
           {es[i].f : i \in {k \in 1 .. Len(es) : Confirms(es[k]) /\ Len(ring) + k > RingMax}}
  BY PushedIs, {} \subseteq Frame DEF BaseInv, AllTypes
<1>2. lost' = lost BY <1>1
<1>3. RingGrows BY <1>1 DEF RingGrows
<1>4. \A i \in Len(ring) + 1 .. Len(ring') : ~Confirms(ring'[i]) BY <1>1
<1> QED BY <1>2, <1>3, <1>4 DEF Plain

LEMMA HeardCon ==
  ASSUME BaseInv, UartTask, ReceiveCon
  PROVE  Confirming
<1> DEFINE e == Entry(wait, TRUE, TRUE, uart[1].ok)
           u == IF tx = "await" /\ frame # wait THEN {frame} ELSE {}
           es == <<e>>
<1>1. uart[1] \in Tokens /\ Head(uart) = uart[1] BY HearsIs DEF BaseInv, AllTypes
<1>2. uart[1].ok \in BOOLEAN BY <1>1 DEF Tokens
<1>3. wait \in Frame BY DEF ReceiveCon, BaseInv, AllTypes, ReceiverType, FrameOrNone
<1>4. e \in Entries /\ Confirms(e) /\ e.f = wait
  BY <1>2, <1>3, EntryType DEF FrameOrNone
<1>5. u \subseteq Frame
  BY DEF UartTask, RxLocked, BaseInv, LiveInv
<1>6. Pushed(<<e>>, u) BY <1>1 DEF ReceiveCon
<1> HIDE DEF e, u, Entries, Confirms
<1>7. es \in Seq(Entries) /\ Len(es) = 1 /\ es[1] = e BY <1>4
<1>8. \A i \in 1 .. Len(es) : Confirms(es[i]) => es[i].f \in Frame
  BY <1>3, <1>4, <1>7
<1> HIDE DEF es
<1>9. Pushed(es, u) BY <1>6 DEF es
<1>10. /\ ring' \in Seq(Entries) /\ Len(ring') <= RingMax
       /\ Len(ring) \in Nat /\ Len(ring) <= Len(ring')
       /\ \A i \in 1 .. Len(ring) : ring'[i] = ring[i]
       /\ \A i \in Len(ring) + 1 .. Len(ring') :
            i - Len(ring) \in 1 .. Len(es) /\ ring'[i] = es[i - Len(ring)]
       /\ \A i \in 1 .. Len(ring') : Confirms(ring'[i]) => ring'[i].f \in Frame
       /\ lost' \subseteq Frame /\ lost \union u \subseteq lost'
       /\ \A i \in 1 .. Len(es) : Confirms(es[i]) =>
            es[i].f \in lost' \/ (Len(ring) + i \in 1 .. Len(ring') /\ ring'[Len(ring) + i] = es[i])
       /\ lost' \subseteq lost \union u \union
            {es[i].f : i \in {k \in 1 .. Len(es) : Confirms(es[k]) /\ Len(ring) + k > RingMax}}
  BY <1>5, <1>7, <1>8, <1>9, PushedIs DEF BaseInv, AllTypes
<1>11. RingGrows BY <1>10 DEF RingGrows
<1>12. /\ ring' \in Seq(Entries) /\ Len(ring') \in Nat /\ RingMax \in Nat
       /\ Len(ring) <= RingMax
  <2>1. Len(ring) <= RingMax BY DEF BaseInv, AllTypes, ReceiverType
  <2> QED BY <1>10, <2>1
<1>13. Len(ring') <= Len(ring) + 1
  <2>1. SUFFICES ASSUME Len(ring') > Len(ring) + 1 PROVE FALSE
    BY <1>10, <1>12
  <2>2. Len(ring) + 2 \in Len(ring) + 1 .. Len(ring') BY <1>10, <1>12, <2>1
  <2>3. (Len(ring) + 2) - Len(ring) \in 1 .. 1 BY <1>7, <1>10, <2>2
  <2> QED BY <1>10, <2>3
<1>14. Len(ring') = Len(ring) + 1 => ring'[Len(ring) + 1] = e
  <2>1. SUFFICES ASSUME Len(ring') = Len(ring) + 1 PROVE ring'[Len(ring) + 1] = e
    OBVIOUS
  <2>2. Len(ring) + 1 \in Len(ring) + 1 .. Len(ring') /\ (Len(ring) + 1) - Len(ring) = 1
    BY <1>10, <2>1
  <2>3. ring'[Len(ring) + 1] = es[(Len(ring) + 1) - Len(ring)] BY <1>10, <2>2
  <2> QED BY <1>7, <2>2, <2>3
<1>15. Len(ring') = Len(ring) => wait \in lost' /\ Len(ring) = RingMax
  <2>1. SUFFICES ASSUME Len(ring') = Len(ring) PROVE wait \in lost' /\ Len(ring) = RingMax
    OBVIOUS
  <2>2. 1 \in 1 .. Len(es) /\ ~(Len(ring) + 1 \in 1 .. Len(ring')) BY <1>7, <1>10, <2>1
  <2>3. wait \in lost' BY <1>4, <1>7, <1>10, <2>2
  <2>4. Len(ring) = RingMax
    BY <1>4, <1>6, <2>1, PushedFits DEF BaseInv, AllTypes
  <2> QED BY <2>3, <2>4
<1>16. tx = "await" /\ frame # wait => frame \in lost' BY <1>10 DEF u
<1>17. tx # "await" \/ frame = wait => lost' = lost \/ Len(ring) = RingMax
  <2>1. SUFFICES ASSUME tx # "await" \/ frame = wait, Len(ring) # RingMax PROVE lost' = lost
    OBVIOUS
  <2>2. u = {} BY <2>1 DEF u
  <2>3. \A k \in 1 .. Len(es) : ~(Len(ring) + k > RingMax) BY <1>7, <1>10, <1>12, <2>1
  <2> QED BY <1>10, <2>2, <2>3
<1> QED BY <1>11, <1>13, <1>14, <1>15, <1>16, <1>17 DEF Confirming, e

(* The six things a token can be received as.                              *)
LEMMA Heard ==
  ASSUME BaseInv, UartTask
  PROVE  \/ /\ ReceiveCon /\ Confirming
         \/ /\ ReceiveState \/ ReceiveOrphanCon
            /\ ring' = ring /\ Plain
         \/ /\ ReceiveOwnEcho \/ ReceiveFrame \/ ReceiveControl
            /\ lost' = lost /\ Plain
<1> HIDE DEF Entries
<1>1. /\ ring \in Seq(Entries) /\ Len(ring) <= RingMax /\ Len(ring) \in Nat
      /\ lost \subseteq Frame /\ (tx = "await" => frame \in Frame)
      /\ \A i \in 1 .. Len(ring) : Confirms(ring[i]) => ring[i].f \in Frame
  BY DEF BaseInv, AllTypes, ReceiverType, HistoryType, LiveInv, UartTask, RxLocked
<1>2. CASE ReceiveCon BY <1>2, HeardCon
<1>3. CASE ReceiveState \/ ReceiveOrphanCon
  <2>1. ring' = ring /\ lost \subseteq lost' /\ lost' \subseteq Frame
    BY <1>1, <1>3 DEF ReceiveState, ReceiveOrphanCon
  <2>2. Plain BY <1>1, <2>1 DEF Plain, RingGrows
  <2> QED BY <1>3, <2>1, <2>2
<1>4. /\ HeldEcho \in Seq(Entries)
      /\ \A i \in 1 .. Len(HeldEcho) : ~Confirms(HeldEcho[i])
  BY HeldIs DEF BaseInv, AllTypes
<1>5. CASE ReceiveOwnEcho \/ ReceiveControl
  <2>1. Pushed(HeldEcho, {}) BY <1>5 DEF ReceiveOwnEcho, ReceiveControl
  <2> QED BY <1>4, <1>5, <2>1, PlainPushed
<1>6. CASE ReceiveFrame
  <2> DEFINE e == Entry(Head(uart).f, FALSE, FALSE, FALSE)
             es == Append(HeldEcho, e)
  <2>1. Pushed(es, {}) BY <1>6 DEF ReceiveFrame
  <2>2. Head(uart).f \in FrameOrNone
    BY HearsIs DEF BaseInv, AllTypes, Tokens, FrameOrNone
  <2>3. e \in Entries /\ ~Confirms(e) BY <2>2, EntryType
  <2> HIDE DEF e
  <2>4. es \in Seq(Entries) BY <1>4, <2>3
  <2>5. \A i \in 1 .. Len(es) : ~Confirms(es[i]) BY <1>4, <2>3
  <2> HIDE DEF es
  <2> QED BY <1>6, <2>1, <2>4, <2>5, PlainPushed
<1> QED BY <1>2, <1>3, <1>5, <1>6 DEF UartTask

-----------------------------------------------------------------------------
(* The steps, sorted by what they touch.                                   *)

(* Steps of the main loop that touch neither a frame nor a confirmation.   *)
Bookkeeping ==
  \/ BeginPass \/ ResetPendingTimeout \/ HandleReset \/ EndTransmit \/ RingDone
  \/ StartOfReset \/ Disconnect \/ EndPass \/ ResetRingDone

ChipStep ==
  \/ \E again \in BOOLEAN : ChipEchoes(again)
  \/ \E ok \in BOOLEAN : ChipConfirms(ok)
  \/ ChipState \/ LineFrame \/ ChipRestarts \/ ChipDown \/ ChipUp \/ Noise

LEMMA Steps ==
  ASSUME [Next]_vars
  PROVE  \/ \E f \in Frame : SendFrame(f)
         \/ Bookkeeping \/ DropFrame \/ DropQueue \/ ReportDropped \/ ProcessQueue
         \/ TransmitStart \/ TransmitEnd \/ ProcessRing \/ ResetLocked
         \/ UartTask \/ ChipStep \/ UNCHANGED vars
<1>1. CASE ChipFinishes
  BY <1>1, TRUE \in BOOLEAN, FALSE \in BOOLEAN DEF ChipFinishes, ChipStep
<1>2. CASE ChipEchoes(TRUE)
  BY <1>2, TRUE \in BOOLEAN DEF ChipStep
<1> QED BY <1>1, <1>2 DEF Next, MainLoop, Transmit, Bookkeeping, ChipStep

LEMMA BookkeepingKeeps ==
  ASSUME Bookkeeping, MainType
  PROVE  /\ UNCHANGED <<transmitter, receiver, uart, chip, history, bounds>>
         /\ pc # "clear" /\ pc' # "clear" /\ MainType'
         /\ LinkType => LinkType'
<1>1. 0 \in 0 .. PopMax OBVIOUS
<1> USE DEF main, transmitter, receiver, link, chip, history, bounds
<1>2. CASE StartOfReset
  BY <1>1, <1>2 DEF StartOfReset, TransmitterWatchdog, DesyncWatchdog, BcuRecovery, StartReset,
     MainType, LinkType, Places
<1>3. CASE HandleReset
  BY <1>3 DEF HandleReset, MainType, LinkType, Places
<1>4. CASE EndTransmit
  BY <1>1, <1>4 DEF EndTransmit, MainType, LinkType, Places
<1>5. CASE BeginPass
  BY <1>5 DEF BeginPass, MainType, LinkType, Places
<1>6. CASE ResetPendingTimeout \/ Disconnect
  BY <1>6 DEF ResetPendingTimeout, Disconnect, MainType, LinkType, Places
<1>7. CASE RingDone \/ EndPass \/ ResetRingDone
  BY <1>7 DEF RingDone, EndPass, ResetRingDone, MainType, LinkType, Places
<1> QED BY <1>2, <1>3, <1>4, <1>5, <1>6, <1>7 DEF Bookkeeping

(* What the chip and the line do: at most one token is said.               *)
Said(t) ==
  \/ t.kind \in {"state", "frame", "reset", "noise"}
  \/ t.kind \in {"echo", "con"} /\ sending # NoFrame /\ t.f = sending

LEMMA ChipSays ==
  ASSUME ChipStep, ChipType, UartType, HistoryType, BoundType
  PROVE  /\ UNCHANGED <<main, transmitter, receiver, link, taken, confs, lost>>
         /\ ChipType' /\ HistoryType' /\ BoundType'
         /\ acked \subseteq acked'
         /\ uart' = uart \/ (\E t \in Tokens : Said(t) /\ Says(t))
<1> USE DEF ChipOnly, chip, bounds, FrameOrNone
<1>1. \A k \in {"state", "frame", "reset", "noise"} : Token(k) \in Tokens /\ Said(Token(k))
  BY DEF Token, Tokens, Said
<1>2. sending \in Frame => \A ok \in BOOLEAN :
        /\ Echo(sending) \in Tokens /\ Said(Echo(sending))
        /\ Con(sending, ok) \in Tokens /\ Said(Con(sending, ok))
  BY DEF Echo, Con, Tokens, Said
<1> HIDE DEF Tokens
<1>3. CASE \E again \in BOOLEAN : ChipEchoes(again)
  BY <1>2, <1>3 DEF ChipEchoes, ChipType, HistoryType, BoundType
<1>4. CASE \E ok \in BOOLEAN : ChipConfirms(ok)
  BY <1>2, <1>4 DEF ChipConfirms, ChipType, HistoryType, BoundType
<1>5. CASE ChipState \/ LineFrame
  BY <1>1, <1>5 DEF ChipState, LineFrame, ChipType, HistoryType, BoundType
<1>6. CASE ChipRestarts
  BY <1>1, <1>6 DEF ChipRestarts, ChipType, HistoryType, BoundType
<1>7. CASE ChipDown
  <2>1. downs \in 0 .. MaxDowns => downs + 1 \in 0 .. MaxDowns
    BY <1>7 DEF ChipDown
  <2> QED BY <1>7, <2>1 DEF ChipDown, ChipType, HistoryType, BoundType
<1>8. CASE ChipUp
  BY <1>1, <1>8 DEF ChipUp, ChipType, HistoryType, BoundType
<1>9. CASE Noise
  BY <1>1, <1>9 DEF Noise, ChipType, HistoryType, BoundType
<1> QED BY <1>3, <1>4, <1>5, <1>6, <1>7, <1>8, <1>9 DEF ChipStep

-----------------------------------------------------------------------------
(* Type correctness, and that a frame in flight is there.                  *)

LEMMA ConfirmType ==
  ASSUME NEW f \in Frame, NEW ok \in BOOLEAN, confs \in [Frame -> Seq(BOOLEAN)], Confirm(f, ok)
  PROVE  /\ confs' \in [Frame -> Seq(BOOLEAN)]
         /\ confs'[f] = Append(confs[f], ok)
         /\ \A g \in Frame : g # f => confs'[g] = confs[g]
<1>1. Append(confs[f], ok) \in Seq(BOOLEAN) OBVIOUS
<1> QED BY <1>1 DEF Confirm

LEMMA UnconfirmedIs ==
  ASSUME BaseInv
  PROVE  /\ Unconfirmed \in Seq(Frame)
         /\ tx # "idle" /\ frame # NoFrame => Unconfirmed = <<frame>> /\ frame \in Frame
         /\ tx = "idle" \/ frame = NoFrame => Unconfirmed = <<>>
<1>1. frame \in FrameOrNone /\ tx \in {"idle", "transmit", "await"}
  BY DEF BaseInv, AllTypes, TransmitterType
<1>2. frame # NoFrame => <<frame>> \in Seq(Frame) BY <1>1 DEF FrameOrNone
<1> QED BY <1>1, <1>2 DEF Unconfirmed, FrameOrNone

LEMMA RestsBase ==
  ASSUME BaseInv, Bookkeeping \/ UNCHANGED vars
  PROVE  BaseInv'
<1>1. /\ UNCHANGED <<transmitter, receiver, uart, chip, history, bounds>>
      /\ pc = "clear" <=> pc' = "clear"
      /\ MainType' /\ LinkType'
  <2>1. CASE Bookkeeping BY <2>1, BookkeepingKeeps DEF BaseInv, AllTypes
  <2>2. CASE UNCHANGED vars
    BY <2>2 DEF vars, main, link, BaseInv, AllTypes, MainType, LinkType
  <2> QED BY <2>1, <2>2
<1>2. /\ TransmitterType' /\ ReceiverType' /\ UartType' /\ ChipType' /\ HistoryType' /\ BoundType'
  BY <1>1 DEF BaseInv, AllTypes, TransmitterType, ReceiverType, UartType, ChipType, HistoryType,
     BoundType, transmitter, receiver, chip, history, bounds
<1>3. LiveInv'
  BY <1>1 DEF BaseInv, LiveInv, transmitter, receiver, chip
<1> QED BY <1>1, <1>2, <1>3 DEF BaseInv, AllTypes

LEMMA SendBase == ASSUME BaseInv, NEW f \in Frame, SendFrame(f) PROVE BaseInv'
<1>1. /\ UNCHANGED <<main, frame, tx, begun, dropped, receiver, link, uart, chip, acked, lost, bounds>>
      /\ taken' = taken \union {f} /\ pc # "clear"
  BY DEF SendFrame, StackRuns
<1>2. queue' \in Seq(Frame) /\ Len(queue') <= QueueMax
  <2>1. queue \in Seq(Frame) /\ Len(queue) <= QueueMax
    BY DEF BaseInv, AllTypes, TransmitterType
  <2>2. CASE queue' = queue BY <2>1, <2>2
  <2>3. CASE queue' = Append(queue, f) /\ Len(queue) < QueueMax BY <2>1, <2>3
  <2> QED BY <2>2, <2>3 DEF SendFrame
<1>3. confs' \in [Frame -> Seq(BOOLEAN)]
  BY ConfirmType DEF SendFrame, BaseInv, AllTypes, HistoryType
<1>4. /\ MainType' /\ ReceiverType' /\ LinkType' /\ UartType' /\ ChipType' /\ BoundType'
  BY <1>1 DEF BaseInv, AllTypes, MainType, ReceiverType, LinkType, UartType, ChipType,
     BoundType, main, receiver, link, chip, bounds
<1>5. TransmitterType' BY <1>1, <1>2 DEF BaseInv, AllTypes, TransmitterType
<1>6. HistoryType' BY <1>1, <1>3 DEF BaseInv, AllTypes, HistoryType
<1>7. LiveInv' BY <1>1 DEF BaseInv, LiveInv, main, receiver
<1> QED BY <1>4, <1>5, <1>6, <1>7 DEF BaseInv, AllTypes

(* Transmitter::reset and the report of what it dropped.                   *)
LEMMA DropBase ==
  ASSUME BaseInv, DropFrame \/ DropQueue \/ ReportDropped
  PROVE  BaseInv'
<1> USE DEF main, transmitter, receiver, link, chip, history, bounds
<1>1. UNCHANGED <<receiver, link, uart, chip, taken, acked, lost, bounds>>
  BY DEF DropFrame, DropQueue, ReportDropped
<1>2. ReceiverType' /\ LinkType' /\ UartType' /\ ChipType' /\ BoundType'
  BY <1>1 DEF BaseInv, AllTypes, ReceiverType, LinkType, UartType, ChipType, BoundType
<1>3. MainType'
  BY DEF DropFrame, DropQueue, ReportDropped, BaseInv, AllTypes, MainType, Places
<1>4. queue \in Seq(Frame) /\ dropped \in Seq(Frame) /\ Len(queue) <= QueueMax
  BY DEF BaseInv, AllTypes, TransmitterType
<1>5. CASE DropFrame
  <2>1. dropped' \in Seq(Frame)
    BY <1>4, <1>5, UnconfirmedIs, ConcatProperties DEF DropFrame
  <2>2. TransmitterType'
    BY <1>4, <1>5, <2>1 DEF DropFrame, BaseInv, AllTypes, TransmitterType, FrameOrNone
  <2>3. HistoryType'
    BY <1>1, <1>5 DEF DropFrame, BaseInv, AllTypes, HistoryType
  <2>4. LiveInv' BY <1>1, <1>5 DEF DropFrame, BaseInv, LiveInv
  <2> QED BY <1>2, <1>3, <2>2, <2>3, <2>4 DEF BaseInv, AllTypes
<1>6. CASE DropQueue
  <2>1. dropped' \in Seq(Frame)
    BY <1>4, <1>6, ConcatProperties DEF DropQueue
  <2>2. TransmitterType'
    BY <1>6, <2>1 DEF DropQueue, BaseInv, AllTypes, TransmitterType
  <2>3. HistoryType'
    BY <1>1, <1>6 DEF DropQueue, BaseInv, AllTypes, HistoryType
  <2>4. LiveInv' BY <1>1, <1>6 DEF DropQueue, BaseInv, LiveInv
  <2> QED BY <1>2, <1>3, <2>2, <2>3, <2>4 DEF BaseInv, AllTypes
<1>7. CASE ReportDropped
  <2>1. dropped' \in Seq(Frame) /\ confs' \in [Frame -> Seq(BOOLEAN)]
    <3>1. CASE dropped = <<>>
      BY <1>4, <1>7, <3>1 DEF ReportDropped, BaseInv, AllTypes, HistoryType
    <3>2. CASE dropped # <<>>
      <4>1. Head(dropped) \in Frame /\ Tail(dropped) \in Seq(Frame)
        BY <1>4, <3>2, HeadTailProperties
      <4>2. Confirm(Head(dropped), FALSE) /\ dropped' = Tail(dropped)
        BY <1>7, <3>2 DEF ReportDropped
      <4>3. confs \in [Frame -> Seq(BOOLEAN)] /\ FALSE \in BOOLEAN
        BY DEF BaseInv, AllTypes, HistoryType
      <4> QED BY <4>1, <4>2, <4>3, ConfirmType
    <3> QED BY <3>1, <3>2
  <2>2. TransmitterType'
    BY <1>7, <2>1 DEF ReportDropped, BaseInv, AllTypes, TransmitterType
  <2>3. HistoryType'
    BY <1>1, <2>1 DEF BaseInv, AllTypes, HistoryType
  <2>4. LiveInv'
    BY <1>1, <1>7 DEF ReportDropped, BaseInv, AllTypes, MainType, LiveInv
  <2> QED BY <1>2, <1>3, <2>2, <2>3, <2>4 DEF BaseInv, AllTypes
<1> QED BY <1>5, <1>6, <1>7

(* A frame is taken from the queue and written to the chip.                *)
LEMMA TransmitBase ==
  ASSUME BaseInv, ProcessQueue \/ TransmitStart \/ TransmitEnd
  PROVE  BaseInv'
<1> USE DEF main, transmitter, receiver, link, chip, history, bounds
<1>1. UNCHANGED <<receiver, link, uart, history, bounds, back, pops, dropped>>
      /\ pc # "clear" /\ pc' \in {"transmit"}
  BY DEF ProcessQueue, TransmitStart, TransmitEnd
<1>2. MainType' /\ ReceiverType' /\ LinkType' /\ UartType' /\ HistoryType' /\ BoundType'
  BY <1>1 DEF BaseInv, AllTypes, MainType, ReceiverType, LinkType, UartType, HistoryType,
     BoundType, Places
<1>3. queue \in Seq(Frame) /\ Len(queue) <= QueueMax
  BY DEF BaseInv, AllTypes, TransmitterType
<1>4. CASE ProcessQueue
  <2>1. CASE MaySend
    <3>1. /\ frame' \in Frame /\ queue' \in Seq(Frame) /\ Len(queue') <= QueueMax
      BY <1>3, <1>4, <2>1, HeadTailProperties, EmptySeq DEF ProcessQueue, MaySend
    <3>2. TransmitterType'
      BY <1>4, <2>1, <3>1 DEF ProcessQueue, BaseInv, AllTypes, TransmitterType, FrameOrNone
    <3>3. LiveInv' BY <1>1, <3>1 DEF BaseInv, LiveInv
    <3> QED BY <1>2, <1>4, <3>2, <3>3 DEF ProcessQueue, BaseInv, AllTypes, ChipType
  <2>2. CASE ~MaySend
    <3>1. UNCHANGED <<transmitter, chip>> BY <1>4, <2>2 DEF ProcessQueue
    <3>2. TransmitterType' /\ ChipType' BY <3>1 DEF BaseInv, AllTypes, TransmitterType, ChipType
    <3>3. LiveInv' BY <1>1, <3>1 DEF BaseInv, LiveInv
    <3> QED BY <1>2, <3>2, <3>3 DEF BaseInv, AllTypes
  <2> QED BY <2>1, <2>2
<1>5. CASE TransmitStart
  <2>1. TransmitterType' /\ ChipType'
    BY <1>5 DEF TransmitStart, BaseInv, AllTypes, TransmitterType, ChipType, FrameOrNone
  <2>2. LiveInv' BY <1>1, <1>5 DEF TransmitStart, BaseInv, LiveInv
  <2> QED BY <1>2, <2>1, <2>2 DEF BaseInv, AllTypes
<1>6. CASE TransmitEnd
  <2>1. TransmitterType' /\ ChipType'
    BY <1>6 DEF TransmitEnd, BaseInv, AllTypes, TransmitterType, ChipType, FrameOrNone
  <2>2. LiveInv' BY <1>1, <1>6 DEF TransmitEnd, BaseInv, LiveInv
  <2> QED BY <1>2, <2>1, <2>2 DEF BaseInv, AllTypes
<1> QED BY <1>4, <1>5, <1>6

(* The main loop takes the oldest entry of the ring.                       *)
LEMMA Popped ==
  ASSUME BaseInv, ProcessRing
  PROVE  /\ ring' \in Seq(Entries) /\ Len(ring) \in Nat \ {0}
         /\ Len(ring') = Len(ring) - 1 /\ ring[1] \in Entries
         /\ \A i \in 1 .. Len(ring') : ring'[i] = ring[i + 1]
         /\ IF Confirms(ring[1]) THEN Confirm(ring[1].f, ring[1].ok) ELSE confs' = confs
         /\ pops' \in 0 .. PopMax
<1> HIDE DEF Entries
<1>1. ring \in Seq(Entries) /\ ring # <<>> /\ pops < PopMax /\ pops \in 0 .. PopMax
      /\ pops' = pops + 1 /\ ring' = Tail(ring)
      /\ IF Confirms(Head(ring)) THEN Confirm(Head(ring).f, Head(ring).ok) ELSE confs' = confs
  BY DEF BaseInv, AllTypes, MainType, ReceiverType, ProcessRing, PopRing
<1>2. Head(ring) = ring[1] /\ ring[1] \in Entries /\ Len(ring) \in Nat \ {0}
  BY <1>1, EmptySeq, ElementOfSeq
<1>3. /\ Tail(ring) \in Seq(Entries) /\ Len(Tail(ring)) = Len(ring) - 1
      /\ \A i \in 1 .. Len(Tail(ring)) : Tail(ring)[i] = ring[i + 1]
  BY <1>1, HeadTailProperties
<1> QED BY <1>1, <1>2, <1>3

LEMMA PopBase == ASSUME BaseInv, ProcessRing PROVE BaseInv'
<1>1. /\ UNCHANGED <<pc, back, transmitter, wait, invalid, link, uart, chip, taken, acked, lost, bounds>>
      /\ pops' \in 0 .. PopMax
  BY Popped DEF ProcessRing
<1>2. MainType' /\ TransmitterType' /\ LinkType' /\ UartType' /\ ChipType' /\ BoundType'
  BY <1>1 DEF BaseInv, AllTypes, MainType, TransmitterType, LinkType, UartType, ChipType,
     BoundType, transmitter, link, chip, bounds
<1>3. Len(ring) <= RingMax BY DEF BaseInv, AllTypes, ReceiverType
<1>4. ReceiverType'
  BY <1>1, <1>3, Popped DEF BaseInv, AllTypes, ReceiverType
<1>5. confs' \in [Frame -> Seq(BOOLEAN)]
  <2>1. confs \in [Frame -> Seq(BOOLEAN)] BY DEF BaseInv, AllTypes, HistoryType
  <2>2. CASE ~Confirms(ring[1]) BY <2>1, <2>2, Popped
  <2>3. CASE Confirms(ring[1])
    <3>1. 1 \in 1 .. Len(ring) BY Popped
    <3>2. ring[1].f \in Frame BY <2>3, <3>1 DEF BaseInv, LiveInv
    <3>3. ring[1].ok \in BOOLEAN BY Popped DEF Entries
    <3>4. Confirm(ring[1].f, ring[1].ok) BY <2>3, Popped
    <3> QED BY <2>1, <3>2, <3>3, <3>4, ConfirmType
  <2> QED BY <2>2, <2>3
<1>6. HistoryType' BY <1>1, <1>5 DEF BaseInv, AllTypes, HistoryType
<1>7. LiveInv'
  <2>1. \A i \in 1 .. Len(ring') : Confirms(ring'[i]) => ring'[i].f \in Frame
    <3> SUFFICES ASSUME NEW i \in 1 .. Len(ring'), Confirms(ring'[i]) PROVE ring'[i].f \in Frame
      OBVIOUS
    <3>1. i + 1 \in 1 .. Len(ring) /\ ring'[i] = ring[i + 1] BY Popped
    <3> QED BY <3>1 DEF BaseInv, LiveInv
  <2> QED BY <1>1, <2>1 DEF BaseInv, LiveInv, transmitter
<1> QED BY <1>2, <1>4, <1>6, <1>7 DEF BaseInv, AllTypes

LEMMA ResetBase == ASSUME BaseInv, ResetLocked PROVE BaseInv'
<1> USE DEF main, bounds
<1>1. queue \in Seq(Frame) /\ dropped \in Seq(Frame) /\ Unconfirmed \in Seq(Frame)
  BY UnconfirmedIs DEF BaseInv, AllTypes, TransmitterType
<1>2. dropped' \in Seq(Frame)
  BY <1>1, ConcatProperties DEF ResetLocked
<1>3. /\ <<>> \in Seq(Frame) /\ <<>> \in Seq(Entries) /\ <<>> \in Seq(Tokens) /\ Len(<<>>) = 0
      /\ QueueMax \in Nat /\ RingMax \in Nat /\ UartMax \in Nat
  BY EmptySeq
<1>4. MainType' /\ LinkType' /\ BoundType'
  BY DEF ResetLocked, BaseInv, AllTypes, MainType, LinkType, BoundType, Places
<1>5. TransmitterType'
  <2>1. /\ queue' = <<>> /\ frame' = NoFrame /\ tx' = "idle" /\ begun' = FALSE
    BY DEF ResetLocked
  <2>2. queue' \in Seq(Frame) /\ Len(queue') <= QueueMax BY <1>3, <2>1
  <2> QED BY <1>2, <2>1, <2>2 DEF TransmitterType, FrameOrNone
<1>6. ReceiverType'
  <2>1. ring' = <<>> /\ wait' = NoFrame /\ invalid' = FALSE BY DEF ResetLocked
  <2>2. ring' \in Seq(Entries) /\ Len(ring') <= RingMax
    <3> HIDE DEF Entries
    <3> QED BY <1>3, <2>1
  <2> QED BY <2>1, <2>2 DEF ReceiverType, FrameOrNone
<1>7. UartType' BY <1>3 DEF ResetLocked, UartType
<1>8. ChipType' BY DEF ResetLocked, BaseInv, AllTypes, ChipType
<1>9. HistoryType'
  <2>1. DOMAIN ring = 1 .. Len(ring) BY LenProperties DEF BaseInv, AllTypes, ReceiverType
  <2>2. lost' \subseteq Frame
    BY <2>1 DEF ResetLocked, BaseInv, AllTypes, HistoryType, LiveInv
  <2> QED BY <2>2 DEF ResetLocked, BaseInv, AllTypes, HistoryType
<1>10. LiveInv'
  <2>1. uart' = <<>> /\ ring' = <<>> /\ tx' = "idle" /\ frame' = NoFrame /\ pc' = "report"
    BY DEF ResetLocked
  <2> QED BY <1>3, <2>1 DEF LiveInv
<1> QED BY <1>4, <1>5, <1>6, <1>7, <1>8, <1>9, <1>10 DEF BaseInv, AllTypes

LEMMA HearKeeps ==
  ASSUME UartTask
  PROVE  /\ UNCHANGED <<main, queue, frame, begun, dropped, resetPending, connected,
                        chip, taken, confs, acked, bounds>>
         /\ pc # "clear"
         /\ tx' \in {tx, "idle"}
BY DEF UartTask, RxLocked, ReceiveState, ReceiveCon, ReceiveOrphanCon, ReceiveOwnEcho,
       ReceiveFrame, ReceiveControl

LEMMA HearBase == ASSUME BaseInv, UartTask PROVE BaseInv'
<1> USE DEF main, chip, bounds, link
<1>1. /\ UNCHANGED <<main, queue, frame, begun, dropped, resetPending, connected,
                     chip, taken, confs, acked, bounds>>
      /\ pc # "clear" /\ tx' \in {tx, "idle"}
  BY HearKeeps
<1>2. MainType' /\ ChipType' /\ BoundType'
  BY <1>1 DEF BaseInv, AllTypes, MainType, ChipType, BoundType
<1>3. TransmitterType' BY <1>1 DEF BaseInv, AllTypes, TransmitterType
<1>4. RingGrows BY Heard DEF Confirming, Plain
<1>5. HistoryType' BY <1>1, <1>4 DEF BaseInv, AllTypes, HistoryType, RingGrows
<1>6. /\ UartType' /\ Head(uart) = uart[1] /\ uart[1] \in Tokens
      /\ Len(uart) \in Nat \ {0} /\ Len(uart') = Len(uart) - 1
      /\ \A i \in 1 .. Len(uart') : uart'[i] = uart[i + 1]
  BY HearsIs DEF BaseInv, AllTypes
<1>7. wait' \in FrameOrNone /\ invalid' \in BOOLEAN /\ uReset' \in BOOLEAN
  <2>1. uart[1].f \in FrameOrNone BY <1>6 DEF Tokens, FrameOrNone
  <2>2. wait \in FrameOrNone /\ invalid \in BOOLEAN /\ uReset \in BOOLEAN
    BY DEF BaseInv, AllTypes, ReceiverType, LinkType
  <2>3. wait' \in {wait, NoFrame, uart[1].f}
    BY <1>6 DEF UartTask, ReceiveState, ReceiveCon, ReceiveOrphanCon, ReceiveOwnEcho,
       ReceiveFrame, ReceiveControl
  <2>4. invalid' \in BOOLEAN /\ uReset' \in BOOLEAN
    BY <2>2 DEF UartTask, ReceiveState, ReceiveCon, ReceiveOrphanCon, ReceiveOwnEcho,
       ReceiveFrame, ReceiveControl, InStepAgain
  <2> QED BY <2>1, <2>2, <2>3, <2>4 DEF FrameOrNone
<1>8. ReceiverType' /\ LinkType'
  BY <1>1, <1>4, <1>7 DEF BaseInv, AllTypes, ReceiverType, LinkType, RingGrows
<1>9. LiveInv'
  <2>1. \A i \in 1 .. Len(uart') : uart'[i].kind \in {"echo", "con"} => uart'[i].f \in Frame
    <3> SUFFICES ASSUME NEW i \in 1 .. Len(uart'), uart'[i].kind \in {"echo", "con"}
                 PROVE  uart'[i].f \in Frame
      OBVIOUS
    <3>1. i + 1 \in 1 .. Len(uart) /\ uart'[i] = uart[i + 1] BY <1>6
    <3> QED BY <3>1 DEF BaseInv, LiveInv
  <2> QED BY <1>1, <1>4, <2>1 DEF BaseInv, LiveInv, RingGrows
<1> QED BY <1>2, <1>3, <1>5, <1>6, <1>8, <1>9 DEF BaseInv, AllTypes

LEMMA ChipBase == ASSUME BaseInv, ChipStep PROVE BaseInv'
<1>1. /\ UNCHANGED <<main, transmitter, receiver, link, taken, confs, lost>>
      /\ ChipType' /\ HistoryType' /\ BoundType'
      /\ uart' = uart \/ (\E t \in Tokens : Said(t) /\ Says(t))
  BY ChipSays DEF BaseInv, AllTypes
<1>2. MainType' /\ TransmitterType' /\ ReceiverType' /\ LinkType'
  BY <1>1 DEF BaseInv, AllTypes, MainType, TransmitterType, ReceiverType, LinkType,
     main, transmitter, receiver, link
<1>3. CASE uart' = uart
  <2>1. UartType' BY <1>3 DEF BaseInv, AllTypes, UartType
  <2>2. LiveInv' BY <1>1, <1>3 DEF BaseInv, LiveInv, main, transmitter, receiver
  <2> QED BY <1>1, <1>2, <2>1, <2>2 DEF BaseInv, AllTypes
<1>4. ASSUME NEW t \in Tokens, Said(t), Says(t) PROVE BaseInv'
  <2>1. /\ UartType' /\ Len(uart) \in Nat
        /\ Len(uart') = Len(uart) + 1 /\ uart'[Len(uart) + 1] = t
        /\ \A i \in 1 .. Len(uart) : uart'[i] = uart[i]
    BY <1>4, SaysIs DEF BaseInv, AllTypes
  <2>2. t.kind \in {"echo", "con"} => t.f \in Frame
    BY <1>4 DEF Said, BaseInv, AllTypes, ChipType, FrameOrNone
  <2>3. \A i \in 1 .. Len(uart') : uart'[i].kind \in {"echo", "con"} => uart'[i].f \in Frame
    <3> TAKE i \in 1 .. Len(uart')
    <3>1. CASE i = Len(uart) + 1 BY <2>1, <2>2, <3>1
    <3>2. CASE i # Len(uart) + 1
      <4>1. i \in 1 .. Len(uart) BY <2>1, <3>2
      <4> QED BY <2>1, <4>1 DEF BaseInv, LiveInv
    <3> QED BY <3>1, <3>2
  <2>4. LiveInv' BY <1>1, <2>3 DEF BaseInv, LiveInv, main, transmitter, receiver
  <2> QED BY <1>1, <1>2, <2>1, <2>4 DEF BaseInv, AllTypes
<1> QED BY <1>1, <1>3, <1>4

LEMMA BaseNext == BaseInv /\ [Next]_vars => BaseInv'
<1> SUFFICES ASSUME BaseInv, [Next]_vars PROVE BaseInv'
  OBVIOUS
<1>1. ASSUME NEW f \in Frame, SendFrame(f) PROVE BaseInv' BY <1>1, SendBase
<1>2. CASE Bookkeeping \/ UNCHANGED vars BY <1>2, RestsBase
<1>3. CASE DropFrame \/ DropQueue \/ ReportDropped BY <1>3, DropBase
<1>4. CASE ProcessQueue \/ TransmitStart \/ TransmitEnd BY <1>4, TransmitBase
<1>5. CASE ProcessRing BY <1>5, PopBase
<1>6. CASE ResetLocked BY <1>6, ResetBase
<1>7. CASE UartTask BY <1>7, HearBase
<1>8. CASE ChipStep BY <1>8, ChipBase
<1> QED BY <1>1, <1>2, <1>3, <1>4, <1>5, <1>6, <1>7, <1>8, Steps

LEMMA BaseInit == Init => BaseInv
<1> SUFFICES ASSUME Init PROVE BaseInv
  OBVIOUS
<1>1. <<>> \in Seq(Frame) /\ <<>> \in Seq(Entries) /\ <<>> \in Seq(Tokens)
      /\ <<>> \in Seq(BOOLEAN) /\ Len(<<>>) = 0
  BY EmptySeq
<1>2. /\ QueueMax \in Nat /\ RingMax \in Nat /\ UartMax \in Nat /\ MaxDowns \in Nat
      /\ MaxNoise \in Nat /\ 0 \in 0 .. PopMax
  OBVIOUS
<1>3. MainType /\ LinkType /\ ChipType
  BY <1>2 DEF Init, MainType, LinkType, ChipType, Places, FrameOrNone
<1>4. TransmitterType
  <2>1. queue \in Seq(Frame) /\ Len(queue) <= QueueMax /\ dropped \in Seq(Frame)
    BY <1>1, <1>2 DEF Init
  <2> QED BY <2>1 DEF Init, TransmitterType, FrameOrNone
<1>5. ReceiverType
  <2> HIDE DEF Entries
  <2>1. ring \in Seq(Entries) /\ Len(ring) <= RingMax BY <1>1, <1>2 DEF Init
  <2> QED BY <2>1 DEF Init, ReceiverType, FrameOrNone
<1>6. UartType BY <1>1, <1>2 DEF Init, UartType
<1>7. HistoryType BY <1>1 DEF Init, HistoryType
<1>8. BoundType BY <1>2 DEF Init, BoundType
<1>9. LiveInv BY <1>1 DEF Init, LiveInv
<1> QED BY <1>3, <1>4, <1>5, <1>6, <1>7, <1>8, <1>9 DEF BaseInv, AllTypes

LEMMA BaseSpec == Spec => []BaseInv
BY BaseInit, BaseNext, PTL DEF Spec

(* Every variable keeps its type, and the queue, the ring and the serial   *)
(* line keep to their bounds.                                              *)
THEOREM Typed == Spec => []TypeOK
<1>1. BaseInv => TypeOK BY TypeParts DEF BaseInv
<1> QED BY <1>1, BaseSpec, PTL

(* When the UART task reads the frame in flight, there is one.             *)
THEOREM ReadsLiveFrame == Spec => []RxReadsLiveFrame
<1>1. BaseInv => RxReadsLiveFrame
  BY DEF BaseInv, LiveInv, RxReadsLiveFrame, RxLocked
<1> QED BY <1>1, BaseSpec, PTL

-----------------------------------------------------------------------------
(* The places a frame can be in.                                           *)

Frames(s) == {s[i] : i \in 1 .. Len(s)}
Flying == IF tx # "idle" /\ frame # NoFrame THEN {frame} ELSE {}
Ringing == {ring[i].f : i \in {k \in 1 .. Len(ring) : Confirms(ring[k])}}
Confirmed == {f \in Frame : confs[f] # <<>>}

PlacesInv ==
  taken \subseteq
    Frames(queue) \union Flying \union Frames(dropped) \union Ringing \union Confirmed \union lost

LEMMA FramesOf ==
  ASSUME NEW s \in Seq(Frame)
  PROVE  /\ Frames(s) \subseteq Frame
         /\ s = <<>> => Frames(s) = {}
         /\ s # <<>> => /\ Head(s) \in Frame /\ Tail(s) \in Seq(Frame)
                        /\ Frames(s) = Frames(Tail(s)) \union {Head(s)}
<1>1. Frames(s) \subseteq Frame BY ElementOfSeq DEF Frames
<1>2. ASSUME s # <<>> PROVE Frames(s) = Frames(Tail(s)) \union {Head(s)}
  <2>1. /\ Len(s) \in Nat \ {0} /\ Len(Tail(s)) = Len(s) - 1 /\ Head(s) = s[1]
        /\ \A i \in 1 .. Len(Tail(s)) : Tail(s)[i] = s[i + 1]
    BY <1>2, EmptySeq, HeadTailProperties
  <2>2. \A i \in 1 .. Len(s) : i = 1 \/ (i - 1 \in 1 .. Len(Tail(s)) /\ s[i] = Tail(s)[i - 1])
    BY <2>1
  <2>3. 1 \in 1 .. Len(s) /\ \A i \in 1 .. Len(Tail(s)) : i + 1 \in 1 .. Len(s)
    BY <2>1
  <2>4. Frames(s) \subseteq Frames(Tail(s)) \union {Head(s)}
    <3>1. ASSUME NEW i \in 1 .. Len(s) PROVE s[i] \in Frames(Tail(s)) \union {Head(s)}
      BY <2>1, <2>2 DEF Frames
    <3> QED BY <3>1 DEF Frames
  <2>5. Frames(Tail(s)) \union {Head(s)} \subseteq Frames(s) BY <2>1, <2>3 DEF Frames
  <2> QED BY <2>4, <2>5
<1>3. s = <<>> => Frames(s) = {} BY DEF Frames
<1> QED BY <1>1, <1>2, <1>3, HeadTailProperties

LEMMA FramesAppend ==
  ASSUME NEW s \in Seq(Frame), NEW f \in Frame
  PROVE  Frames(Append(s, f)) = Frames(s) \union {f}
<1>1. /\ Len(s) \in Nat /\ Len(Append(s, f)) = Len(s) + 1 /\ Append(s, f)[Len(s) + 1] = f
      /\ \A i \in 1 .. Len(s) : Append(s, f)[i] = s[i]
  OBVIOUS
<1>2. 1 .. Len(s) + 1 = (1 .. Len(s)) \union {Len(s) + 1} BY <1>1
<1> QED BY <1>1, <1>2 DEF Frames

LEMMA FramesConcat ==
  ASSUME NEW s \in Seq(Frame), NEW r \in Seq(Frame)
  PROVE  s \o r \in Seq(Frame) /\ Frames(s \o r) = Frames(s) \union Frames(r)
<1>1. /\ s \o r \in Seq(Frame) /\ Len(s) \in Nat /\ Len(r) \in Nat
      /\ Len(s \o r) = Len(s) + Len(r)
      /\ \A i \in 1 .. Len(s) + Len(r) :
           (s \o r)[i] = IF i <= Len(s) THEN s[i] ELSE r[i - Len(s)]
  BY ConcatProperties
<1>2. \A i \in 1 .. Len(s) : i \in 1 .. Len(s) + Len(r) /\ (s \o r)[i] = s[i]
  BY <1>1
<1>3. \A i \in 1 .. Len(r) : Len(s) + i \in 1 .. Len(s) + Len(r) /\ (s \o r)[Len(s) + i] = r[i]
  <2> TAKE i \in 1 .. Len(r)
  <2>1. /\ Len(s) + i \in 1 .. Len(s) + Len(r) /\ ~(Len(s) + i <= Len(s))
        /\ (Len(s) + i) - Len(s) = i
    BY <1>1
  <2> QED BY <1>1, <2>1
<1>4. \A i \in 1 .. Len(s) + Len(r) :
        \/ i \in 1 .. Len(s) /\ (s \o r)[i] = s[i]
        \/ i - Len(s) \in 1 .. Len(r) /\ (s \o r)[i] = r[i - Len(s)]
  BY <1>1
<1>5. Frames(s) \union Frames(r) \subseteq Frames(s \o r)
  <2>1. Frames(s) \subseteq Frames(s \o r) BY <1>1, <1>2 DEF Frames
  <2>2. Frames(r) \subseteq Frames(s \o r) BY <1>1, <1>3 DEF Frames
  <2> QED BY <2>1, <2>2
<1>6. Frames(s \o r) \subseteq Frames(s) \union Frames(r) BY <1>1, <1>4 DEF Frames
<1> QED BY <1>1, <1>5, <1>6

LEMMA FramesSingle ==
  ASSUME NEW f \in Frame
  PROVE  <<f>> \in Seq(Frame) /\ Frames(<<f>>) = {f}
BY DEF Frames

LEMMA FramesUnconfirmed ==
  ASSUME BaseInv
  PROVE  Frames(Unconfirmed) = Flying
<1>1. tx # "idle" /\ frame # NoFrame => Unconfirmed = <<frame>> /\ frame \in Frame
  BY UnconfirmedIs
<1>2. tx = "idle" \/ frame = NoFrame => Unconfirmed = <<>> BY UnconfirmedIs
<1>3. Frames(<<>>) = {} BY DEF Frames
<1> QED BY <1>1, <1>2, <1>3, FramesSingle DEF Flying

LEMMA ConfirmedBy ==
  ASSUME NEW f \in Frame, NEW ok \in BOOLEAN, confs \in [Frame -> Seq(BOOLEAN)], Confirm(f, ok)
  PROVE  Confirmed' = Confirmed \union {f}
<1>1. /\ confs' \in [Frame -> Seq(BOOLEAN)] /\ confs'[f] = Append(confs[f], ok)
      /\ \A g \in Frame : g # f => confs'[g] = confs[g]
  BY ConfirmType
<1>2. confs'[f] # <<>>
  <2>1. confs[f] \in Seq(BOOLEAN) OBVIOUS
  <2> QED BY <1>1, <2>1
<1> QED BY <1>1, <1>2 DEF Confirmed

LEMMA RingingPlain ==
  ASSUME BaseInv, Plain
  PROVE  Ringing' = Ringing
<1>1. /\ Len(ring) \in Nat /\ ring' \in Seq(Entries) /\ Len(ring) <= Len(ring')
      /\ \A i \in 1 .. Len(ring) : ring'[i] = ring[i]
      /\ \A i \in Len(ring) + 1 .. Len(ring') : ~Confirms(ring'[i])
  BY DEF Plain, RingGrows
<1>2. Len(ring') \in Nat BY <1>1
<1>3. \A i \in 1 .. Len(ring') : i \in 1 .. Len(ring) \/ i \in Len(ring) + 1 .. Len(ring')
  BY <1>1, <1>2
<1>4. \A i \in 1 .. Len(ring) : i \in 1 .. Len(ring') BY <1>1, <1>2
<1> HIDE DEF Confirms
<1>5. Ringing' \subseteq Ringing BY <1>1, <1>3 DEF Ringing, Confirms
<1>6. Ringing \subseteq Ringing' BY <1>1, <1>4 DEF Ringing, Confirms
<1> QED BY <1>5, <1>6

LEMMA RingingCon ==
  ASSUME BaseInv, UartTask, ReceiveCon
  PROVE  /\ Ringing' \in {Ringing, Ringing \union {wait}}
         /\ wait \in Ringing' \union lost'
         /\ wait \in Frame
<1>1. wait \in Frame /\ uart[1].ok \in BOOLEAN
  BY HearsIs DEF ReceiveCon, BaseInv, AllTypes, ReceiverType, FrameOrNone, Tokens
<1> DEFINE e == Entry(wait, TRUE, TRUE, uart[1].ok)
<1>2. Confirms(e) /\ e.f = wait BY <1>1, EntryType DEF FrameOrNone
<1>3. /\ Len(ring) \in Nat /\ ring' \in Seq(Entries) /\ Len(ring) <= Len(ring')
      /\ \A i \in 1 .. Len(ring) : ring'[i] = ring[i]
      /\ Len(ring') <= Len(ring) + 1
      /\ Len(ring') = Len(ring) + 1 => ring'[Len(ring) + 1] = e
      /\ Len(ring') = Len(ring) => wait \in lost'
  BY HeardCon DEF Confirming, RingGrows
<1> HIDE DEF e
<1>4. Len(ring') \in Nat BY <1>3
<1>5. CASE Len(ring') = Len(ring)
  <2>1. Ringing' = Ringing BY <1>3, <1>5 DEF Ringing, Confirms
  <2> QED BY <1>1, <1>3, <1>5, <2>1
<1>6. CASE Len(ring') = Len(ring) + 1
  <2>1. 1 .. Len(ring') = (1 .. Len(ring)) \union {Len(ring) + 1} BY <1>3, <1>6
  <2>2. Ringing' = Ringing \union {wait}
    BY <1>2, <1>3, <1>6, <2>1 DEF Ringing, Confirms
  <2> QED BY <1>1, <2>2
<1> QED BY <1>3, <1>4, <1>5, <1>6

LEMMA RingingPopped ==
  ASSUME BaseInv, ProcessRing
  PROVE  \/ ~Confirms(ring[1]) /\ Ringing = Ringing' /\ Confirmed' = Confirmed
         \/ /\ Confirms(ring[1]) /\ ring[1].f \in Frame
            /\ Ringing = Ringing' \union {ring[1].f}
            /\ Confirmed' = Confirmed \union {ring[1].f}
<1>1. /\ Len(ring) \in Nat \ {0} /\ Len(ring') = Len(ring) - 1 /\ ring[1] \in Entries
      /\ \A i \in 1 .. Len(ring') : ring'[i] = ring[i + 1]
      /\ IF Confirms(ring[1]) THEN Confirm(ring[1].f, ring[1].ok) ELSE confs' = confs
  BY Popped
<1>2. 1 \in 1 .. Len(ring) /\ \A i \in 1 .. Len(ring') : i + 1 \in 1 .. Len(ring)
  BY <1>1
<1>3. \A i \in 1 .. Len(ring) :
        i = 1 \/ (i - 1 \in 1 .. Len(ring') /\ ring[i] = ring'[i - 1])
  BY <1>1
<1>4. Ringing' \subseteq Ringing BY <1>1, <1>2 DEF Ringing, Confirms
<1>5. CASE ~Confirms(ring[1])
  <2>1. Ringing \subseteq Ringing' BY <1>3, <1>5 DEF Ringing, Confirms
  <2>2. Confirmed' = Confirmed BY <1>1, <1>5 DEF Confirmed
  <2> QED BY <1>4, <1>5, <2>1, <2>2
<1>6. CASE Confirms(ring[1])
  <2>1. Ringing \subseteq Ringing' \union {ring[1].f} BY <1>3 DEF Ringing, Confirms
  <2>2. ring[1].f \in Ringing BY <1>2, <1>6 DEF Ringing
  <2>3. ring[1].f \in Frame BY <1>2, <1>6 DEF BaseInv, LiveInv
  <2>4. ring[1].ok \in BOOLEAN BY <1>1 DEF Entries
  <2>5. Confirmed' = Confirmed \union {ring[1].f}
    BY <1>1, <1>6, <2>3, <2>4, ConfirmedBy DEF BaseInv, AllTypes, HistoryType
  <2> QED BY <1>4, <1>6, <2>1, <2>2, <2>3, <2>5
<1> QED BY <1>5, <1>6

-----------------------------------------------------------------------------
(* How the places change.                                                  *)

(* Every step moves frames from place to place as its name says; the reset *)
(* by the host counts the confirmations it takes from the ring as lost.    *)
Moves ==
  LET Q == Frames(queue)  D == Frames(dropped)
  IN \/ /\ \E f \in Frame \ taken :
             /\ taken' = taken \union {f}
             /\ \/ Frames(queue') = Q \union {f} /\ Confirmed' = Confirmed
                \/ Frames(queue') = Q /\ Confirmed' = Confirmed \union {f}
        /\ Flying' = Flying /\ Frames(dropped') = D /\ Ringing' = Ringing /\ lost' = lost
     \/ /\ taken' = taken /\ lost' = lost /\ Ringing' = Ringing
        /\ \/ /\ Frames(queue') = Q /\ Flying' = Flying
              /\ Frames(dropped') = D /\ Confirmed' = Confirmed
           \/ /\ Frames(queue') = Q /\ Flying' = {}
              /\ Frames(dropped') = D \union Flying /\ Confirmed' = Confirmed
           \/ /\ Frames(queue') = {} /\ Flying = {} /\ Flying' = {}
              /\ Frames(dropped') = D \union Q /\ Confirmed' = Confirmed
           \/ /\ Frames(queue') = Q /\ Flying' = Flying
              /\ D = Frames(dropped') \union {Head(dropped)}
              /\ Confirmed' = Confirmed \union {Head(dropped)} /\ Head(dropped) \in Frame
           \/ /\ Q = Frames(queue') \union {Head(queue)} /\ Head(queue) \in Frame
              /\ Flying = {} /\ Flying' = {Head(queue)}
              /\ Frames(dropped') = D /\ Confirmed' = Confirmed
     \/ /\ taken' = taken /\ lost' = lost
        /\ Frames(queue') = Q /\ Flying' = Flying /\ Frames(dropped') = D
        /\ Confirms(ring[1]) /\ ring[1].f \in Frame
        /\ Ringing = Ringing' \union {ring[1].f}
        /\ Confirmed' = Confirmed \union {ring[1].f}
     \/ /\ taken' = taken /\ Confirmed' = Confirmed
        /\ Frames(queue') = {} /\ Flying' = {}
        /\ Frames(dropped') = D \union Flying \union Q
        /\ Ringing' = {} /\ lost' = lost \union Ringing
     \/ /\ UartTask
        /\ taken' = taken /\ Confirmed' = Confirmed
        /\ Frames(queue') = Q /\ Frames(dropped') = D /\ lost \subseteq lost'
        /\ \/ /\ Ringing' = Ringing
              /\ Flying' = Flying \/ (Flying' = {} /\ Flying \subseteq lost')
           \/ /\ ReceiveCon /\ tx = "await"
              /\ Ringing' \in {Ringing, Ringing \union {wait}}
              /\ wait \in Ringing' \union lost' /\ wait \in Frame
              /\ frame = wait \/ frame \in lost'
              /\ Flying = {frame} /\ Flying' = {}
           \/ /\ ReceiveCon /\ tx # "await"
              /\ Ringing' \in {Ringing, Ringing \union {wait}}
              /\ wait \in Ringing' \union lost' /\ wait \in Frame
              /\ Flying' = Flying

LEMMA SendMoves == ASSUME BaseInv, NEW f \in Frame, SendFrame(f) PROVE Moves
<1>1. f \notin taken /\ taken' = taken \union {f}
      /\ UNCHANGED <<frame, tx, dropped, ring, lost>>
  BY DEF SendFrame, receiver
<1>2. Flying' = Flying /\ Frames(dropped') = Frames(dropped) /\ Ringing' = Ringing
  BY <1>1 DEF Flying, Ringing, Confirms
<1>3. queue \in Seq(Frame) /\ confs \in [Frame -> Seq(BOOLEAN)] /\ FALSE \in BOOLEAN
  BY DEF BaseInv, AllTypes, TransmitterType, HistoryType
<1>4. CASE queue' = Append(queue, f) /\ confs' = confs
  <2>1. Frames(queue') = Frames(queue) \union {f} /\ Confirmed' = Confirmed
    BY <1>3, <1>4, FramesAppend DEF Confirmed
  <2> QED BY <1>1, <1>2, <2>1 DEF Moves
<1>5. CASE queue' = queue /\ Confirm(f, FALSE)
  <2>1. Frames(queue') = Frames(queue) /\ Confirmed' = Confirmed \union {f}
    BY <1>3, <1>5, ConfirmedBy
  <2> QED BY <1>1, <1>2, <2>1 DEF Moves
<1> QED BY <1>4, <1>5 DEF SendFrame

LEMMA RestMoves ==
  ASSUME BaseInv, Bookkeeping \/ ChipStep \/ TransmitStart \/ TransmitEnd \/ UNCHANGED vars
  PROVE  Moves
<1>1. UNCHANGED <<queue, frame, dropped, ring, taken, confs, lost>>
  BY BookkeepingKeeps, ChipSays
     DEF TransmitStart, TransmitEnd, vars, transmitter, receiver, history, BaseInv, AllTypes
<1>2. tx' = tx \/ (tx = "transmit" /\ tx' = "await")
  BY BookkeepingKeeps, ChipSays
     DEF TransmitStart, TransmitEnd, vars, transmitter, receiver, history, BaseInv, AllTypes
<1>3. /\ Flying' = Flying /\ Frames(queue') = Frames(queue) /\ Frames(dropped') = Frames(dropped)
      /\ Ringing' = Ringing /\ Confirmed' = Confirmed
  BY <1>1, <1>2 DEF Flying, Ringing, Confirmed, Confirms
<1> QED BY <1>1, <1>3 DEF Moves

LEMMA DropMoves ==
  ASSUME BaseInv, DropFrame \/ DropQueue \/ ReportDropped
  PROVE  Moves
<1>1. UNCHANGED <<ring, taken, lost>>
  BY DEF DropFrame, DropQueue, ReportDropped, receiver, history
<1>2. Ringing' = Ringing BY <1>1 DEF Ringing, Confirms
<1>3. queue \in Seq(Frame) /\ dropped \in Seq(Frame) /\ confs \in [Frame -> Seq(BOOLEAN)]
  BY DEF BaseInv, AllTypes, TransmitterType, HistoryType
<1>4. CASE DropFrame
  <2>1. dropped' = dropped \o Unconfirmed /\ frame' = NoFrame /\ UNCHANGED <<queue, confs>>
    BY <1>4 DEF DropFrame, history
  <2>2. Frames(dropped') = Frames(dropped) \union Flying
    BY <1>3, <2>1, UnconfirmedIs, FramesConcat, FramesUnconfirmed
  <2>3. Flying' = {} /\ Frames(queue') = Frames(queue) /\ Confirmed' = Confirmed
    BY <2>1 DEF Flying, Confirmed
  <2> QED BY <1>1, <1>2, <2>2, <2>3 DEF Moves
<1>5. CASE DropQueue
  <2>1. /\ dropped' = dropped \o queue /\ queue' = <<>> /\ tx' = "idle" /\ UNCHANGED confs
        /\ frame = NoFrame
    BY <1>5 DEF DropQueue, history, BaseInv, LiveInv
  <2>2. Frames(dropped') = Frames(dropped) \union Frames(queue)
    BY <1>3, <2>1, FramesConcat
  <2>3. Flying = {} /\ Flying' = {} /\ Frames(queue') = {} /\ Confirmed' = Confirmed
    BY <2>1 DEF Flying, Confirmed, Frames
  <2> QED BY <1>1, <1>2, <2>2, <2>3 DEF Moves
<1>6. CASE ReportDropped
  <2>1. UNCHANGED <<queue, frame, tx>> BY <1>6 DEF ReportDropped
  <2>2. Flying' = Flying /\ Frames(queue') = Frames(queue) BY <2>1 DEF Flying
  <2>3. CASE dropped = <<>>
    <3>1. UNCHANGED <<dropped, confs>> BY <1>6, <2>3 DEF ReportDropped
    <3>2. Frames(dropped') = Frames(dropped) /\ Confirmed' = Confirmed BY <3>1 DEF Confirmed
    <3> QED BY <1>1, <1>2, <2>2, <3>2 DEF Moves
  <2>4. CASE dropped # <<>>
    <3>1. dropped' = Tail(dropped) /\ Confirm(Head(dropped), FALSE)
      BY <1>6, <2>4 DEF ReportDropped
    <3>2. Head(dropped) \in Frame /\ Frames(dropped) = Frames(dropped') \union {Head(dropped)}
      BY <1>3, <2>4, <3>1, FramesOf
    <3>3. Confirmed' = Confirmed \union {Head(dropped)}
      BY <1>3, <3>1, <3>2, ConfirmedBy
    <3> QED BY <1>1, <1>2, <2>2, <3>2, <3>3 DEF Moves
  <2> QED BY <2>3, <2>4
<1> QED BY <1>4, <1>5, <1>6

LEMMA QueueMoves == ASSUME BaseInv, ProcessQueue PROVE Moves
<1>1. UNCHANGED <<ring, taken, lost, dropped, confs>>
  BY DEF ProcessQueue, receiver, history
<1>2. Ringing' = Ringing /\ Frames(dropped') = Frames(dropped) /\ Confirmed' = Confirmed
  BY <1>1 DEF Ringing, Confirms, Confirmed
<1>3. CASE MaySend
  <2>1. /\ frame' = Head(queue) /\ queue' = Tail(queue) /\ tx' = "transmit"
        /\ tx = "idle" /\ queue # <<>>
    BY <1>3 DEF ProcessQueue, MaySend
  <2>2. Head(queue) \in Frame /\ Frames(queue) = Frames(queue') \union {Head(queue)}
    BY <2>1, FramesOf DEF BaseInv, AllTypes, TransmitterType
  <2>3. Flying = {} /\ Flying' = {Head(queue)} BY <2>1, <2>2 DEF Flying
  <2> QED BY <1>1, <1>2, <2>2, <2>3 DEF Moves
<1>4. CASE ~MaySend
  <2>1. UNCHANGED <<queue, frame, tx>> BY <1>4 DEF ProcessQueue
  <2>2. Flying' = Flying /\ Frames(queue') = Frames(queue) BY <2>1 DEF Flying
  <2> QED BY <1>1, <1>2, <2>2 DEF Moves
<1> QED BY <1>3, <1>4

LEMMA PopMoves == ASSUME BaseInv, ProcessRing PROVE Moves
<1>1. UNCHANGED <<queue, frame, tx, dropped, taken, lost>>
  BY DEF ProcessRing, transmitter
<1>2. /\ Flying' = Flying /\ Frames(queue') = Frames(queue) /\ Frames(dropped') = Frames(dropped)
  BY <1>1 DEF Flying
<1>3. \/ ~Confirms(ring[1]) /\ Ringing = Ringing' /\ Confirmed' = Confirmed
      \/ /\ Confirms(ring[1]) /\ ring[1].f \in Frame
         /\ Ringing = Ringing' \union {ring[1].f}
         /\ Confirmed' = Confirmed \union {ring[1].f}
  BY RingingPopped
<1> QED BY <1>1, <1>2, <1>3 DEF Moves

LEMMA ResetMoves == ASSUME BaseInv, ResetLocked PROVE Moves
<1>1. /\ dropped' = dropped \o Unconfirmed \o queue /\ queue' = <<>> /\ tx' = "idle"
      /\ ring' = <<>> /\ UNCHANGED <<taken, confs>>
      /\ lost' = lost \union {ring[i].f : i \in {k \in DOMAIN ring : Confirms(ring[k])}}
  BY DEF ResetLocked
<1>2. queue \in Seq(Frame) /\ dropped \in Seq(Frame) /\ Unconfirmed \in Seq(Frame)
      /\ DOMAIN ring = 1 .. Len(ring)
  BY UnconfirmedIs, LenProperties DEF BaseInv, AllTypes, TransmitterType, ReceiverType
<1>3. Frames(dropped') = Frames(dropped) \union Flying \union Frames(queue)
  <2>1. /\ dropped \o Unconfirmed \in Seq(Frame)
        /\ Frames(dropped \o Unconfirmed) = Frames(dropped) \union Flying
    BY <1>2, FramesConcat, FramesUnconfirmed
  <2> QED BY <1>1, <1>2, <2>1, FramesConcat
<1>4. /\ Frames(queue') = {} /\ Flying' = {} /\ Confirmed' = Confirmed
      /\ Ringing' = {} /\ lost' = lost \union Ringing
  BY <1>1, <1>2 DEF Frames, Flying, Confirmed, Ringing
<1> QED BY <1>1, <1>3, <1>4 DEF Moves

LEMMA HearMoves == ASSUME BaseInv, UartTask PROVE Moves
<1>1. UNCHANGED <<queue, frame, dropped, taken, confs>> /\ pc # "clear"
  BY HearKeeps
<1>2. Frames(queue') = Frames(queue) /\ Frames(dropped') = Frames(dropped) /\ Confirmed' = Confirmed
  BY <1>1 DEF Confirmed
<1>3. CASE ReceiveCon
  <2>1. /\ Ringing' \in {Ringing, Ringing \union {wait}}
        /\ wait \in Ringing' \union lost' /\ wait \in Frame
    BY <1>3, RingingCon
  <2>2. lost \subseteq lost' /\ (tx = "await" /\ frame # wait => frame \in lost')
    BY <1>3, HeardCon DEF Confirming, RingGrows
  <2>3. tx' = IF tx = "await" THEN "idle" ELSE tx BY <1>3 DEF ReceiveCon
  <2>4. CASE tx = "await"
    <3>1. Flying = {frame} /\ Flying' = {}
      BY <1>1, <2>3, <2>4 DEF Flying, BaseInv, LiveInv
    <3> QED BY <1>1, <1>2, <1>3, <2>1, <2>2, <2>4, <3>1 DEF Moves
  <2>5. CASE tx # "await"
    <3>1. Flying' = Flying BY <1>1, <2>3, <2>5 DEF Flying
    <3> QED BY <1>1, <1>2, <1>3, <2>1, <2>2, <2>5, <3>1 DEF Moves
  <2> QED BY <2>4, <2>5
<1>4. CASE ReceiveState \/ ReceiveOrphanCon
  <2>1. Ringing' = Ringing /\ lost \subseteq lost'
    BY <1>4, Heard, RingingPlain
       DEF Plain, RingGrows, ReceiveState, ReceiveOrphanCon, ReceiveCon, Ringing, Confirms
  <2>2. tx' = tx \/ (tx = "await" /\ tx' = "idle" /\ frame \in lost')
    BY <1>4 DEF ReceiveState, ReceiveOrphanCon
  <2>3. Flying' = Flying \/ (Flying' = {} /\ Flying \subseteq lost')
    BY <1>1, <2>2 DEF Flying
  <2> QED BY <1>1, <1>2, <2>1, <2>3 DEF Moves
<1>5. CASE ReceiveOwnEcho \/ ReceiveFrame \/ ReceiveControl
  <2>1. Plain /\ lost' = lost
    BY <1>5, Heard
       DEF ReceiveOwnEcho, ReceiveFrame, ReceiveControl, IsOwnEcho, ReceiveState, ReceiveCon,
           ReceiveOrphanCon
  <2>2. Ringing' = Ringing BY <2>1, RingingPlain
  <2>3. tx' = tx BY <1>5 DEF ReceiveOwnEcho, ReceiveFrame, ReceiveControl
  <2>4. Flying' = Flying BY <1>1, <2>3 DEF Flying
  <2> QED BY <1>1, <1>2, <2>1, <2>2, <2>4 DEF Moves
<1> QED BY <1>3, <1>4, <1>5 DEF UartTask

LEMMA Moving == ASSUME BaseInv, [Next]_vars PROVE Moves
BY Steps, SendMoves, RestMoves, DropMoves, QueueMoves, PopMoves, ResetMoves, HearMoves

(* Whatever a step does, a frame goes on to the next place.                *)
LEMMA PlacesNext == ASSUME BaseInv, PlacesInv, [Next]_vars PROVE PlacesInv'
<1>1. Moves BY Moving
<1> HIDE DEF Frames, Flying, Ringing, Confirmed
<1> QED BY <1>1 DEF PlacesInv, Moves

LEMMA PlacesInit == Init => PlacesInv
BY DEF Init, PlacesInv

(* Every frame the stack handed over is confirmed, or queued, in flight,   *)
(* among the dropped, about to be confirmed, or lost with its              *)
(* confirmation.                                                           *)
THEOREM NoneForgotten == Spec => []Accounted
<1>1. ASSUME BaseInv, PlacesInv PROVE Accounted
  <2>1. /\ queue \in Seq(Frame) /\ dropped \in Seq(Frame) /\ ring \in Seq(Entries)
        /\ tx \in {"idle", "transmit", "await"} /\ taken \subseteq Frame
    BY <1>1 DEF BaseInv, AllTypes, TransmitterType, ReceiverType, HistoryType
  <2>2. /\ DOMAIN queue = 1 .. Len(queue) /\ DOMAIN dropped = 1 .. Len(dropped)
        /\ DOMAIN ring = 1 .. Len(ring)
    BY <2>1, LenProperties
  <2> SUFFICES ASSUME NEW f \in taken
               PROVE  \/ \E i \in DOMAIN queue : queue[i] = f
                      \/ f \in InFlight
                      \/ \E i \in DOMAIN dropped : dropped[i] = f
                      \/ \E i \in DOMAIN ring : ring[i].f = f /\ Confirms(ring[i])
                      \/ confs[f] # <<>>
                      \/ f \in lost
    BY DEF Accounted
  <2>3. f \in Frames(queue) \union Flying \union Frames(dropped) \union Ringing
              \union Confirmed \union lost
    BY <1>1 DEF PlacesInv
  <2>4. f \in Flying => f \in InFlight BY <2>1 DEF Flying, InFlight
  <2>5. f \in Frames(queue) => \E i \in DOMAIN queue : queue[i] = f BY <2>2 DEF Frames
  <2>6. f \in Frames(dropped) => \E i \in DOMAIN dropped : dropped[i] = f BY <2>2 DEF Frames
  <2>7. f \in Ringing => \E i \in DOMAIN ring : ring[i].f = f /\ Confirms(ring[i])
    BY <2>2 DEF Ringing, Confirms
  <2>8. f \in Confirmed => confs[f] # <<>> BY DEF Confirmed
  <2> QED BY <2>3, <2>4, <2>5, <2>6, <2>7, <2>8
<1>2. BaseInv /\ PlacesInv /\ [Next]_vars => (BaseInv /\ PlacesInv)'
  BY BaseNext, PlacesNext
<1>3. Init => BaseInv /\ PlacesInv BY BaseInit, PlacesInit
<1>4. BaseInv /\ PlacesInv => Accounted BY <1>1
<1> QED BY <1>2, <1>3, <1>4, PTL DEF Spec

-----------------------------------------------------------------------------
(* The truth of a confirmation.                                            *)

(* A token after which no echo is held but that of f.                      *)
Settles(t, f) ==
  t.kind \in {"con", "frame", "reset", "noise"} \/ (t.kind = "echo" /\ t.f = f)

(* Once the first n tokens are received, no echo is held but that of f.    *)
ConFits(n, f) ==
  /\ \A j \in 1 .. n : uart[j].kind = "echo" /\ uart[j].f # f =>
       \E k \in j + 1 .. n : Settles(uart[k], f)
  /\ wait \in {NoFrame, f} \/ \E k \in 1 .. n : Settles(uart[k], f)

(* A positive confirmation is about an acknowledged frame wherever it is   *)
(* on its way, and it finds its own echo held or none.                     *)
TrueInv ==
  /\ \A i \in 1 .. Len(uart) : uart[i].kind = "con" =>
       /\ uart[i].ok => uart[i].f \in acked
       /\ ConFits(i - 1, uart[i].f)
  /\ echoed => sending \in Frame /\ ConFits(Len(uart), sending)
  /\ \A i \in 1 .. Len(ring) : Confirms(ring[i]) /\ ring[i].ok => ring[i].f \in acked
  /\ \A f \in Frame : \A i \in 1 .. Len(confs[f]) : confs[f][i] => f \in acked

(* A token that is said changes nothing for those before it.               *)
LEMMA FitsSaid ==
  ASSUME UartType, NEW t \in Tokens, Says(t), wait' = wait,
         NEW n \in 0 .. Len(uart), NEW f, ConFits(n, f)
  PROVE  ConFits(n, f)'
<1>1. Len(uart) \in Nat /\ \A i \in 1 .. Len(uart) : uart'[i] = uart[i]
  BY SaysIs
<1>2. \A j \in 1 .. n : j \in 1 .. Len(uart) /\ \A k \in j + 1 .. n : k \in 1 .. Len(uart)
  BY <1>1
<1> QED BY <1>1, <1>2 DEF ConFits, Settles

LEMMA FitsSaidLast ==
  ASSUME UartType, NEW t \in Tokens, Says(t), wait' = wait, NEW f,
         Settles(t, f) \/ (t.kind = "state" /\ ConFits(Len(uart), f))
  PROVE  ConFits(Len(uart), f)'
<1> DEFINE n == Len(uart)
<1>1. /\ n \in Nat /\ Len(uart') = n + 1 /\ uart'[n + 1] = t
      /\ \A i \in 1 .. n : uart'[i] = uart[i]
  BY SaysIs
<1> HIDE DEF n
<1>2. CASE Settles(t, f)
  <2>1. n + 1 \in 1 .. n + 1 /\ Settles(uart'[n + 1], f) BY <1>1, <1>2
  <2>2. \A j \in 1 .. n + 1 : j # n + 1 => n + 1 \in j + 1 .. n + 1 BY <1>1
  <2>3. ~(t.kind = "echo" /\ t.f # f) BY <1>2 DEF Settles
  <2>4. \A j \in 1 .. n + 1 : uart'[j].kind = "echo" /\ uart'[j].f # f =>
          \E k \in j + 1 .. n + 1 : Settles(uart'[k], f)
    BY <1>1, <2>1, <2>2, <2>3
  <2> QED BY <1>1, <2>1, <2>4 DEF ConFits
<1>3. CASE t.kind = "state" /\ ConFits(n, f)
  <2>1. \A j \in 1 .. n + 1 : j = n + 1 \/ j \in 1 .. n BY <1>1
  <2>2. \A j \in 1 .. n : \A k \in j + 1 .. n : k \in j + 1 .. n + 1 /\ k \in 1 .. n /\ k \in 1 .. n + 1
    BY <1>1
  <2>3. \A k \in 1 .. n : k \in 1 .. n + 1 BY <1>1
  <2>4. \A j \in 1 .. n + 1 : uart'[j].kind = "echo" /\ uart'[j].f # f =>
          \E k \in j + 1 .. n + 1 : Settles(uart'[k], f)
    BY <1>1, <1>3, <2>1, <2>2 DEF ConFits
  <2>5. wait' \in {NoFrame, f} \/ \E k \in 1 .. n + 1 : Settles(uart'[k], f)
    BY <1>1, <1>3, <2>3 DEF ConFits
  <2> QED BY <1>1, <2>4, <2>5 DEF ConFits
<1> QED BY <1>2, <1>3 DEF n

(* Receiving a token passes what it leaves held on to those after it.      *)
LEMMA FitsHeard ==
  ASSUME BaseInv, UartTask, NEW n \in 1 .. Len(uart), NEW f \in Frame, ConFits(n, f)
  PROVE  ConFits(n - 1, f)'
<1>1. /\ Len(uart) \in Nat \ {0} /\ Len(uart') = Len(uart) - 1
      /\ Head(uart) = uart[1]
      /\ \A i \in 1 .. Len(uart') : uart'[i] = uart[i + 1]
  BY HearsIs DEF BaseInv, AllTypes
<1>2. \A i \in 1 .. n - 1 : uart'[i] = uart[i + 1] /\ i + 1 \in 1 .. n
  BY <1>1
<1>3. \A j \in 1 .. n : \A k \in j + 1 .. n : k - 1 \in 1 .. n - 1 /\ (k - 1) + 1 = k
  OBVIOUS
<1>4. \A j \in 1 .. n - 1 : uart'[j].kind = "echo" /\ uart'[j].f # f =>
        \E k \in j + 1 .. n - 1 : Settles(uart'[k], f)
  <2> SUFFICES ASSUME NEW j \in 1 .. n - 1, uart'[j].kind = "echo", uart'[j].f # f
               PROVE  \E k \in j + 1 .. n - 1 : Settles(uart'[k], f)
    OBVIOUS
  <2>1. PICK k \in (j + 1) + 1 .. n : Settles(uart[k], f) BY <1>2 DEF ConFits
  <2>2. k - 1 \in j + 1 .. n - 1 /\ k - 1 \in 1 .. n - 1 /\ (k - 1) + 1 = k BY <2>1
  <2> QED BY <1>2, <2>1, <2>2
<1>5. wait' \in {NoFrame, f} \/ \E k \in 1 .. n - 1 : Settles(uart'[k], f)
  <2>1. CASE \E k \in 2 .. n : Settles(uart[k], f)
    <3>1. PICK k \in 2 .. n : Settles(uart[k], f) BY <2>1
    <3>2. k - 1 \in 1 .. n - 1 /\ (k - 1) + 1 = k BY <3>1
    <3> QED BY <1>2, <3>1, <3>2
  <2>2. CASE ~\E k \in 2 .. n : Settles(uart[k], f)
    <3>1. 1 \in 1 .. n /\ \A k \in 1 .. n : k = 1 \/ k \in 2 .. n OBVIOUS
    <3>2. ~(uart[1].kind = "echo" /\ uart[1].f # f) BY <2>2, <3>1 DEF ConFits
    <3>3. wait \in {NoFrame, f} \/ Settles(uart[1], f) BY <2>2, <3>1 DEF ConFits
    <3>4. wait' \in {wait, NoFrame} \/ (uart[1].kind = "echo" /\ wait' = uart[1].f)
      BY <1>1 DEF UartTask, ReceiveState, ReceiveCon, ReceiveOrphanCon, ReceiveOwnEcho,
         ReceiveFrame, ReceiveControl, IsOwnEcho
    <3>5. CASE uart[1].kind = "echo" BY <3>2, <3>3, <3>4, <3>5, <1>1
       DEF UartTask, ReceiveState, ReceiveCon, ReceiveOrphanCon, ReceiveOwnEcho,
         ReceiveFrame, ReceiveControl, IsOwnEcho
    <3>6. CASE uart[1].kind = "state" BY <3>3, <3>4, <3>6 DEF Settles
    <3>7. CASE uart[1].kind \in {"con", "frame", "reset", "noise"}
      BY <1>1, <3>7 DEF UartTask, ReceiveState, ReceiveCon, ReceiveOrphanCon, ReceiveOwnEcho,
         ReceiveFrame, ReceiveControl, IsOwnEcho
    <3>8. uart[1].kind \in {"echo", "con", "state", "frame", "reset", "noise"}
      BY HearsIs DEF BaseInv, AllTypes, Tokens
    <3> QED BY <3>5, <3>6, <3>7, <3>8
  <2> QED BY <2>1, <2>2
<1> QED BY <1>4, <1>5 DEF ConFits

LEMMA ConfirmTrue ==
  ASSUME BaseInv, TrueInv, acked' = acked, NEW f \in Frame, NEW ok \in BOOLEAN, Confirm(f, ok),
         ok => f \in acked
  PROVE  \A g \in Frame : \A i \in 1 .. Len(confs'[g]) : confs'[g][i] => g \in acked'
<1>1. /\ confs \in [Frame -> Seq(BOOLEAN)]
      /\ confs'[f] = Append(confs[f], ok)
      /\ \A g \in Frame : g # f => confs'[g] = confs[g]
  BY ConfirmType DEF BaseInv, AllTypes, HistoryType
<1>2. confs[f] \in Seq(BOOLEAN) BY <1>1
<1>3. \A i \in 1 .. Len(confs'[f]) : confs'[f][i] => f \in acked
  <2> DEFINE c == confs[f]
  <2>1. c \in Seq(BOOLEAN) /\ \A i \in 1 .. Len(c) : c[i] => f \in acked
    BY <1>2 DEF TrueInv
  <2> HIDE DEF c
  <2>2. \A i \in 1 .. Len(Append(c, ok)) : Append(c, ok)[i] => f \in acked
    <3> TAKE i \in 1 .. Len(Append(c, ok))
    <3>1. /\ Len(Append(c, ok)) = Len(c) + 1 /\ Append(c, ok)[Len(c) + 1] = ok /\ Len(c) \in Nat
          /\ \A j \in 1 .. Len(c) : Append(c, ok)[j] = c[j]
      BY <2>1
    <3>2. i = Len(c) + 1 \/ i \in 1 .. Len(c) BY <3>1
    <3> QED BY <2>1, <3>1, <3>2
  <2> QED BY <1>1, <2>2 DEF c
<1>4. \A g \in Frame : g # f => \A i \in 1 .. Len(confs'[g]) : confs'[g][i] => g \in acked
  BY <1>1 DEF TrueInv
<1> QED BY <1>3, <1>4

(* Steps that neither hear nor say anything.                               *)
LEMMA SilentTrue ==
  ASSUME BaseInv, TrueInv, UNCHANGED <<uart, wait, acked>>,
         echoed' => echoed /\ sending' = sending,
         \A i \in 1 .. Len(ring') : Confirms(ring'[i]) /\ ring'[i].ok => ring'[i].f \in acked,
         \A f \in Frame : \A i \in 1 .. Len(confs'[f]) : confs'[f][i] => f \in acked'
  PROVE  TrueInv'
<1>1. \A i \in 1 .. Len(uart') : uart'[i].kind = "con" =>
        /\ uart'[i].ok => uart'[i].f \in acked'
        /\ ConFits(i - 1, uart[i].f)'
  <2> SUFFICES ASSUME NEW CONSTANT i \in 1 .. Len(uart'), uart'[i].kind = "con"
               PROVE  (uart'[i].ok => uart'[i].f \in acked') /\ ConFits(i - 1, uart[i].f)'
    OBVIOUS
  <2>1. (uart[i].ok => uart[i].f \in acked) /\ ConFits(i - 1, uart[i].f)
    BY DEF TrueInv
  <2> QED BY <2>1 DEF ConFits
<1>2. echoed' => sending' \in Frame /\ ConFits(Len(uart), sending)'
  BY DEF TrueInv, ConFits, Settles
<1>3. \A i \in 1 .. Len(ring') : Confirms(ring'[i]) /\ ring'[i].ok => ring'[i].f \in acked'
  OBVIOUS
<1> QED BY <1>1, <1>2, <1>3 DEF TrueInv, Confirms

LEMMA MainTrue ==
  ASSUME BaseInv, TrueInv,
         \/ \E f \in Frame : SendFrame(f)
         \/ Bookkeeping \/ DropFrame \/ DropQueue \/ ReportDropped \/ ProcessQueue
         \/ TransmitStart \/ TransmitEnd \/ UNCHANGED vars
  PROVE  TrueInv'
<1>1. UNCHANGED <<uart, wait, acked, ring>> /\ (echoed' => echoed /\ sending' = sending)
  <2> USE DEF receiver, chip, history
  <2>1. CASE Bookkeeping BY <2>1, BookkeepingKeeps DEF BaseInv, AllTypes
  <2>2. CASE \E f \in Frame : SendFrame(f) BY <2>2 DEF SendFrame
  <2>3. CASE DropFrame \/ DropQueue \/ ReportDropped
    <3>1. UNCHANGED <<receiver, uart, chip, acked>>
      BY <2>3 DEF DropFrame, DropQueue, ReportDropped
    <3> QED BY <3>1
  <2>4. CASE ProcessQueue \/ TransmitStart BY <2>4 DEF ProcessQueue, TransmitStart
  <2>5. CASE TransmitEnd BY <2>5 DEF TransmitEnd
  <2>6. CASE UNCHANGED vars BY <2>6 DEF vars
  <2> QED BY <2>1, <2>2, <2>3, <2>4, <2>5, <2>6
<1>2. \A i \in 1 .. Len(ring') : Confirms(ring'[i]) /\ ring'[i].ok => ring'[i].f \in acked
  BY <1>1 DEF TrueInv, Confirms
<1>3. \A f \in Frame : \A i \in 1 .. Len(confs'[f]) : confs'[f][i] => f \in acked'
  <2>1. CASE confs' = confs BY <1>1, <2>1 DEF TrueInv
  <2>2. ASSUME NEW f \in Frame, Confirm(f, FALSE)
        PROVE  \A g \in Frame : \A i \in 1 .. Len(confs'[g]) : confs'[g][i] => g \in acked'
    BY <1>1, <2>2, ConfirmTrue, FALSE \in BOOLEAN
  <2>3. \A f \in Frame : SendFrame(f) => confs' = confs \/ Confirm(f, FALSE)
    BY DEF SendFrame
  <2>4. ReportDropped => confs' = confs \/ (Head(dropped) \in Frame /\ Confirm(Head(dropped), FALSE))
    BY FramesOf DEF ReportDropped, BaseInv, AllTypes, TransmitterType
  <2>5. ASSUME \/ Bookkeeping \/ DropFrame \/ DropQueue \/ ProcessQueue
               \/ TransmitStart \/ TransmitEnd \/ UNCHANGED vars
        PROVE  confs' = confs
    BY <2>5, BookkeepingKeeps DEF DropFrame, DropQueue, ProcessQueue, TransmitStart, TransmitEnd,
       vars, history, BaseInv, AllTypes
  <2>6. confs' = confs \/ \E f \in Frame : Confirm(f, FALSE)
    <3>1. CASE \E f \in Frame : SendFrame(f) BY <2>3, <3>1
    <3>2. CASE ~\E f \in Frame : SendFrame(f)
      <4>1. CASE ReportDropped BY <2>4, <4>1
      <4> QED BY <2>5, <3>2, <4>1
    <3> QED BY <3>1, <3>2
  <2> QED BY <2>1, <2>2, <2>6
<1> QED BY <1>1, <1>2, <1>3, SilentTrue

LEMMA PopTrue == ASSUME BaseInv, TrueInv, ProcessRing PROVE TrueInv'
<1>1. UNCHANGED <<uart, wait, acked, echoed, sending>> BY DEF ProcessRing, chip
<1>2. /\ Len(ring) \in Nat \ {0} /\ Len(ring') = Len(ring) - 1 /\ ring[1] \in Entries
      /\ \A i \in 1 .. Len(ring') : ring'[i] = ring[i + 1]
      /\ IF Confirms(ring[1]) THEN Confirm(ring[1].f, ring[1].ok) ELSE confs' = confs
  BY Popped
<1>3. \A i \in 1 .. Len(ring') : Confirms(ring'[i]) /\ ring'[i].ok => ring'[i].f \in acked
  <2> TAKE i \in 1 .. Len(ring')
  <2>1. i + 1 \in 1 .. Len(ring) /\ ring'[i] = ring[i + 1] BY <1>2
  <2> QED BY <2>1 DEF TrueInv
<1>4. 1 \in 1 .. Len(ring) BY <1>2
<1>5. \A f \in Frame : \A i \in 1 .. Len(confs'[f]) : confs'[f][i] => f \in acked'
  <2>1. CASE Confirms(ring[1])
    <3>1. ring[1].f \in Frame BY <1>4, <2>1 DEF BaseInv, LiveInv
    <3>2. ring[1].ok \in BOOLEAN BY <1>2 DEF Entries
    <3>3. ring[1].ok => ring[1].f \in acked BY <1>4, <2>1 DEF TrueInv
    <3> QED BY <1>1, <1>2, <2>1, <3>1, <3>2, <3>3, ConfirmTrue
  <2>2. CASE ~Confirms(ring[1]) BY <1>1, <1>2, <2>2 DEF TrueInv
  <2> QED BY <2>1, <2>2
<1> QED BY <1>1, <1>3, <1>5, SilentTrue

LEMMA ResetTrue == ASSUME BaseInv, TrueInv, ResetLocked PROVE TrueInv'
<1>1. /\ uart' = <<>> /\ ring' = <<>> /\ wait' = NoFrame /\ UNCHANGED <<confs, acked>>
  BY DEF ResetLocked
<1>2. Len(uart') = 0 /\ Len(ring') = 0 BY <1>1
<1>3. echoed' => sending' \in Frame /\ ConFits(Len(uart), sending)'
  BY <1>1, <1>2 DEF ConFits, ResetLocked, TrueInv
<1>4. \A f \in Frame : \A i \in 1 .. Len(confs'[f]) : confs'[f][i] => f \in acked'
  BY <1>1 DEF TrueInv
<1> QED BY <1>2, <1>3, <1>4 DEF TrueInv

LEMMA HearTrue == ASSUME BaseInv, TrueInv, UartTask PROVE TrueInv'
<1>1. UNCHANGED <<confs, acked, echoed, sending>> BY HearKeeps DEF chip
<1>2. /\ Len(uart) \in Nat \ {0} /\ Len(uart') = Len(uart) - 1
      /\ Head(uart) = uart[1] /\ uart[1] \in Tokens
      /\ \A i \in 1 .. Len(uart') : uart'[i] = uart[i + 1]
  BY HearsIs DEF BaseInv, AllTypes
<1>3. ASSUME NEW i \in 1 .. Len(uart'), uart'[i].kind = "con"
      PROVE  /\ uart'[i].ok => uart'[i].f \in acked'
             /\ ConFits(i - 1, uart[i].f)'
  <2> DEFINE f == uart[i + 1].f
  <2>1. i + 1 \in 1 .. Len(uart) /\ uart'[i] = uart[i + 1] BY <1>2
  <2>2. f \in Frame BY <1>3, <2>1 DEF BaseInv, LiveInv
  <2>3. uart[i + 1].ok => f \in acked BY <1>3, <2>1 DEF TrueInv
  <2>4. \A g : g = f => ConFits(i - 1, g)'
    <3> SUFFICES ASSUME NEW CONSTANT g, g = f PROVE ConFits(i - 1, g)'
      OBVIOUS
    <3>1. ConFits((i + 1) - 1, f) BY <1>3, <2>1 DEF TrueInv
    <3>2. (i + 1) - 1 = i /\ i \in 1 .. Len(uart) BY <1>2
    <3>3. ConFits(i, g) BY <3>1, <3>2
    <3> QED BY <2>2, <3>2, <3>3, FitsHeard
  <2>5. ConFits(i - 1, uart[i].f)' BY <2>1, <2>4 DEF ConFits, Settles
  <2> QED BY <1>1, <2>1, <2>3, <2>5
<1>4. ASSUME echoed' PROVE sending' \in Frame /\ ConFits(Len(uart), sending)'
  <2>1. ConFits(Len(uart), sending) BY <1>1, <1>4 DEF TrueInv
  <2>2. sending \in Frame BY <1>1, <1>4 DEF TrueInv
  <2>3. \A n, g : n = Len(uart) /\ g = sending => ConFits(n - 1, g)'
    <3> SUFFICES ASSUME NEW CONSTANT n, NEW CONSTANT g, n = Len(uart), g = sending
                 PROVE  ConFits(n - 1, g)'
      OBVIOUS
    <3>1. ConFits(n, g) /\ n \in 1 .. Len(uart) /\ g \in Frame BY <1>2, <2>1, <2>2
    <3> QED BY <3>1, FitsHeard
  <2>4. ConFits(Len(uart), sending)'
    <3> SUFFICES ASSUME NEW CONSTANT n, NEW CONSTANT g, n = Len(uart), g = sending
                 PROVE  ConFits(Len(uart), sending)'
      OBVIOUS
    <3>1. ConFits(n - 1, g)' BY <2>3
    <3>2. Len(uart') = n - 1 /\ sending' = g BY <1>1, <1>2
    <3> QED BY <3>1, <3>2 DEF ConFits
  <2> QED BY <1>1, <2>2, <2>4
<1>5. \A i \in 1 .. Len(ring') : Confirms(ring'[i]) /\ ring'[i].ok => ring'[i].f \in acked
  <2>1. RingGrows BY Heard DEF Confirming, Plain
  <2>2. Len(ring) \in Nat /\ Len(ring') \in Nat /\ Len(ring) <= Len(ring')
        /\ \A i \in 1 .. Len(ring) : ring'[i] = ring[i]
    BY <2>1 DEF RingGrows
  <2>3. \A i \in 1 .. Len(ring) : Confirms(ring'[i]) /\ ring'[i].ok => ring'[i].f \in acked
    BY <2>2 DEF TrueInv, Confirms
  <2>4. CASE Plain
    <3>1. \A i \in 1 .. Len(ring') : i \in 1 .. Len(ring) \/ i \in Len(ring) + 1 .. Len(ring')
      BY <2>2
    <3> QED BY <2>3, <2>4, <3>1 DEF Plain
  <2>5. CASE ReceiveCon /\ Confirming
    <3>1. uart[1].kind = "con" /\ wait # NoFrame /\ 1 \in 1 .. Len(uart)
      BY <1>2, <2>5 DEF ReceiveCon
    <3>2. ConFits(0, uart[1].f) BY <3>1 DEF TrueInv
    <3>3. wait = uart[1].f BY <3>1, <3>2 DEF ConFits
    <3>4. uart[1].ok => wait \in acked BY <3>1, <3>3 DEF TrueInv
    <3> DEFINE e == Entry(wait, TRUE, TRUE, uart[1].ok)
    <3>5. e.ok = uart[1].ok /\ e.f = wait BY DEF Entry
    <3>6. /\ Len(ring') <= Len(ring) + 1
          /\ Len(ring') = Len(ring) + 1 => ring'[Len(ring) + 1] = e
      BY <2>5 DEF Confirming
    <3> HIDE DEF e
    <3>7. \A i \in 1 .. Len(ring') :
            i \in 1 .. Len(ring) \/ (i = Len(ring) + 1 /\ Len(ring') = Len(ring) + 1)
      BY <2>2, <3>6
    <3> QED BY <2>3, <3>4, <3>5, <3>6, <3>7
  <2> QED BY <2>4, <2>5, Heard
<1> QED BY <1>1, <1>3, <1>4, <1>5 DEF TrueInv, Confirms

(* What the chip says is true, and what it says of the frame it sends      *)
(* follows the echo of that frame.                                         *)
Truly(t) ==
  /\ t.kind = "con" => echoed /\ t.f = sending /\ (t.ok => t.f \in acked')
  /\ echoed' => /\ sending' = sending /\ sending \in Frame
                /\ Settles(t, sending) \/ (t.kind = "state" /\ echoed)

LEMMA ChipSaysTruly ==
  ASSUME BaseInv, TrueInv, ChipStep
  PROVE  \/ \E t \in Tokens : Says(t) /\ Truly(t)
         \/ uart' = uart /\ ~echoed'
<1>1. sending \in FrameOrNone BY DEF BaseInv, AllTypes, ChipType
<1>2. \A k \in {"state", "frame", "reset", "noise"} :
        Token(k) \in Tokens /\ Token(k).kind = k
  BY DEF Token, Tokens
<1>3. \A f \in Frame, ok \in BOOLEAN :
        /\ Echo(f) \in Tokens /\ Echo(f).kind = "echo" /\ Echo(f).f = f
        /\ Con(f, ok) \in Tokens /\ Con(f, ok).kind = "con" /\ Con(f, ok).f = f /\ Con(f, ok).ok = ok
  BY DEF Echo, Con, Tokens
<1> HIDE DEF Tokens
<1> USE DEF chip, FrameOrNone
<1>4. ASSUME NEW again \in BOOLEAN, ChipEchoes(again)
      PROVE  \E t \in Tokens : Says(t) /\ Truly(t)
  <2>1. sending \in Frame /\ sending' = sending /\ Says(Echo(sending))
    BY <1>1, <1>4 DEF ChipEchoes
  <2>2. Truly(Echo(sending)) BY <1>3, <2>1, FALSE \in BOOLEAN DEF Truly, Settles
  <2> QED BY <1>3, <2>1, <2>2, FALSE \in BOOLEAN
<1>5. ASSUME NEW ok \in BOOLEAN, ChipConfirms(ok)
      PROVE  \E t \in Tokens : Says(t) /\ Truly(t)
  <2>1. /\ sending \in Frame /\ ~echoed' /\ echoed /\ Says(Con(sending, ok))
        /\ ok => sending \in acked'
    BY <1>1, <1>5 DEF ChipConfirms
  <2>2. Truly(Con(sending, ok)) BY <1>3, <2>1 DEF Truly
  <2> QED BY <1>3, <2>1, <2>2
<1>6. CASE ChipState \/ LineFrame
  <2>1. UNCHANGED <<echoed, sending>> /\ \E k \in {"state", "frame"} : Says(Token(k))
    BY <1>6 DEF ChipState, LineFrame
  <2>2. \A k \in {"state", "frame"} : Truly(Token(k))
    BY <1>2, <2>1 DEF Truly, Settles, TrueInv
  <2> QED BY <1>2, <2>1, <2>2
<1>7. CASE ChipRestarts \/ ChipUp \/ Noise
  <2>1. /\ ~echoed' \/ UNCHANGED <<echoed, sending>>
        /\ \E k \in {"reset", "noise"} : Says(Token(k))
    BY <1>7 DEF ChipRestarts, ChipUp, Noise
  <2>2. \A k \in {"reset", "noise"} : Truly(Token(k))
    BY <1>2, <2>1 DEF Truly, Settles, TrueInv
  <2> QED BY <1>2, <2>1, <2>2
<1>8. CASE ChipDown BY <1>8 DEF ChipDown
<1> QED BY <1>4, <1>5, <1>6, <1>7, <1>8 DEF ChipStep

LEMMA ChipTrue == ASSUME BaseInv, TrueInv, ChipStep PROVE TrueInv'
<1>1. UNCHANGED <<wait, ring, confs>> /\ acked \subseteq acked'
  BY ChipSays DEF receiver, BaseInv, AllTypes
<1>2. \A i \in 1 .. Len(ring') : Confirms(ring'[i]) /\ ring'[i].ok => ring'[i].f \in acked'
  BY <1>1 DEF TrueInv, Confirms
<1>3. \A f \in Frame : \A i \in 1 .. Len(confs'[f]) : confs'[f][i] => f \in acked'
  BY <1>1 DEF TrueInv
<1>4. CASE uart' = uart /\ ~echoed'
  <2>1. \A i \in 1 .. Len(uart') : uart'[i].kind = "con" =>
          /\ uart'[i].ok => uart'[i].f \in acked'
          /\ ConFits(i - 1, uart[i].f)'
    BY <1>1, <1>4 DEF TrueInv, ConFits, Settles
  <2> QED BY <1>2, <1>3, <1>4, <2>1 DEF TrueInv, Confirms
<1>5. CASE \E t \in Tokens : Says(t) /\ Truly(t)
  <2> HIDE DEF Tokens
  <2>1. PICK t \in Tokens : Says(t) /\ Truly(t) BY <1>5
  <2>2. /\ Len(uart) \in Nat /\ Len(uart') = Len(uart) + 1 /\ uart'[Len(uart) + 1] = t
        /\ \A i \in 1 .. Len(uart) : uart'[i] = uart[i]
    BY <2>1, SaysIs DEF BaseInv, AllTypes
  <2>3. UartType BY DEF BaseInv, AllTypes
  <2>4. ASSUME NEW i \in 1 .. Len(uart'), uart'[i].kind = "con"
        PROVE  /\ uart'[i].ok => uart'[i].f \in acked'
               /\ ConFits(i - 1, uart[i].f)'
    <3> SUFFICES ASSUME NEW CONSTANT n, NEW CONSTANT g, n = i - 1, g = uart'[i].f
                 PROVE  (uart'[i].ok => uart'[i].f \in acked') /\ ConFits(i - 1, uart[i].f)'
      OBVIOUS
    <3>1. n \in 0 .. Len(uart) BY <2>2
    <3>2. ConFits(n, g) /\ (uart'[i].ok => uart'[i].f \in acked')
      <4>1. CASE i \in 1 .. Len(uart)
        <5>1. uart'[i] = uart[i] BY <2>2, <4>1
        <5>2. ConFits(i - 1, uart[i].f) /\ (uart[i].ok => uart[i].f \in acked)
          BY <2>4, <4>1, <5>1 DEF TrueInv
        <5> QED BY <1>1, <5>1, <5>2
      <4>2. CASE i = Len(uart) + 1
        <5>1. uart'[i] = t BY <2>2, <4>2
        <5>2. echoed /\ t.f = sending /\ (t.ok => t.f \in acked')
          BY <2>1, <2>4, <5>1 DEF Truly
        <5>3. n = Len(uart) /\ g = sending BY <2>2, <4>2, <5>1, <5>2
        <5> QED BY <5>1, <5>2, <5>3 DEF TrueInv
      <4> QED BY <2>2, <4>1, <4>2
    <3>3. ConFits(n, g)' BY <1>1, <2>1, <2>3, <3>1, <3>2, FitsSaid
    <3> QED BY <3>2, <3>3 DEF ConFits
  <2>5. ASSUME echoed' PROVE sending' \in Frame /\ ConFits(Len(uart), sending)'
    <3> SUFFICES ASSUME NEW CONSTANT g, g = sending
                 PROVE  sending' \in Frame /\ ConFits(Len(uart), sending)'
      OBVIOUS
    <3>1. /\ sending' = g /\ g \in Frame
          /\ Settles(t, g) \/ (t.kind = "state" /\ echoed)
      BY <2>1, <2>5 DEF Truly
    <3>2. Settles(t, g) \/ (t.kind = "state" /\ ConFits(Len(uart), g))
      BY <3>1 DEF TrueInv
    <3>3. ConFits(Len(uart), g)' BY <1>1, <2>1, <2>3, <3>2, FitsSaidLast
    <3> QED BY <3>1, <3>3 DEF ConFits
  <2> QED BY <1>2, <1>3, <2>4, <2>5 DEF TrueInv, Confirms
<1> QED BY <1>4, <1>5, ChipSaysTruly

LEMMA TrueNext == BaseInv /\ TrueInv /\ [Next]_vars => TrueInv'
BY Steps, MainTrue, PopTrue, ResetTrue, HearTrue, ChipTrue

LEMMA TrueInit == Init => TrueInv
<1>1. \A f \in Frame : Init => confs[f] = <<>> BY DEF Init
<1> QED BY <1>1 DEF Init, TrueInv

(* The line acknowledged every frame whose confirmation says so.           *)
THEOREM ConTruthful == Spec => []ConIsTrue
<1>1. BaseInv /\ TrueInv => ConIsTrue
  <2> SUFFICES ASSUME BaseInv, TrueInv, NEW f \in Frame, NEW i \in DOMAIN confs[f], confs[f][i]
               PROVE  f \in acked
    BY DEF ConIsTrue
  <2>1. confs[f] \in Seq(BOOLEAN) BY DEF BaseInv, AllTypes, HistoryType
  <2>2. i \in 1 .. Len(confs[f]) BY <2>1, LenProperties
  <2> QED BY <2>2 DEF TrueInv
<1>2. BaseInv /\ TrueInv /\ [Next]_vars => (BaseInv /\ TrueInv)' BY BaseNext, TrueNext
<1>3. Init => BaseInv /\ TrueInv BY BaseInit, TrueInit
<1> QED BY <1>1, <1>2, <1>3, PTL DEF Spec

-----------------------------------------------------------------------------
(* What is under way from the chip while it does not restart by itself.    *)

Answers(t) == t.kind \in {"echo", "con"}

NoReset == \A i \in 1 .. Len(uart) : uart[i].kind # "reset"
NoAnswer == \A i \in 1 .. Len(uart) : ~Answers(uart[i])
NoCon == \A i \in 1 .. Len(uart) : uart[i].kind # "con"
AnswersAreOf(f) == \A i \in 1 .. Len(uart) : Answers(uart[i]) => uart[i].f = f
ResetIsLast ==
  \A i \in 1 .. Len(uart) : uart[i].kind = "reset" =>
    \A j \in i + 1 .. Len(uart) : uart[j].kind # "reset" /\ ~Answers(uart[j])
ConIsLast ==
  \A i \in 1 .. Len(uart) : uart[i].kind = "con" =>
    \A j \in i + 1 .. Len(uart) : ~Answers(uart[j])

(* The chip has no frame, and no word about one is under way.              *)
ChipQuiet == loading = NoFrame /\ sending = NoFrame /\ NoAnswer

(* Between a reset by the host and the end of its wait nothing is in       *)
(* flight, and the wait ends only when the chip has forgotten its frame.   *)
ResetInv ==
  /\ up
  /\ request => resetPending /\ ~uReset /\ NoReset
  /\ resetPending => tx = "idle" /\ wait = NoFrame
  /\ resetPending /\ ~request => loading = NoFrame /\ sending = NoFrame
  /\ NoReset \/ (resetPending /\ ~request /\ ~uReset)
  /\ ResetIsLast
  /\ resetPending /\ ~request /\ NoReset => ChipQuiet
  /\ uReset /\ ~resetPending =>
       connected /\ pc \in {"idle", "handle"} /\ tx = "idle" /\ wait = NoFrame /\ ChipQuiet
  /\ pc \in {"drop", "clear"} =>
       ~resetPending /\ tx = "idle" /\ wait = NoFrame /\ ChipQuiet

(* Otherwise the chip has, and speaks of, no frame but the one in flight,  *)
(* and no more of it once it is confirmed.                                 *)
FlightInv ==
  /\ echoed => sending # NoFrame
  /\ ~resetPending =>
       /\ loading # NoFrame => tx = "transmit" /\ begun /\ loading = frame
       /\ sending # NoFrame => tx = "await" /\ sending = frame /\ NoCon
       /\ wait # NoFrame => tx = "await" /\ wait = frame
       /\ NoAnswer \/ tx = "await"
       /\ AnswersAreOf(frame) /\ ConIsLast

ChipInv == downs = 0 => ResetInv /\ FlightInv

(* A token is said: what was said before is still under way.               *)
LEMMA SaysMore ==
  ASSUME UartType, NEW t \in Tokens, Says(t)
  PROVE  /\ NoReset' <=> NoReset /\ t.kind # "reset"
         /\ NoAnswer' <=> NoAnswer /\ ~Answers(t)
         /\ NoCon' <=> NoCon /\ t.kind # "con"
         /\ ResetIsLast /\ (NoReset \/ (t.kind # "reset" /\ ~Answers(t))) => ResetIsLast'
         /\ ConIsLast /\ (NoCon \/ ~Answers(t)) => ConIsLast'
         /\ AnswersAreOf(frame) /\ frame' = frame /\ (Answers(t) => t.f = frame) =>
              AnswersAreOf(frame)'
<1>1. /\ Len(uart) \in Nat /\ Len(uart') = Len(uart) + 1 /\ uart'[Len(uart) + 1] = t
      /\ \A i \in 1 .. Len(uart) : uart'[i] = uart[i]
  BY SaysIs
<1>2. /\ \A i \in 1 .. Len(uart') : i \in 1 .. Len(uart) \/ i = Len(uart) + 1
      /\ \A i \in 1 .. Len(uart) : i \in 1 .. Len(uart')
      /\ Len(uart) + 1 \in 1 .. Len(uart')
  BY <1>1
<1>3. /\ \A i \in 1 .. Len(uart) : \A j \in i + 1 .. Len(uart') :
           (j \in i + 1 .. Len(uart) /\ j \in 1 .. Len(uart)) \/ j = Len(uart) + 1
      /\ \A j \in (Len(uart) + 1) + 1 .. Len(uart') : FALSE
  BY <1>1
<1> HIDE DEF Tokens
<1>4. (NoReset' <=> NoReset /\ t.kind # "reset") /\ (NoCon' <=> NoCon /\ t.kind # "con")
  BY <1>1, <1>2 DEF NoReset, NoCon
<1>5. NoAnswer' <=> NoAnswer /\ ~Answers(t)
  BY <1>1, <1>2 DEF NoAnswer, Answers
<1>6. ResetIsLast /\ (NoReset \/ (t.kind # "reset" /\ ~Answers(t))) => ResetIsLast'
  BY <1>1, <1>2, <1>3 DEF ResetIsLast, NoReset, Answers
<1>7. ConIsLast /\ (NoCon \/ ~Answers(t)) => ConIsLast'
  BY <1>1, <1>2, <1>3 DEF ConIsLast, NoCon, Answers
<1>8. AnswersAreOf(frame) /\ frame' = frame /\ (Answers(t) => t.f = frame) => AnswersAreOf(frame)'
  BY <1>1, <1>2 DEF AnswersAreOf, Answers
<1> QED BY <1>4, <1>5, <1>6, <1>7, <1>8

(* A token is received: what it was the last of is over.                   *)
LEMMA HearsLess ==
  ASSUME UartType, UartTask
  PROVE  /\ NoReset => NoReset' /\ uart[1].kind # "reset"
         /\ NoReset' => NoReset \/ uart[1].kind = "reset"
         /\ NoAnswer => NoAnswer' /\ ~Answers(uart[1])
         /\ NoCon => NoCon' /\ uart[1].kind # "con"
         /\ NoAnswer' => NoCon'
         /\ ResetIsLast => ResetIsLast' /\ (uart[1].kind = "reset" => NoReset' /\ NoAnswer')
         /\ ConIsLast => ConIsLast' /\ (uart[1].kind = "con" => NoAnswer')
         /\ AnswersAreOf(frame) => /\ frame' = frame => AnswersAreOf(frame)'
                                   /\ Answers(uart[1]) => uart[1].f = frame
<1>1. /\ Len(uart) \in Nat \ {0} /\ Len(uart') = Len(uart) - 1
      /\ \A i \in 1 .. Len(uart') : uart'[i] = uart[i + 1]
  BY HearsIs
<1>2. /\ \A i \in 1 .. Len(uart') : i + 1 \in 1 .. Len(uart) /\ i + 1 \in 1 + 1 .. Len(uart)
      /\ \A i \in 1 .. Len(uart) : i = 1 \/ (i - 1 \in 1 .. Len(uart') /\ uart'[i - 1] = uart[i])
      /\ 1 \in 1 .. Len(uart)
  BY <1>1
<1>3. \A i \in 1 .. Len(uart') : \A j \in i + 1 .. Len(uart') :
        j \in 1 .. Len(uart') /\ j + 1 \in (i + 1) + 1 .. Len(uart)
  BY <1>1
<1>4. /\ NoReset => NoReset' /\ uart[1].kind # "reset"
      /\ NoReset' => NoReset \/ uart[1].kind = "reset"
      /\ NoCon => NoCon' /\ uart[1].kind # "con"
  BY <1>1, <1>2 DEF NoReset, NoCon
<1>5. /\ NoAnswer => NoAnswer' /\ ~Answers(uart[1])
      /\ NoAnswer' => NoCon'
  BY <1>1, <1>2 DEF NoAnswer, NoCon, Answers
<1>6. ASSUME ResetIsLast
      PROVE  ResetIsLast' /\ (uart[1].kind = "reset" => NoReset' /\ NoAnswer')
  <2>1. uart[1].kind = "reset" => NoReset' /\ NoAnswer'
    BY <1>1, <1>2, <1>6 DEF ResetIsLast, NoReset, NoAnswer, Answers
  <2>2. ResetIsLast'
    BY <1>1, <1>2, <1>3, <1>6 DEF ResetIsLast, Answers
  <2> QED BY <2>1, <2>2
<1>7. ASSUME ConIsLast
      PROVE  ConIsLast' /\ (uart[1].kind = "con" => NoAnswer')
  <2>1. uart[1].kind = "con" => NoAnswer'
    BY <1>1, <1>2, <1>7 DEF ConIsLast, NoAnswer, Answers
  <2>2. ConIsLast'
    BY <1>1, <1>2, <1>3, <1>7 DEF ConIsLast, Answers
  <2> QED BY <2>1, <2>2
<1>8. AnswersAreOf(frame) => /\ frame' = frame => AnswersAreOf(frame)'
                             /\ Answers(uart[1]) => uart[1].f = frame
  BY <1>1, <1>2 DEF AnswersAreOf, Answers
<1> QED BY <1>4, <1>5, <1>6, <1>7, <1>8

LEMMA SameTokens ==
  ASSUME uart' = uart
  PROVE  /\ NoReset' <=> NoReset
         /\ NoAnswer' <=> NoAnswer
         /\ NoCon' <=> NoCon
         /\ ResetIsLast' <=> ResetIsLast
         /\ ConIsLast' <=> ConIsLast
         /\ NoAnswer => ConIsLast'
         /\ (frame' = frame /\ AnswersAreOf(frame)) \/ NoAnswer => AnswersAreOf(frame)'
BY DEF NoReset, NoAnswer, NoCon, ResetIsLast, ConIsLast, AnswersAreOf, Answers

LEMMA MainChip ==
  ASSUME BaseInv, ChipInv,
         \/ \E f \in Frame : SendFrame(f)
         \/ Bookkeeping \/ DropFrame \/ DropQueue \/ ReportDropped \/ ProcessQueue
         \/ TransmitStart \/ TransmitEnd \/ ProcessRing \/ UNCHANGED vars
  PROVE  ChipInv'
<1> USE DEF ChipQuiet
<1> HIDE DEF NoReset, NoAnswer, NoCon, ResetIsLast, ConIsLast, AnswersAreOf
<1>1. UNCHANGED <<uart, wait, up, request, downs>>
  <2> USE DEF receiver, chip, bounds
  <2>1. CASE Bookkeeping BY <2>1, BookkeepingKeeps DEF BaseInv, AllTypes
  <2>2. CASE \E f \in Frame : SendFrame(f) BY <2>2 DEF SendFrame
  <2>3. CASE DropFrame \/ DropQueue \/ ReportDropped
    BY <2>3 DEF DropFrame, DropQueue, ReportDropped
  <2>4. CASE ProcessQueue \/ TransmitStart BY <2>4 DEF ProcessQueue, TransmitStart
  <2>5. CASE TransmitEnd \/ ProcessRing BY <2>5 DEF TransmitEnd, ProcessRing
  <2>6. CASE UNCHANGED vars BY <2>6 DEF vars
  <2> QED BY <2>1, <2>2, <2>3, <2>4, <2>5, <2>6
<1>2. /\ NoReset' <=> NoReset
      /\ NoAnswer' <=> NoAnswer
      /\ NoCon' <=> NoCon
      /\ ResetIsLast' <=> ResetIsLast
      /\ ConIsLast' <=> ConIsLast
      /\ NoAnswer => ConIsLast'
      /\ (frame' = frame /\ AnswersAreOf(frame)) \/ NoAnswer => AnswersAreOf(frame)'
  BY <1>1, SameTokens
<1> SUFFICES ASSUME downs = 0 PROVE ResetInv' /\ FlightInv'
  BY <1>1 DEF ChipInv
<1>3. ResetInv /\ FlightInv BY DEF ChipInv
<1>4. /\ frame \in FrameOrNone /\ tx \in {"idle", "transmit", "await"}
      /\ loading \in FrameOrNone /\ sending \in FrameOrNone
  BY DEF BaseInv, AllTypes, TransmitterType, ChipType
<1>5. CASE Bookkeeping
  <2>1. UNCHANGED <<loading, sending, echoed, frame, tx, begun>>
    BY <1>5, BookkeepingKeeps DEF transmitter, chip, BaseInv, AllTypes
  <2>2. CASE HandleReset
    <3>1. /\ pc = "handle" /\ (uReset' => uReset) /\ (resetPending' => resetPending)
          /\ uReset => ~uReset' /\ ~resetPending'
          /\ ~uReset => UNCHANGED link /\ pc' = "queue"
          /\ pc' = "drop" => uReset /\ ~resetPending
          /\ pc' # "clear"
      BY <2>2 DEF HandleReset, link, BaseInv, AllTypes, LinkType
    <3>2. CASE uReset
      <4>1. ~request /\ NoReset /\ ChipQuiet /\ tx = "idle" /\ wait = NoFrame
        BY <1>3, <3>2 DEF ResetInv
      <4>2. ~uReset' /\ ~resetPending' /\ pc' # "clear" /\ (pc' = "drop" => uReset /\ ~resetPending)
        BY <3>1, <3>2
      <4>3. ResetInv' BY <1>1, <1>2, <1>3, <2>1, <4>1, <4>2 DEF ResetInv
      <4>4. FlightInv' BY <1>1, <1>2, <1>3, <2>1, <4>1, <4>2 DEF FlightInv
      <4> QED BY <4>3, <4>4
    <3>3. CASE ~uReset
      BY <1>1, <1>2, <1>3, <2>1, <3>1, <3>3 DEF ResetInv, FlightInv, link
    <3> QED BY <3>2, <3>3
  <2>3. CASE ResetPendingTimeout
    <3>1. /\ pc = "handle" /\ resetPending /\ ~request /\ ~uReset /\ ~resetPending' /\ NoReset
          /\ UNCHANGED <<pc, uReset, connected>>
      <4>1. DOMAIN uart = 1 .. Len(uart)
        BY LenProperties DEF BaseInv, AllTypes, UartType
      <4> QED BY <2>3, <4>1 DEF ResetPendingTimeout, NoReset, main
    <3>2. ChipQuiet /\ tx = "idle" /\ wait = NoFrame /\ pc' = "handle" /\ ~uReset'
      BY <1>3, <3>1 DEF ResetInv
    <3>3. ResetInv' BY <1>1, <1>2, <1>3, <2>1, <3>1, <3>2 DEF ResetInv
    <3>4. FlightInv' BY <1>1, <1>2, <1>3, <2>1, <3>1, <3>2 DEF FlightInv
    <3> QED BY <3>3, <3>4
  <2>4. CASE ~HandleReset /\ ~ResetPendingTimeout
    <3>1. /\ UNCHANGED <<uReset, resetPending>> /\ pc' \notin {"drop", "clear"}
          /\ pc = "handle" => FALSE
          /\ pc = "idle" => pc' = "handle" \/ ~connected
          /\ pc = "idle" /\ connected => connected'
      BY <1>5, <2>4 DEF Bookkeeping, BeginPass, EndTransmit, RingDone, StartOfReset,
         TransmitterWatchdog, DesyncWatchdog, BcuRecovery, StartReset, Disconnect, EndPass,
         ResetRingDone, link, main
    <3> QED BY <1>1, <1>2, <1>3, <2>1, <3>1 DEF ResetInv, FlightInv
  <2> QED BY <2>2, <2>3, <2>4
<1>6. CASE (\E f \in Frame : SendFrame(f)) \/ ProcessRing \/ UNCHANGED vars
  <2>1. UNCHANGED <<pc, loading, sending, echoed, frame, tx, begun, link>>
    BY <1>6 DEF SendFrame, ProcessRing, vars, main, transmitter, chip
  <2> QED BY <1>1, <1>2, <1>3, <2>1 DEF ResetInv, FlightInv, link
<1>7. CASE DropFrame \/ DropQueue
  <2>1. /\ pc \in {"drop", "clear"} /\ tx' \in {tx, "idle"}
        /\ UNCHANGED <<loading, sending, echoed, link>>
    BY <1>7 DEF DropFrame, DropQueue, chip
  <2>2. ChipQuiet /\ tx = "idle" /\ wait = NoFrame /\ ~resetPending
    BY <1>3, <2>1 DEF ResetInv
  <2>3. pc = "idle" \/ pc = "handle" => FALSE BY <2>1
  <2> QED BY <1>1, <1>2, <1>3, <2>1, <2>2, <2>3 DEF ResetInv, FlightInv, link
<1>8. CASE ReportDropped
  <2>1. /\ pc = "report" /\ pc' \in {"report", "idle", "queue"}
        /\ UNCHANGED <<loading, sending, echoed, frame, tx, begun, link>>
    BY <1>8 DEF ReportDropped, chip, BaseInv, AllTypes, MainType
  <2> QED BY <1>1, <1>2, <1>3, <2>1 DEF ResetInv, FlightInv, link
<1>9. CASE ProcessQueue
  <2>1. /\ pc = "queue" /\ pc' = "transmit" /\ UNCHANGED <<loading, sending, echoed, link>>
        /\ \/ tx = "idle" /\ ~resetPending
           \/ UNCHANGED <<frame, tx, begun>>
    BY <1>9 DEF ProcessQueue, MaySend, chip
  <2> QED BY <1>1, <1>2, <1>3, <2>1 DEF ResetInv, FlightInv, link
<1>10. CASE TransmitStart
  <2>1. /\ pc = "transmit" /\ tx = "transmit" /\ begun' /\ loading' \in {frame, NoFrame}
        /\ UNCHANGED <<pc, sending, echoed, link, tx, frame>>
    BY <1>10 DEF TransmitStart, chip, main
  <2> QED BY <1>1, <1>2, <1>3, <2>1 DEF ResetInv, FlightInv, link
<1>11. CASE TransmitEnd
  <2>1. /\ pc = "transmit" /\ tx = "transmit" /\ tx' = "await" /\ loading' = NoFrame
        /\ \/ loading = NoFrame /\ sending' = sending /\ echoed' = echoed
           \/ loading # NoFrame /\ sending' = loading /\ ~echoed'
        /\ UNCHANGED <<pc, link, frame>>
    BY <1>11 DEF TransmitEnd, main
  <2>2. ~resetPending /\ NoAnswer /\ sending = NoFrame BY <1>3, <2>1 DEF ResetInv, FlightInv
  <2>3. NoCon BY <2>2 DEF NoAnswer, NoCon, Answers
  <2> QED BY <1>1, <1>2, <1>3, <2>1, <2>2, <2>3 DEF ResetInv, FlightInv, link
<1> QED BY <1>5, <1>6, <1>7, <1>8, <1>9, <1>10, <1>11

LEMMA ResetChip == ASSUME BaseInv, ChipInv, ResetLocked PROVE ChipInv'
<1>1. /\ uart' = <<>> /\ tx' = "idle" /\ wait' = NoFrame /\ ~uReset' /\ request' = up
      /\ resetPending' = TRUE /\ pc' = "report" /\ UNCHANGED <<up, loading, sending, echoed>>
      /\ downs' = downs
  BY DEF ResetLocked, bounds
<1>2. NoReset' /\ ResetIsLast'
  <2>1. Len(uart') = 0 BY <1>1
  <2> QED BY <2>1 DEF NoReset, ResetIsLast
<1> QED BY <1>1, <1>2 DEF ChipInv, ResetInv, FlightInv

LEMMA HearChip == ASSUME BaseInv, ChipInv, UartTask PROVE ChipInv'
<1> USE DEF ChipQuiet
<1> HIDE DEF NoReset, NoAnswer, NoCon, ResetIsLast, ConIsLast, AnswersAreOf
<1>1. /\ UNCHANGED <<pc, frame, begun, resetPending, connected, up, loading, sending, echoed,
                     request, downs>>
      /\ tx' \in {tx, "idle"}
  BY HearKeeps DEF main, chip, bounds
<1> SUFFICES ASSUME downs = 0 PROVE ResetInv' /\ FlightInv'
  BY <1>1 DEF ChipInv
<1>2. ResetInv /\ FlightInv BY DEF ChipInv
<1>3. /\ NoReset => NoReset' /\ uart[1].kind # "reset"
      /\ NoReset' => NoReset \/ uart[1].kind = "reset"
      /\ NoAnswer => NoAnswer' /\ ~Answers(uart[1])
      /\ NoCon => NoCon' /\ uart[1].kind # "con"
      /\ NoAnswer' => NoCon'
      /\ ResetIsLast => ResetIsLast' /\ (uart[1].kind = "reset" => NoReset' /\ NoAnswer')
      /\ ConIsLast => ConIsLast' /\ (uart[1].kind = "con" => NoAnswer')
      /\ AnswersAreOf(frame) => /\ frame' = frame => AnswersAreOf(frame)'
                                /\ Answers(uart[1]) => uart[1].f = frame
  BY HearsLess DEF BaseInv, AllTypes
<1>4. Head(uart) = uart[1] BY HearsIs DEF BaseInv, AllTypes
<1>5. /\ \/ wait' \in {wait, NoFrame}
         \/ uart[1].kind = "echo" /\ tx = "await" /\ tx' = tx /\ wait' = uart[1].f
      /\ uReset' => uReset \/ uart[1].kind = "reset"
      /\ tx' # tx => tx = "await" /\ uart[1].kind = "con" /\ wait' = NoFrame
  <2>1. uReset \in BOOLEAN BY DEF BaseInv, AllTypes, LinkType
  <2>2. CASE ReceiveState \/ ReceiveCon \/ ReceiveOrphanCon
    BY <1>4, <2>2 DEF ReceiveState, ReceiveCon, ReceiveOrphanCon
  <2>3. CASE ReceiveOwnEcho BY <1>4, <2>3 DEF ReceiveOwnEcho, IsOwnEcho
  <2>4. CASE ReceiveFrame BY <1>4, <2>1, <2>4 DEF ReceiveFrame
  <2>5. CASE ReceiveControl
    <3>1. /\ uReset' = (uReset \/ (uart[1].kind = "reset" /\ ~invalid))
          /\ wait' = NoFrame /\ tx' = tx
      BY <1>4, <2>5 DEF ReceiveControl
    <3>2. uReset' => uReset \/ uart[1].kind = "reset" BY <2>1, <3>1
    <3> QED BY <3>1, <3>2
  <2> QED BY <2>2, <2>3, <2>4, <2>5 DEF UartTask
<1>6. tx = "idle" => tx' = "idle" BY <1>1
<1>7. CASE tx' = tx
  <2>1. \/ tx = "idle" \/ wait' \in {wait, NoFrame}
        \/ tx = "await" /\ Answers(uart[1]) /\ wait' = uart[1].f
    BY <1>5 DEF Answers
  <2>2. resetPending => wait' = NoFrame BY <1>2, <1>5 DEF ResetInv
  <2>3. ChipQuiet => wait' \in {wait, NoFrame} BY <1>3, <1>5 DEF Answers
  <2>4. ResetInv' BY <1>1, <1>2, <1>3, <1>5, <1>7, <2>2, <2>3 DEF ResetInv
  <2>5. FlightInv' BY <1>1, <1>2, <1>3, <1>5, <1>7, <2>1 DEF FlightInv, Answers
  <2> QED BY <2>4, <2>5
<1>8. CASE tx' # tx
  <2>1. tx = "await" /\ tx' = "idle" /\ uart[1].kind = "con" /\ wait' = NoFrame
    BY <1>1, <1>5, <1>8
  <2>2. ~resetPending /\ pc \notin {"drop", "clear"} /\ (uReset' => uReset) /\ ~uReset
    BY <1>2, <1>5, <2>1 DEF ResetInv
  <2>3. NoAnswer' /\ loading = NoFrame /\ sending = NoFrame /\ ConIsLast' /\ AnswersAreOf(frame)'
    BY <1>1, <1>2, <1>3, <2>1, <2>2 DEF FlightInv
  <2>4. ResetInv' BY <1>1, <1>2, <1>3, <2>1, <2>2 DEF ResetInv
  <2>5. FlightInv' BY <1>1, <1>2, <1>3, <2>1, <2>2, <2>3 DEF FlightInv
  <2> QED BY <2>4, <2>5
<1> QED BY <1>7, <1>8

LEMMA ChipChip == ASSUME BaseInv, ChipInv, ChipStep PROVE ChipInv'
<1> USE DEF ChipQuiet
<1> HIDE DEF NoReset, NoAnswer, NoCon, ResetIsLast, ConIsLast, AnswersAreOf
<1>1. UNCHANGED <<pc, frame, tx, begun, wait, uReset, resetPending, connected>>
      /\ downs' \in Nat /\ downs \in Nat
  BY ChipSays DEF main, transmitter, receiver, link, BaseInv, AllTypes, BoundType
<1>2. \A t \in Tokens : Says(t) =>
        /\ NoReset' <=> NoReset /\ t.kind # "reset"
        /\ NoAnswer' <=> NoAnswer /\ ~Answers(t)
        /\ NoCon' <=> NoCon /\ t.kind # "con"
        /\ ResetIsLast /\ (NoReset \/ (t.kind # "reset" /\ ~Answers(t))) => ResetIsLast'
        /\ ConIsLast /\ (NoCon \/ ~Answers(t)) => ConIsLast'
        /\ AnswersAreOf(frame) /\ frame' = frame /\ (Answers(t) => t.f = frame) => AnswersAreOf(frame)'
  BY SaysMore DEF BaseInv, AllTypes
<1>3. \A k \in {"state", "frame", "reset", "noise"} :
        Token(k) \in Tokens /\ Token(k).kind = k
  BY DEF Token, Tokens
<1>4. \A f \in Frame, ok \in BOOLEAN :
        /\ Echo(f) \in Tokens /\ Echo(f).kind = "echo" /\ Echo(f).f = f
        /\ Con(f, ok) \in Tokens /\ Con(f, ok).kind = "con" /\ Con(f, ok).f = f
  BY DEF Echo, Con, Tokens
<1>5. sending \in FrameOrNone BY DEF BaseInv, AllTypes, ChipType
<1> HIDE DEF Tokens
<1>6. CASE ChipDown
  <2>1. downs' = downs + 1 BY <1>6 DEF ChipDown
  <2> QED BY <1>1, <2>1 DEF ChipInv
<1>7. ASSUME downs = 0, ~ChipDown, ResetInv, FlightInv
      PROVE  ResetInv' /\ FlightInv'
  <2>1. ASSUME NEW again \in BOOLEAN, ChipEchoes(again) PROVE ResetInv' /\ FlightInv'
    <3> DEFINE t == Echo(sending)
    <3>1. /\ sending \in Frame /\ Says(t) /\ echoed' = TRUE
          /\ UNCHANGED <<up, loading, sending, request>>
      BY <1>5, <2>1 DEF ChipEchoes, FrameOrNone
    <3>2. t \in Tokens /\ t.kind = "echo" /\ t.f = sending
      BY <1>4, <3>1
    <3> HIDE DEF t
    <3>3. NoReset BY <1>7, <3>1 DEF ResetInv, FlightInv, ChipQuiet
    <3>4. /\ NoReset' /\ (NoCon' <=> NoCon)
          /\ ResetIsLast /\ NoReset => ResetIsLast'
          /\ ConIsLast /\ NoCon => ConIsLast'
          /\ AnswersAreOf(frame) /\ frame' = frame /\ t.f = frame => AnswersAreOf(frame)'
      BY <1>2, <3>1, <3>2, <3>3
    <3>5. ResetInv' BY <1>1, <1>7, <3>1, <3>3, <3>4 DEF ResetInv
    <3>6. FlightInv' BY <1>1, <1>7, <3>1, <3>2, <3>4 DEF FlightInv
    <3> QED BY <3>5, <3>6
  <2>2. ASSUME NEW ok \in BOOLEAN, ChipConfirms(ok) PROVE ResetInv' /\ FlightInv'
    <3> DEFINE t == Con(sending, ok)
    <3>1. /\ sending \in Frame /\ Says(t) /\ ~echoed' /\ sending' = NoFrame
          /\ UNCHANGED <<up, loading, request>>
      BY <1>5, <2>2 DEF ChipConfirms, FrameOrNone
    <3>2. t \in Tokens /\ t.kind = "con" /\ t.f = sending
      BY <1>4, <3>1
    <3> HIDE DEF t
    <3>3. NoReset BY <1>7, <3>1 DEF ResetInv, FlightInv, ChipQuiet
    <3>4. /\ NoReset'
          /\ ResetIsLast /\ NoReset => ResetIsLast'
          /\ ConIsLast /\ NoCon => ConIsLast'
          /\ AnswersAreOf(frame) /\ frame' = frame /\ t.f = frame => AnswersAreOf(frame)'
      BY <1>2, <3>1, <3>2, <3>3
    <3>5. ResetInv' BY <1>1, <1>7, <3>1, <3>3, <3>4 DEF ResetInv
    <3>6. FlightInv' BY <1>1, <1>7, <3>1, <3>2, <3>4 DEF FlightInv
    <3> QED BY <3>5, <3>6
  <2>3. CASE ChipState \/ LineFrame \/ Noise
    <3>1. /\ \E k \in {"state", "frame", "noise"} : Says(Token(k))
          /\ UNCHANGED <<up, loading, sending, echoed, request>>
      BY <2>3 DEF ChipState, LineFrame, Noise, chip
    <3>2. PICK t \in Tokens : Says(t) /\ t.kind \in {"state", "frame", "noise"}
      BY <1>3, <3>1
    <3>3. /\ NoReset' <=> NoReset
          /\ NoAnswer' <=> NoAnswer
          /\ NoCon' <=> NoCon
          /\ ResetIsLast => ResetIsLast'
          /\ ConIsLast => ConIsLast'
          /\ AnswersAreOf(frame) /\ frame' = frame => AnswersAreOf(frame)'
      BY <1>2, <3>2 DEF Answers
    <3>4. ResetInv' BY <1>1, <1>7, <3>1, <3>3 DEF ResetInv
    <3>5. FlightInv' BY <1>1, <1>7, <3>1, <3>3 DEF FlightInv
    <3> QED BY <3>4, <3>5
  <2>4. CASE ChipRestarts
    <3>1. /\ request /\ ~request' /\ loading' = NoFrame /\ sending' = NoFrame /\ ~echoed'
          /\ up' = up /\ Says(Token("reset"))
      BY <2>4 DEF ChipRestarts
    <3>2. resetPending /\ ~uReset /\ NoReset BY <1>7, <3>1 DEF ResetInv
    <3>3. ~NoReset' /\ (ResetIsLast => ResetIsLast') BY <1>2, <1>3, <3>1, <3>2
    <3>4. ResetInv' BY <1>1, <1>7, <3>1, <3>2, <3>3 DEF ResetInv
    <3>5. FlightInv' BY <1>1, <3>1, <3>2 DEF FlightInv
    <3> QED BY <3>4, <3>5
  <2>5. ~ChipUp BY <1>7 DEF ChipUp, ResetInv
  <2> QED BY <1>7, <2>1, <2>2, <2>3, <2>4, <2>5 DEF ChipStep
<1>8. ~ChipDown => downs' = downs
  BY DEF ChipStep, ChipEchoes, ChipConfirms, ChipState, LineFrame, ChipRestarts, ChipUp, Noise, bounds
<1> QED BY <1>6, <1>7, <1>8 DEF ChipInv

LEMMA ChipNext == BaseInv /\ ChipInv /\ [Next]_vars => ChipInv'
BY Steps, MainChip, ResetChip, HearChip, ChipChip

LEMMA ChipInit == Init => ChipInv
BY DEF Init, ChipInv, ResetInv, FlightInv, ChipQuiet, NoReset, NoAnswer, NoCon, ResetIsLast,
       ConIsLast, AnswersAreOf

-----------------------------------------------------------------------------
(* One confirmation for each frame while the chip does not restart.        *)

Distinct(s) == \A i, j \in 1 .. Len(s) : s[i] = s[j] => i = j

RingOnce ==
  \A i, j \in 1 .. Len(ring) :
    Confirms(ring[i]) /\ Confirms(ring[j]) /\ ring[i].f = ring[j].f => i = j

(* A frame is in one place only, and was handed over.                      *)
Apart ==
  /\ Frames(queue) \union Flying \union Frames(dropped) \union Ringing \union Confirmed \subseteq taken
  /\ Frames(queue) \intersect (Flying \union Frames(dropped) \union Ringing \union Confirmed) = {}
  /\ Flying \intersect (Frames(dropped) \union Ringing \union Confirmed) = {}
  /\ Frames(dropped) \intersect (Ringing \union Confirmed) = {}
  /\ Ringing \intersect Confirmed = {}

OnceInv == Distinct(queue) /\ Distinct(dropped) /\ RingOnce /\ AtMostOneCon /\ Apart

LEMMA DistinctTail ==
  ASSUME NEW s \in Seq(Frame), s # <<>>, Distinct(s)
  PROVE  Distinct(Tail(s)) /\ Head(s) \notin Frames(Tail(s))
<1>1. /\ Len(s) \in Nat \ {0} /\ Len(Tail(s)) = Len(s) - 1 /\ Head(s) = s[1]
      /\ \A i \in 1 .. Len(Tail(s)) : Tail(s)[i] = s[i + 1]
  BY EmptySeq, HeadTailProperties
<1>2. /\ 1 \in 1 .. Len(s)
      /\ \A i \in 1 .. Len(Tail(s)) : i + 1 \in 1 .. Len(s) /\ i + 1 # 1
      /\ \A i, j \in 1 .. Len(Tail(s)) : i + 1 = j + 1 => i = j
  BY <1>1
<1>3. Distinct(Tail(s)) BY <1>1, <1>2 DEF Distinct
<1>4. Head(s) \notin Frames(Tail(s)) BY <1>1, <1>2 DEF Distinct, Frames
<1> QED BY <1>3, <1>4

LEMMA DistinctAppend ==
  ASSUME NEW s \in Seq(Frame), NEW f \in Frame, Distinct(s), f \notin Frames(s)
  PROVE  Distinct(Append(s, f))
<1>1. /\ Len(s) \in Nat /\ Len(Append(s, f)) = Len(s) + 1 /\ Append(s, f)[Len(s) + 1] = f
      /\ \A i \in 1 .. Len(s) : Append(s, f)[i] = s[i]
  OBVIOUS
<1>2. \A i \in 1 .. Len(Append(s, f)) : i \in 1 .. Len(s) \/ i = Len(s) + 1 BY <1>1
<1>3. \A i \in 1 .. Len(s) : s[i] # f BY DEF Frames
<1> QED BY <1>1, <1>2, <1>3 DEF Distinct

LEMMA DistinctConcat ==
  ASSUME NEW s \in Seq(Frame), NEW r \in Seq(Frame), Distinct(s), Distinct(r),
         Frames(s) \intersect Frames(r) = {}
  PROVE  Distinct(s \o r)
<1>1. /\ Len(s) \in Nat /\ Len(r) \in Nat /\ Len(s \o r) = Len(s) + Len(r)
      /\ \A i \in 1 .. Len(s) + Len(r) :
           (s \o r)[i] = IF i <= Len(s) THEN s[i] ELSE r[i - Len(s)]
  BY ConcatProperties
<1>2. \A i \in 1 .. Len(s \o r) :
        \/ i \in 1 .. Len(s) /\ (s \o r)[i] = s[i]
        \/ i - Len(s) \in 1 .. Len(r) /\ (s \o r)[i] = r[i - Len(s)]
  BY <1>1
<1>3. \A i \in 1 .. Len(s), j \in 1 .. Len(r) : s[i] # r[j] BY DEF Frames
<1>4. \A i, j \in 1 .. Len(s \o r) : i - Len(s) = j - Len(s) => i = j BY <1>1
<1> QED BY <1>2, <1>3, <1>4 DEF Distinct

LEMMA DistinctUnconfirmed == ASSUME BaseInv PROVE Distinct(Unconfirmed)
<1>1. Unconfirmed = <<>> \/ Unconfirmed = <<frame>> BY DEF Unconfirmed
<1> QED BY <1>1 DEF Distinct

LEMMA RingOncePlain == ASSUME BaseInv, Plain, RingOnce PROVE RingOnce'
<1>1. /\ Len(ring) \in Nat /\ ring' \in Seq(Entries) /\ Len(ring) <= Len(ring')
      /\ \A i \in 1 .. Len(ring) : ring'[i] = ring[i]
      /\ \A i \in Len(ring) + 1 .. Len(ring') : ~Confirms(ring'[i])
  BY DEF Plain, RingGrows
<1>2. Len(ring') \in Nat BY <1>1
<1>3. \A i \in 1 .. Len(ring') : i \in 1 .. Len(ring) \/ i \in Len(ring) + 1 .. Len(ring')
  BY <1>1, <1>2
<1> QED BY <1>1, <1>3 DEF RingOnce, Confirms

LEMMA RingOnceCon ==
  ASSUME BaseInv, UartTask, ReceiveCon, RingOnce, wait \notin Ringing
  PROVE  RingOnce'
<1>1. /\ Len(ring) \in Nat /\ ring' \in Seq(Entries) /\ Len(ring) <= Len(ring')
      /\ \A i \in 1 .. Len(ring) : ring'[i] = ring[i]
      /\ Len(ring') <= Len(ring) + 1
      /\ Len(ring') = Len(ring) + 1 => ring'[Len(ring) + 1].f = wait
  BY HeardCon DEF Confirming, RingGrows, Entry
<1>2. Len(ring') \in Nat BY <1>1
<1>3. \A i \in 1 .. Len(ring') :
        i \in 1 .. Len(ring) \/ (i = Len(ring) + 1 /\ Len(ring') = Len(ring) + 1)
  BY <1>1, <1>2
<1>4. \A i \in 1 .. Len(ring) : Confirms(ring[i]) => ring[i].f # wait BY DEF Ringing
<1> QED BY <1>1, <1>3, <1>4 DEF RingOnce, Confirms

LEMMA RingOncePopped ==
  ASSUME BaseInv, ProcessRing, RingOnce
  PROVE  RingOnce' /\ (Confirms(ring[1]) => ring[1].f \notin Ringing')
<1>1. /\ Len(ring) \in Nat \ {0} /\ Len(ring') = Len(ring) - 1
      /\ \A i \in 1 .. Len(ring') : ring'[i] = ring[i + 1]
  BY Popped
<1>2. /\ 1 \in 1 .. Len(ring)
      /\ \A i \in 1 .. Len(ring') : i + 1 \in 1 .. Len(ring) /\ i + 1 # 1
      /\ \A i, j \in 1 .. Len(ring') : i + 1 = j + 1 => i = j
  BY <1>1
<1>3. RingOnce'
  <2> SUFFICES ASSUME NEW CONSTANT i \in 1 .. Len(ring'), NEW CONSTANT j \in 1 .. Len(ring'),
                      Confirms(ring'[i]), Confirms(ring'[j]), ring'[i].f = ring'[j].f
               PROVE  i = j
    BY DEF RingOnce, Confirms
  <2>1. i + 1 \in 1 .. Len(ring) /\ ring'[i] = ring[i + 1] BY <1>1, <1>2
  <2>2. j + 1 \in 1 .. Len(ring) /\ ring'[j] = ring[j + 1] BY <1>1, <1>2
  <2>3. i + 1 = j + 1 BY <2>1, <2>2 DEF RingOnce
  <2> QED BY <1>2, <2>3
<1>4. ASSUME Confirms(ring[1]) PROVE ring[1].f \notin Ringing'
  <2>1. ASSUME NEW i \in 1 .. Len(ring'), Confirms(ring'[i]) PROVE ring'[i].f # ring[1].f
    <3>1. ring'[i] = ring[i + 1] /\ i + 1 \in 1 .. Len(ring) /\ i + 1 # 1 BY <1>1, <1>2
    <3> QED BY <1>2, <1>4, <2>1, <3>1 DEF RingOnce
  <2> QED BY <2>1 DEF Ringing, Confirms
<1> QED BY <1>3, <1>4

LEMMA ConfirmedOnce ==
  ASSUME BaseInv, NEW f \in Frame, NEW ok \in BOOLEAN, Confirm(f, ok),
         f \notin Confirmed, AtMostOneCon
  PROVE  AtMostOneCon'
<1>1. /\ confs \in [Frame -> Seq(BOOLEAN)] /\ confs'[f] = Append(confs[f], ok)
      /\ \A g \in Frame : g # f => confs'[g] = confs[g]
  BY ConfirmType DEF BaseInv, AllTypes, HistoryType
<1>2. confs[f] = <<>> BY DEF Confirmed
<1>3. Len(Append(confs[f], ok)) = 1 BY <1>2
<1> QED BY <1>1, <1>3 DEF AtMostOneCon

LEMMA SendOnce ==
  ASSUME BaseInv, OnceInv, NEW f \in Frame, SendFrame(f)
  PROVE  OnceInv'
<1>1. f \notin taken /\ taken' = taken \union {f} /\ UNCHANGED <<frame, tx, dropped, ring>>
  BY DEF SendFrame, receiver
<1>2. /\ Flying' = Flying /\ Frames(dropped') = Frames(dropped) /\ Ringing' = Ringing
      /\ Distinct(dropped') /\ RingOnce'
  BY <1>1 DEF Flying, Ringing, RingOnce, Confirms, OnceInv
<1>3. queue \in Seq(Frame) /\ confs \in [Frame -> Seq(BOOLEAN)] /\ FALSE \in BOOLEAN
  BY DEF BaseInv, AllTypes, TransmitterType, HistoryType
<1>4. f \notin Frames(queue) \union Flying \union Frames(dropped) \union Ringing \union Confirmed
  BY <1>1 DEF OnceInv, Apart
<1>5. CASE queue' = Append(queue, f) /\ confs' = confs
  <2>1. /\ Frames(queue') = Frames(queue) \union {f} /\ Confirmed' = Confirmed
        /\ Distinct(queue') /\ AtMostOneCon'
    BY <1>3, <1>4, <1>5, FramesAppend, DistinctAppend DEF Confirmed, AtMostOneCon, OnceInv
  <2>2. Apart' BY <1>1, <1>2, <1>4, <2>1 DEF OnceInv, Apart
  <2> QED BY <1>2, <2>1, <2>2 DEF OnceInv
<1>6. CASE queue' = queue /\ Confirm(f, FALSE)
  <2>1. /\ Frames(queue') = Frames(queue) /\ Confirmed' = Confirmed \union {f}
        /\ Distinct(queue') /\ AtMostOneCon'
    BY <1>3, <1>4, <1>6, ConfirmedBy, ConfirmedOnce DEF OnceInv
  <2>2. Apart' BY <1>1, <1>2, <1>4, <2>1 DEF OnceInv, Apart
  <2> QED BY <1>2, <2>1, <2>2 DEF OnceInv
<1> QED BY <1>5, <1>6 DEF SendFrame

LEMMA RestOnce ==
  ASSUME BaseInv, OnceInv, Bookkeeping \/ ChipStep \/ TransmitStart \/ TransmitEnd \/ UNCHANGED vars
  PROVE  OnceInv'
<1>1. UNCHANGED <<queue, frame, dropped, ring, taken, confs>>
      /\ (tx' = tx \/ (tx = "transmit" /\ tx' = "await"))
  BY BookkeepingKeeps, ChipSays
     DEF TransmitStart, TransmitEnd, vars, transmitter, receiver, history, BaseInv, AllTypes
<1>2. /\ Flying' = Flying /\ Frames(queue') = Frames(queue) /\ Frames(dropped') = Frames(dropped)
      /\ Ringing' = Ringing /\ Confirmed' = Confirmed /\ RingOnce' = RingOnce
      /\ AtMostOneCon' = AtMostOneCon
  BY <1>1 DEF Flying, Ringing, Confirmed, RingOnce, AtMostOneCon, Confirms
<1> QED BY <1>1, <1>2 DEF OnceInv, Apart

LEMMA DropOnce ==
  ASSUME BaseInv, OnceInv, DropFrame \/ DropQueue \/ ReportDropped
  PROVE  OnceInv'
<1>1. UNCHANGED <<ring, taken>>
  BY DEF DropFrame, DropQueue, ReportDropped, receiver, history
<1>2. Ringing' = Ringing /\ RingOnce' BY <1>1 DEF Ringing, RingOnce, Confirms, OnceInv
<1>3. queue \in Seq(Frame) /\ dropped \in Seq(Frame) /\ Distinct(queue) /\ Distinct(dropped)
      /\ AtMostOneCon
  BY DEF BaseInv, AllTypes, TransmitterType, OnceInv
<1>4. CASE DropFrame
  <2>1. dropped' = dropped \o Unconfirmed /\ frame' = NoFrame /\ UNCHANGED <<queue, confs>>
    BY <1>4 DEF DropFrame, history
  <2>2. Frames(dropped) \intersect Frames(Unconfirmed) = {}
    BY FramesUnconfirmed DEF OnceInv, Apart
  <2>3. Frames(dropped') = Frames(dropped) \union Flying /\ Distinct(dropped')
    BY <1>3, <2>1, <2>2, UnconfirmedIs, FramesConcat, FramesUnconfirmed, DistinctConcat,
       DistinctUnconfirmed
  <2>4. /\ Flying' = {} /\ Frames(queue') = Frames(queue) /\ Confirmed' = Confirmed
        /\ Distinct(queue') /\ AtMostOneCon'
    BY <1>3, <2>1 DEF Flying, Confirmed, AtMostOneCon
  <2>5. Apart' BY <1>1, <1>2, <2>3, <2>4 DEF OnceInv, Apart
  <2> QED BY <1>2, <2>3, <2>4, <2>5 DEF OnceInv
<1>5. CASE DropQueue
  <2>1. /\ dropped' = dropped \o queue /\ queue' = <<>> /\ tx' = "idle" /\ UNCHANGED confs
    BY <1>5 DEF DropQueue, history
  <2>2. Frames(dropped) \intersect Frames(queue) = {} BY DEF OnceInv, Apart
  <2>3. Frames(dropped') = Frames(dropped) \union Frames(queue) /\ Distinct(dropped')
    BY <1>3, <2>1, <2>2, FramesConcat, DistinctConcat
  <2>4. /\ Flying' = {} /\ Frames(queue') = {} /\ Confirmed' = Confirmed
        /\ Distinct(queue') /\ AtMostOneCon'
    BY <1>3, <2>1 DEF Flying, Confirmed, Frames, Distinct, AtMostOneCon
  <2>5. Apart' BY <1>1, <1>2, <2>3, <2>4 DEF OnceInv, Apart
  <2> QED BY <1>2, <2>3, <2>4, <2>5 DEF OnceInv
<1>6. CASE ReportDropped
  <2>1. UNCHANGED <<queue, frame, tx>> BY <1>6 DEF ReportDropped
  <2>2. Flying' = Flying /\ Frames(queue') = Frames(queue) /\ Distinct(queue')
    BY <1>3, <2>1 DEF Flying
  <2>3. CASE dropped = <<>>
    <3>1. UNCHANGED <<dropped, confs>> BY <1>6, <2>3 DEF ReportDropped
    <3>2. /\ Frames(dropped') = Frames(dropped) /\ Confirmed' = Confirmed
          /\ Distinct(dropped') /\ AtMostOneCon'
      BY <1>3, <3>1 DEF Confirmed, AtMostOneCon
    <3>3. Apart' BY <1>1, <1>2, <2>2, <3>2 DEF OnceInv, Apart
    <3> QED BY <1>2, <2>2, <3>2, <3>3 DEF OnceInv
  <2>4. CASE dropped # <<>>
    <3> DEFINE f == Head(dropped)
    <3>1. dropped' = Tail(dropped) /\ Confirm(f, FALSE)
      BY <1>6, <2>4 DEF ReportDropped
    <3>2. /\ f \in Frame /\ Frames(dropped) = Frames(dropped') \union {f}
          /\ Distinct(dropped') /\ f \notin Frames(dropped')
      BY <1>3, <2>4, <3>1, FramesOf, DistinctTail
    <3> HIDE DEF f
    <3>3. f \notin Confirmed BY <3>2 DEF OnceInv, Apart
    <3>4. Confirmed' = Confirmed \union {f} /\ AtMostOneCon'
      BY <1>3, <3>1, <3>2, <3>3, ConfirmedBy, ConfirmedOnce, FALSE \in BOOLEAN
         DEF BaseInv, AllTypes, HistoryType
    <3>5. Apart' BY <1>1, <1>2, <2>2, <3>2, <3>3, <3>4 DEF OnceInv, Apart
    <3> QED BY <1>2, <2>2, <3>2, <3>4, <3>5 DEF OnceInv
  <2> QED BY <2>3, <2>4
<1> QED BY <1>4, <1>5, <1>6

LEMMA QueueOnce == ASSUME BaseInv, OnceInv, ProcessQueue PROVE OnceInv'
<1>1. UNCHANGED <<ring, taken, dropped, confs>>
  BY DEF ProcessQueue, receiver, history
<1>2. /\ Ringing' = Ringing /\ Frames(dropped') = Frames(dropped) /\ Confirmed' = Confirmed
      /\ Distinct(dropped') /\ RingOnce' /\ AtMostOneCon'
  BY <1>1 DEF Ringing, Confirms, Confirmed, RingOnce, AtMostOneCon, OnceInv
<1>3. CASE MaySend
  <2>1. /\ frame' = Head(queue) /\ queue' = Tail(queue) /\ tx' = "transmit"
        /\ tx = "idle" /\ queue # <<>>
    BY <1>3 DEF ProcessQueue, MaySend
  <2>2. queue \in Seq(Frame) /\ Distinct(queue) BY DEF BaseInv, AllTypes, TransmitterType, OnceInv
  <2>3. /\ Head(queue) \in Frame /\ Frames(queue) = Frames(queue') \union {Head(queue)}
        /\ Distinct(queue') /\ Head(queue) \notin Frames(queue')
    BY <2>1, <2>2, FramesOf, DistinctTail
  <2>4. Flying' = {Head(queue)} BY <2>1, <2>3 DEF Flying
  <2>5. Apart' BY <1>1, <1>2, <2>3, <2>4 DEF OnceInv, Apart
  <2> QED BY <1>2, <2>3, <2>5 DEF OnceInv
<1>4. CASE ~MaySend
  <2>1. UNCHANGED <<queue, frame, tx>> BY <1>4 DEF ProcessQueue
  <2>2. Flying' = Flying /\ Frames(queue') = Frames(queue) BY <2>1 DEF Flying
  <2> QED BY <1>1, <1>2, <2>1, <2>2 DEF OnceInv, Apart
<1> QED BY <1>3, <1>4

LEMMA PopOnce == ASSUME BaseInv, OnceInv, ProcessRing PROVE OnceInv'
<1>1. UNCHANGED <<queue, frame, tx, dropped, taken>>
  BY DEF ProcessRing, transmitter
<1>2. /\ Flying' = Flying /\ Frames(queue') = Frames(queue) /\ Frames(dropped') = Frames(dropped)
      /\ Distinct(queue') /\ Distinct(dropped')
  BY <1>1 DEF Flying, OnceInv
<1>3. RingOnce' /\ (Confirms(ring[1]) => ring[1].f \notin Ringing')
  BY RingOncePopped DEF OnceInv
<1>4. \/ ~Confirms(ring[1]) /\ Ringing = Ringing' /\ Confirmed' = Confirmed
      \/ /\ Confirms(ring[1]) /\ ring[1].f \in Frame
         /\ Ringing = Ringing' \union {ring[1].f}
         /\ Confirmed' = Confirmed \union {ring[1].f}
  BY RingingPopped
<1>5. Apart' BY <1>1, <1>2, <1>3, <1>4 DEF OnceInv, Apart
<1>6. AtMostOneCon'
  <2>1. /\ ring[1] \in Entries
        /\ IF Confirms(ring[1]) THEN Confirm(ring[1].f, ring[1].ok) ELSE confs' = confs
    BY Popped
  <2>2. CASE Confirms(ring[1])
    <3>1. ring[1].f \in Frame /\ ring[1].f \notin Confirmed
      BY <1>4, <2>2 DEF OnceInv, Apart
    <3>2. ring[1].ok \in BOOLEAN BY <2>1 DEF Entries
    <3> QED BY <2>1, <2>2, <3>1, <3>2, ConfirmedOnce DEF OnceInv
  <2>3. CASE ~Confirms(ring[1]) BY <2>1, <2>3 DEF OnceInv, AtMostOneCon
  <2> QED BY <2>2, <2>3
<1> QED BY <1>2, <1>3, <1>5, <1>6 DEF OnceInv

LEMMA ResetOnce == ASSUME BaseInv, OnceInv, ResetLocked PROVE OnceInv'
<1>1. /\ dropped' = dropped \o Unconfirmed \o queue /\ queue' = <<>> /\ tx' = "idle"
      /\ ring' = <<>> /\ UNCHANGED <<taken, confs>>
  BY DEF ResetLocked
<1>2. /\ queue \in Seq(Frame) /\ dropped \in Seq(Frame) /\ Unconfirmed \in Seq(Frame)
      /\ Distinct(queue) /\ Distinct(dropped) /\ Distinct(Unconfirmed)
  BY UnconfirmedIs, DistinctUnconfirmed DEF BaseInv, AllTypes, TransmitterType, OnceInv
<1>3. /\ Frames(dropped) \intersect Frames(Unconfirmed) = {}
      /\ (Frames(dropped) \union Flying) \intersect Frames(queue) = {}
  BY FramesUnconfirmed DEF OnceInv, Apart
<1>4. /\ Frames(dropped') = Frames(dropped) \union Flying \union Frames(queue)
      /\ Distinct(dropped')
  <2>1. /\ dropped \o Unconfirmed \in Seq(Frame)
        /\ Frames(dropped \o Unconfirmed) = Frames(dropped) \union Flying
        /\ Distinct(dropped \o Unconfirmed)
    BY <1>2, <1>3, FramesConcat, FramesUnconfirmed, DistinctConcat
  <2> QED BY <1>1, <1>2, <1>3, <2>1, FramesConcat, DistinctConcat
<1>5. /\ Frames(queue') = {} /\ Flying' = {} /\ Confirmed' = Confirmed /\ Ringing' = {}
      /\ Distinct(queue') /\ RingOnce' /\ AtMostOneCon'
  BY <1>1 DEF Frames, Flying, Confirmed, Ringing, Distinct, RingOnce, AtMostOneCon, OnceInv
<1>6. Apart' BY <1>1, <1>4, <1>5 DEF OnceInv, Apart
<1> QED BY <1>4, <1>5, <1>6 DEF OnceInv

(* The echo that is held is that of the frame in flight, so the frame      *)
(* leaves the flight when its confirmation enters the ring.                *)
LEMMA HearOnce ==
  ASSUME BaseInv, ChipInv, downs = 0, OnceInv, UartTask
  PROVE  OnceInv'
<1>1. UNCHANGED <<queue, frame, dropped, taken, confs>> /\ pc # "clear" BY HearKeeps
<1>2. /\ Frames(queue') = Frames(queue) /\ Frames(dropped') = Frames(dropped) /\ Confirmed' = Confirmed
      /\ Distinct(queue') /\ Distinct(dropped') /\ AtMostOneCon'
  BY <1>1 DEF Confirmed, AtMostOneCon, OnceInv
<1>3. CASE ReceiveCon
  <2>1. wait # NoFrame /\ tx' = IF tx = "await" THEN "idle" ELSE tx BY <1>3 DEF ReceiveCon
  <2>2. tx = "await" /\ frame = wait BY <2>1 DEF ChipInv, ResetInv, FlightInv
  <2>3. Flying = {wait} /\ Flying' = {} BY <1>1, <2>1, <2>2 DEF Flying
  <2>4. Ringing' \in {Ringing, Ringing \union {wait}} BY <1>3, RingingCon
  <2>5. wait \notin Ringing BY <2>3 DEF OnceInv, Apart
  <2>6. RingOnce' BY <1>3, <2>5, RingOnceCon DEF OnceInv
  <2>7. Apart' BY <1>1, <1>2, <2>3, <2>4 DEF OnceInv, Apart
  <2> QED BY <1>2, <2>6, <2>7 DEF OnceInv
<1>4. CASE ~ReceiveCon
  <2>1. Plain BY <1>4, Heard
  <2>2. Ringing' = Ringing /\ RingOnce' BY <2>1, RingingPlain, RingOncePlain DEF OnceInv
  <2>3. tx' \in {tx, "idle"} BY HearKeeps
  <2>4. Flying' \subseteq Flying BY <1>1, <2>3 DEF Flying
  <2>5. Apart' BY <1>1, <1>2, <2>2, <2>4 DEF OnceInv, Apart
  <2> QED BY <1>2, <2>2, <2>5 DEF OnceInv
<1> QED BY <1>3, <1>4

LEMMA OnceNext ==
  BaseInv /\ ChipInv /\ (downs = 0 => OnceInv) /\ [Next]_vars => (downs' = 0 => OnceInv')
<1> SUFFICES ASSUME BaseInv, ChipInv, downs = 0 => OnceInv, [Next]_vars, downs' = 0
             PROVE  OnceInv'
  OBVIOUS
<1>1. downs = 0
  <2>1. downs \in Nat /\ downs' \in {downs, downs + 1}
    <3>1. downs \in Nat BY DEF BaseInv, AllTypes, BoundType
    <3>2. ChipStep => downs' \in {downs, downs + 1}
      BY DEF ChipStep, ChipEchoes, ChipConfirms, ChipState, LineFrame, ChipRestarts, ChipDown,
         ChipUp, Noise, bounds
    <3>3. ~ChipStep => downs' = downs
      BY Steps, BookkeepingKeeps DEF SendFrame, DropFrame, DropQueue, ReportDropped, ProcessQueue,
         TransmitStart, TransmitEnd, ProcessRing, ResetLocked, UartTask, vars, bounds, BaseInv, AllTypes
    <3> QED BY <3>1, <3>2, <3>3
  <2> QED BY <2>1
<1> QED BY <1>1, Steps, SendOnce, RestOnce, DropOnce, QueueOnce, PopOnce, ResetOnce, HearOnce

LEMMA OnceInit == Init => OnceInv
<1> SUFFICES ASSUME Init PROVE OnceInv OBVIOUS
<1>1. queue = <<>> /\ dropped = <<>> /\ ring = <<>> /\ frame = NoFrame /\ tx = "idle"
      /\ taken = {} /\ confs = [f \in Frame |-> <<>>]
  BY DEF Init
<1>2. /\ Frames(queue) = {} /\ Frames(dropped) = {} /\ Ringing = {} /\ Flying = {} /\ Confirmed = {}
      /\ Distinct(queue) /\ Distinct(dropped) /\ RingOnce
  BY <1>1 DEF Frames, Ringing, Flying, Confirmed, Distinct, RingOnce
<1>3. AtMostOneCon
  <2>1. \A f \in Frame : confs[f] = <<>> BY <1>1
  <2>2. Len(<<>>) <= 1 OBVIOUS
  <2> QED BY <2>1, <2>2 DEF AtMostOneCon
<1> QED BY <1>1, <1>2, <1>3 DEF OnceInv, Apart

(* While the chip does not restart by itself, no frame is confirmed twice. *)
THEOREM ConOnceWithoutRestart == Spec => []OneConWithoutRestart
<1> DEFINE Inv == BaseInv /\ ChipInv /\ (downs = 0 => OnceInv)
<1>1. Inv /\ [Next]_vars => Inv' BY BaseNext, ChipNext, OnceNext
<1>2. Init => Inv BY BaseInit, ChipInit, OnceInit
<1>3. Inv => OneConWithoutRestart BY DEF OneConWithoutRestart, OnceInv
<1> QED BY <1>1, <1>2, <1>3, PTL DEF Spec

-----------------------------------------------------------------------------
(* No confirmation is lost on an undisturbed line but to a full ring.      *)

Keeps(t) == t.kind \in {"echo", "state"}

(* When the first n tokens are received, an echo is held.                  *)
EchoHeld(n) ==
  \/ wait # NoFrame /\ \A i \in 1 .. n : Keeps(uart[i])
  \/ \E j \in 1 .. n : uart[j].kind = "echo" /\ \A i \in j .. n : Keeps(uart[i])

ConsHeld == \A i \in 1 .. Len(uart) : uart[i].kind = "con" => EchoHeld(i - 1)
NoNoise == \A i \in 1 .. Len(uart) : uart[i].kind # "noise"

(* The host never resets the chip, and a frame in flight is with the chip  *)
(* until its confirmation comes, after its echo.                           *)
CalmInv ==
  /\ connected /\ ~invalid /\ ~resetPending /\ NoNoise
  /\ pc \notin {"resetRing", "resetLock"}
  /\ tx = "transmit" /\ begun => loading = frame
  /\ tx = "await" => sending = frame \/ ~NoCon
  /\ ConsHeld
  /\ echoed => EchoHeld(Len(uart))

Undisturbed == downs = 0 /\ noises = 0

LEMMA HeldSaid ==
  ASSUME UartType, NEW t \in Tokens, Says(t), wait' = wait
  PROVE  /\ ConsHeld /\ (t.kind = "con" => EchoHeld(Len(uart))) => ConsHeld'
         /\ t.kind = "echo" \/ (t.kind = "state" /\ EchoHeld(Len(uart))) => EchoHeld(Len(uart))'
         /\ NoNoise /\ t.kind # "noise" => NoNoise'
<1> HIDE DEF Tokens
<1>1. /\ Len(uart) \in Nat /\ Len(uart') = Len(uart) + 1 /\ uart'[Len(uart) + 1] = t
      /\ \A i \in 1 .. Len(uart) : uart'[i] = uart[i]
  BY SaysIs
<1>2. ASSUME NEW n \in 0 .. Len(uart), EchoHeld(n) PROVE EchoHeld(n)'
  <2>1. /\ \A i \in 1 .. n : uart'[i] = uart[i]
        /\ \A j \in 1 .. n : \A i \in j .. n : uart'[i] = uart[i]
    BY <1>1
  <2> QED BY <1>2, <2>1 DEF EchoHeld, Keeps
<1>3. \A i \in 1 .. Len(uart') : (i \in 1 .. Len(uart) \/ i = Len(uart) + 1) /\ i - 1 \in 0 .. Len(uart)
  BY <1>1
<1>4. ConsHeld /\ (t.kind = "con" => EchoHeld(Len(uart))) => ConsHeld'
  <2> SUFFICES ASSUME ConsHeld, t.kind = "con" => EchoHeld(Len(uart)),
                      NEW CONSTANT i \in 1 .. Len(uart'), uart'[i].kind = "con"
               PROVE  EchoHeld(i - 1)'
    BY DEF ConsHeld
  <2>1. EchoHeld(i - 1)
    <3>1. CASE i \in 1 .. Len(uart) BY <1>1, <3>1 DEF ConsHeld
    <3>2. CASE i = Len(uart) + 1
      <4>1. i - 1 = Len(uart) /\ EchoHeld(Len(uart)) BY <1>1, <3>2
      <4> QED BY <4>1
    <3> QED BY <1>3, <3>1, <3>2
  <2> QED BY <1>2, <1>3, <2>1
<1>5. ASSUME t.kind = "echo" \/ (t.kind = "state" /\ EchoHeld(Len(uart)))
      PROVE  EchoHeld(Len(uart))'
  <2> DEFINE n == Len(uart)
  <2>1. n \in Nat /\ Len(uart') = n + 1 /\ uart'[n + 1] = t /\ \A i \in 1 .. n : uart'[i] = uart[i]
    BY <1>1
  <2> HIDE DEF n
  <2>2. Keeps(uart'[n + 1]) BY <1>5, <2>1 DEF Keeps
  <2>3. CASE t.kind = "echo"
    <3>1. n + 1 \in 1 .. n + 1 /\ \A i \in n + 1 .. n + 1 : i = n + 1 BY <2>1
    <3> QED BY <2>1, <2>2, <2>3, <3>1 DEF EchoHeld
  <2>4. CASE EchoHeld(n)
    <3>1. \A i \in 1 .. n + 1 : i \in 1 .. n \/ i = n + 1 BY <2>1
    <3>2. \A j \in 1 .. n :
            j \in 1 .. n + 1 /\ \A i \in j .. n + 1 : (i \in j .. n /\ i \in 1 .. n) \/ i = n + 1
      BY <2>1
    <3>3. CASE wait # NoFrame /\ \A i \in 1 .. n : Keeps(uart[i])
      <4>1. \A i \in 1 .. n + 1 : Keeps(uart'[i]) BY <2>1, <2>2, <3>1, <3>3
      <4> QED BY <2>1, <3>3, <4>1 DEF EchoHeld
    <3>4. CASE \E j \in 1 .. n : uart[j].kind = "echo" /\ \A i \in j .. n : Keeps(uart[i])
      <4>1. PICK j \in 1 .. n : uart[j].kind = "echo" /\ \A i \in j .. n : Keeps(uart[i])
        BY <3>4
      <4>2. uart'[j].kind = "echo" /\ \A i \in j .. n + 1 : Keeps(uart'[i])
        BY <2>1, <2>2, <3>2, <4>1
      <4>3. j \in 1 .. n + 1 BY <3>2
      <4> QED BY <2>1, <4>2, <4>3 DEF EchoHeld
    <3> QED BY <2>4, <3>3, <3>4 DEF EchoHeld
  <2> QED BY <1>5, <2>3, <2>4 DEF n
<1>6. NoNoise /\ t.kind # "noise" => NoNoise' BY <1>1, <1>3 DEF NoNoise
<1> QED BY <1>4, <1>5, <1>6

(* The next token is received: an echo held is held on.                    *)
LEMMA HeldHeard ==
  ASSUME UartType, UartTask, NEW n \in 1 .. Len(uart), EchoHeld(n),
         uart[1].kind = "state" => wait' = wait,
         uart[1].kind = "echo" => wait' # NoFrame
  PROVE  EchoHeld(n - 1)'
<1>1. /\ Len(uart) \in Nat \ {0} /\ Len(uart') = Len(uart) - 1
      /\ \A i \in 1 .. Len(uart') : uart'[i] = uart[i + 1]
  BY HearsIs
<1>2. /\ \A i \in 1 .. n - 1 : uart'[i] = uart[i + 1] /\ i + 1 \in 1 .. n
      /\ 1 \in 1 .. n
  BY <1>1
<1>3. ASSUME \A i \in 1 .. n : Keeps(uart[i]), wait # NoFrame \/ uart[1].kind = "echo"
      PROVE  EchoHeld(n - 1)'
  <2>1. Keeps(uart[1]) BY <1>2, <1>3
  <2>2. wait' # NoFrame BY <1>3, <2>1 DEF Keeps
  <2>3. \A i \in 1 .. n - 1 : Keeps(uart'[i]) BY <1>2, <1>3
  <2> QED BY <2>2, <2>3 DEF EchoHeld
<1>4. ASSUME NEW j \in 2 .. n, uart[j].kind = "echo", \A i \in j .. n : Keeps(uart[i])
      PROVE  EchoHeld(n - 1)'
  <2>1. /\ j - 1 \in 1 .. n - 1 /\ (j - 1) + 1 = j
        /\ \A i \in j - 1 .. n - 1 : i + 1 \in j .. n /\ i \in 1 .. n - 1
    BY <1>1
  <2>2. uart'[j - 1].kind = "echo" /\ \A i \in j - 1 .. n - 1 : Keeps(uart'[i])
    BY <1>2, <1>4, <2>1
  <2> QED BY <2>1, <2>2 DEF EchoHeld
<1>5. \A j \in 1 .. n : j = 1 \/ j \in 2 .. n BY <1>1
<1> QED BY <1>3, <1>4, <1>5 DEF EchoHeld

LEMMA HearCalm ==
  ASSUME BaseInv, ResetInv, FlightInv, CalmInv, UartTask
  PROVE  CalmInv' /\ ~ReceiveOrphanCon
<1> HIDE DEF NoCon, ConsHeld, NoNoise
<1>1. /\ UNCHANGED <<pc, frame, begun, resetPending, connected, loading, sending, echoed>>
      /\ tx' \in {tx, "idle"} /\ pc # "clear"
  BY HearKeeps DEF main, chip
<1>2. /\ Len(uart) \in Nat \ {0} /\ Len(uart') = Len(uart) - 1
      /\ Head(uart) = uart[1] /\ uart[1] \in Tokens
      /\ \A i \in 1 .. Len(uart') : uart'[i] = uart[i + 1]
  BY HearsIs DEF BaseInv, AllTypes
<1>3. /\ 1 \in 1 .. Len(uart)
      /\ \A i \in 1 .. Len(uart') : i + 1 \in 1 .. Len(uart) /\ i \in 1 .. Len(uart)
  BY <1>2
<1>4. uart[1].kind = "con" => wait # NoFrame
  <2>1. \A i \in 1 .. 0 : FALSE OBVIOUS
  <2> QED BY <1>3, <2>1 DEF CalmInv, ConsHeld, EchoHeld
<1>5. ~ReceiveOrphanCon BY <1>2, <1>4 DEF ReceiveOrphanCon
<1>6. uart[1].kind = "echo" => tx = "await" /\ uart[1].f = frame /\ frame \in Frame
  <2> SUFFICES ASSUME uart[1].kind = "echo" PROVE tx = "await" /\ uart[1].f = frame /\ frame \in Frame
    OBVIOUS
  <2>1. Answers(uart[1]) BY DEF Answers
  <2>2. tx = "await" /\ uart[1].f = frame
    BY <1>3, <2>1 DEF CalmInv, FlightInv, NoAnswer, AnswersAreOf
  <2> QED BY <1>1, <2>2 DEF BaseInv, LiveInv
<1>7. /\ uart[1].kind = "state" => wait' = wait
      /\ uart[1].kind = "echo" => wait' # NoFrame
      /\ uart[1].kind = "con" /\ tx = "await" => tx' = "idle"
      /\ uart[1].kind # "con" => tx' = tx
      /\ invalid' => invalid
  <2>1. invalid \in BOOLEAN BY DEF BaseInv, AllTypes, ReceiverType
  <2>2. uart[1].kind # "noise" BY <1>3 DEF CalmInv, NoNoise
  <2>3. uart[1].kind = "echo" => IsOwnEcho(uart[1])
    BY <1>6 DEF IsOwnEcho
  <2>4. CASE ReceiveState BY <1>2, <2>4 DEF ReceiveState
  <2>5. CASE ReceiveCon BY <1>2, <2>1, <2>5 DEF ReceiveCon, InStepAgain
  <2>6. CASE ReceiveOwnEcho
    BY <1>2, <1>6, <2>6 DEF ReceiveOwnEcho, IsOwnEcho
  <2>7. CASE ReceiveFrame BY <1>2, <2>1, <2>3, <2>7 DEF ReceiveFrame, InStepAgain
  <2>8. CASE ReceiveControl
    <3>1. uart[1].kind = "reset" /\ tx' = tx BY <1>2, <2>2, <2>8 DEF ReceiveControl
    <3>2. invalid' = (invalid \/ uart[1].kind = "noise") BY <1>2, <2>8 DEF ReceiveControl
    <3> QED BY <2>1, <3>1, <3>2
  <2> QED BY <1>5, <2>4, <2>5, <2>6, <2>7, <2>8 DEF UartTask
<1>8. \A n \in 1 .. Len(uart) : EchoHeld(n) => EchoHeld(n - 1)'
  BY <1>7, HeldHeard DEF BaseInv, AllTypes
<1>9. ConsHeld'
  <2> SUFFICES ASSUME NEW CONSTANT i \in 1 .. Len(uart'), uart'[i].kind = "con"
               PROVE  EchoHeld(i - 1)'
    BY DEF ConsHeld
  <2>1. EchoHeld((i + 1) - 1) BY <1>2, <1>3 DEF CalmInv, ConsHeld
  <2>2. (i + 1) - 1 = i BY <1>2
  <2> QED BY <1>3, <1>8, <2>1, <2>2
<1>10. echoed' => EchoHeld(Len(uart))'
  <2> SUFFICES ASSUME echoed', NEW CONSTANT n, n = Len(uart) PROVE EchoHeld(Len(uart))'
    OBVIOUS
  <2>1. EchoHeld(n) /\ n \in 1 .. Len(uart) BY <1>1, <1>2 DEF CalmInv
  <2>2. EchoHeld(n - 1)' BY <1>8, <2>1
  <2>3. Len(uart') = n - 1 BY <1>2
  <2> QED BY <2>2, <2>3 DEF EchoHeld
<1>11. NoNoise' BY <1>2, <1>3 DEF CalmInv, NoNoise
<1>12. tx' = "await" => sending' = frame' \/ ~NoCon'
  <2> SUFFICES ASSUME tx' = "await" PROVE sending' = frame' \/ ~NoCon'
    OBVIOUS
  <2>1. tx = "await" /\ uart[1].kind # "con" BY <1>1, <1>7
  <2>2. CASE sending = frame BY <1>1, <2>2
  <2>3. CASE ~NoCon
    <3>1. PICK i \in 1 .. Len(uart) : uart[i].kind = "con" BY <2>3 DEF NoCon
    <3>2. i # 1 BY <2>1, <3>1
    <3>3. i - 1 \in 1 .. Len(uart') /\ (i - 1) + 1 = i BY <1>2, <3>2
    <3>4. uart'[i - 1].kind = "con" BY <1>2, <3>1, <3>3
    <3> QED BY <3>3, <3>4 DEF NoCon
  <2> QED BY <2>1, <2>2, <2>3 DEF CalmInv
<1>13. tx' = "transmit" /\ begun' => loading' = frame' BY <1>1 DEF CalmInv
<1> QED BY <1>1, <1>5, <1>7, <1>9, <1>10, <1>11, <1>12, <1>13 DEF CalmInv

LEMMA ChipCalm ==
  ASSUME BaseInv, ResetInv, FlightInv, CalmInv, ChipStep, Undisturbed'
  PROVE  CalmInv'
<1> HIDE DEF NoCon, ConsHeld, NoNoise
<1>1. /\ UNCHANGED <<pc, frame, tx, begun, wait, invalid, resetPending, connected>>
      /\ downs \in Nat /\ noises \in Nat
  BY ChipSays DEF main, transmitter, receiver, link, BaseInv, AllTypes, BoundType
<1>2. ~ChipDown /\ ~Noise /\ ~ChipUp /\ ~ChipRestarts
  <2>1. ~ChipDown /\ ~Noise BY <1>1 DEF ChipDown, Noise, Undisturbed
  <2>2. ~ChipUp /\ ~ChipRestarts BY DEF ChipUp, ChipRestarts, ResetInv, CalmInv
  <2> QED BY <2>1, <2>2
<1>3. \A t \in Tokens : Says(t) =>
        /\ ConsHeld /\ (t.kind = "con" => EchoHeld(Len(uart))) => ConsHeld'
        /\ t.kind = "echo" \/ (t.kind = "state" /\ EchoHeld(Len(uart))) => EchoHeld(Len(uart))'
        /\ NoNoise /\ t.kind # "noise" => NoNoise'
        /\ NoCon' <=> NoCon /\ t.kind # "con"
  BY <1>1, HeldSaid, SaysMore DEF BaseInv, AllTypes
<1>4. sending \in FrameOrNone BY DEF BaseInv, AllTypes, ChipType
<1>5. \A k \in {"state", "frame"} : Token(k) \in Tokens /\ Token(k).kind = k
  BY DEF Token, Tokens
<1>6. \A f \in Frame, ok \in BOOLEAN :
        /\ Echo(f) \in Tokens /\ Echo(f).kind = "echo"
        /\ Con(f, ok) \in Tokens /\ Con(f, ok).kind = "con"
  BY DEF Echo, Con, Tokens
<1> HIDE DEF Tokens, EchoHeld
<1>7. ASSUME NEW again \in BOOLEAN, ChipEchoes(again) PROVE CalmInv'
  <2>1. sending \in Frame /\ Says(Echo(sending)) /\ UNCHANGED <<loading, sending>>
    BY <1>4, <1>7 DEF ChipEchoes, FrameOrNone
  <2>2. PICK t \in Tokens : Says(t) /\ t.kind = "echo" BY <1>6, <2>1, FALSE \in BOOLEAN
  <2>3. ConsHeld' /\ EchoHeld(Len(uart))' /\ NoNoise' /\ (NoCon' <=> NoCon)
    BY <1>3, <2>2 DEF CalmInv
  <2> QED BY <1>1, <2>1, <2>3 DEF CalmInv
<1>8. ASSUME NEW ok \in BOOLEAN, ChipConfirms(ok) PROVE CalmInv'
  <2>1. sending \in Frame /\ Says(Con(sending, ok)) /\ loading' = loading /\ echoed /\ ~echoed'
    BY <1>4, <1>8 DEF ChipConfirms, FrameOrNone
  <2>2. PICK t \in Tokens : Says(t) /\ t.kind = "con" BY <1>6, <2>1
  <2>3. ConsHeld' /\ NoNoise' /\ ~NoCon'
    BY <1>3, <2>1, <2>2 DEF CalmInv
  <2> QED BY <1>1, <2>1, <2>3 DEF CalmInv
<1>9. CASE ChipState
  <2>1. Says(Token("state")) /\ UNCHANGED <<loading, sending, echoed>>
    BY <1>9 DEF ChipState, chip
  <2>2. ConsHeld' /\ NoNoise' /\ (NoCon' <=> NoCon) /\ (EchoHeld(Len(uart)) => EchoHeld(Len(uart))')
    BY <1>3, <1>5, <2>1 DEF CalmInv
  <2> QED BY <1>1, <2>1, <2>2 DEF CalmInv
<1>10. CASE LineFrame
  <2>1. Says(Token("frame")) /\ UNCHANGED <<loading, sending, echoed>> /\ ~echoed
    BY <1>10 DEF LineFrame, chip
  <2>2. ConsHeld' /\ NoNoise' /\ (NoCon' <=> NoCon)
    BY <1>3, <1>5, <2>1 DEF CalmInv
  <2> QED BY <1>1, <2>1, <2>2 DEF CalmInv
<1> QED BY <1>2, <1>7, <1>8, <1>9, <1>10 DEF ChipStep

LEMMA MainCalm ==
  ASSUME BaseInv, ResetInv, FlightInv, CalmInv,
         \/ \E f \in Frame : SendFrame(f)
         \/ Bookkeeping \/ DropFrame \/ DropQueue \/ ReportDropped \/ ProcessQueue
         \/ TransmitStart \/ TransmitEnd \/ ProcessRing \/ UNCHANGED vars
  PROVE  CalmInv'
<1> HIDE DEF NoCon, ConsHeld, NoNoise, EchoHeld
<1>1. UNCHANGED <<uart, wait, invalid>>
  <2> USE DEF receiver
  <2>1. CASE Bookkeeping BY <2>1, BookkeepingKeeps DEF BaseInv, AllTypes
  <2>2. CASE \E f \in Frame : SendFrame(f) BY <2>2 DEF SendFrame
  <2>3. CASE DropFrame \/ DropQueue \/ ReportDropped
    BY <2>3 DEF DropFrame, DropQueue, ReportDropped
  <2>4. CASE ProcessQueue \/ TransmitStart BY <2>4 DEF ProcessQueue, TransmitStart
  <2>5. CASE TransmitEnd \/ ProcessRing BY <2>5 DEF TransmitEnd, ProcessRing
  <2>6. CASE UNCHANGED vars BY <2>6 DEF vars
  <2> QED BY <2>1, <2>2, <2>3, <2>4, <2>5, <2>6
<1>2. /\ NoCon' = NoCon /\ ConsHeld' = ConsHeld /\ NoNoise' = NoNoise
      /\ EchoHeld(Len(uart))' = EchoHeld(Len(uart))
  BY <1>1 DEF NoCon, ConsHeld, NoNoise, EchoHeld
<1>3. CASE Bookkeeping
  <2>1. UNCHANGED <<loading, sending, echoed, frame, tx, begun>>
    BY <1>3, BookkeepingKeeps DEF transmitter, chip, BaseInv, AllTypes
  <2>2. ~TransmitterWatchdog
    <3> SUFFICES ASSUME TransmitterWatchdog PROVE FALSE OBVIOUS
    <3>1. DOMAIN uart = 1 .. Len(uart)
      BY LenProperties DEF BaseInv, AllTypes, UartType
    <3>2. tx = "await" /\ sending = NoFrame /\ NoCon /\ pc = "watch"
      BY <3>1 DEF TransmitterWatchdog, NoneToCome, NoCon
    <3>3. frame \in Frame BY <3>2 DEF BaseInv, LiveInv
    <3> QED BY <3>2, <3>3 DEF CalmInv
  <2>3. ~DesyncWatchdog /\ ~BcuRecovery /\ ~Disconnect /\ ~ResetRingDone
    BY DEF DesyncWatchdog, BcuRecovery, Disconnect, ResetRingDone, CalmInv, ResetInv
  <2>4. pc' \notin {"resetRing", "resetLock"} /\ connected' /\ ~resetPending'
    <3>1. CASE BeginPass BY <3>1 DEF BeginPass, CalmInv
    <3>2. CASE HandleReset
      <4>1. CASE uReset BY <3>2, <4>1 DEF HandleReset, CalmInv
      <4>2. CASE ~uReset BY <3>2, <4>2 DEF HandleReset, link, CalmInv
      <4> QED BY <4>1, <4>2
    <3>3. CASE ResetPendingTimeout BY <3>3 DEF ResetPendingTimeout, CalmInv
    <3>4. CASE EndTransmit \/ RingDone \/ EndPass
      <4>1. pc' \in {"ring", "watch", "idle"} /\ UNCHANGED link
        BY <3>4 DEF EndTransmit, RingDone, EndPass
      <4> QED BY <4>1 DEF link, CalmInv
    <3> QED BY <1>3, <2>2, <2>3, <3>1, <3>2, <3>3, <3>4 DEF Bookkeeping, StartOfReset
  <2> QED BY <1>1, <1>2, <2>1, <2>4 DEF CalmInv
<1>4. CASE (\E f \in Frame : SendFrame(f)) \/ ProcessRing \/ UNCHANGED vars
  <2>1. UNCHANGED <<pc, loading, sending, echoed, frame, tx, begun, link>>
    BY <1>4 DEF SendFrame, ProcessRing, vars, main, transmitter, chip
  <2> QED BY <1>1, <1>2, <2>1 DEF CalmInv, link
<1>5. CASE DropFrame \/ DropQueue
  <2>1. /\ pc \in {"drop", "clear"} /\ tx' \in {tx, "idle"} /\ pc' \in {"clear", "report"}
        /\ UNCHANGED <<loading, sending, echoed, link>>
    BY <1>5 DEF DropFrame, DropQueue, chip
  <2>2. tx = "idle" BY <2>1 DEF ResetInv
  <2> QED BY <1>1, <1>2, <2>1, <2>2 DEF CalmInv, link
<1>6. CASE ReportDropped
  <2>1. /\ pc' \in {"report", "idle", "queue"}
        /\ UNCHANGED <<loading, sending, echoed, frame, tx, begun, link>>
    BY <1>6 DEF ReportDropped, chip, BaseInv, AllTypes, MainType
  <2> QED BY <1>1, <1>2, <2>1 DEF CalmInv, link
<1>7. CASE ProcessQueue
  <2>1. /\ pc' = "transmit" /\ UNCHANGED <<loading, sending, echoed, link>>
        /\ \/ tx' = "transmit" /\ ~begun'
           \/ UNCHANGED <<frame, tx, begun>>
    BY <1>7 DEF ProcessQueue, chip
  <2> QED BY <1>1, <1>2, <2>1 DEF CalmInv, link
<1>8. CASE TransmitStart
  <2>1. /\ tx = "transmit" /\ loading' = IF up /\ sending = NoFrame THEN frame ELSE NoFrame
        /\ UNCHANGED <<pc, sending, echoed, link, tx, frame>>
    BY <1>8 DEF TransmitStart, main
  <2>2. up /\ sending = NoFrame BY <2>1 DEF ResetInv, FlightInv, CalmInv
  <2> QED BY <1>1, <1>2, <2>1, <2>2 DEF CalmInv, link
<1>9. CASE TransmitEnd
  <2>1. /\ pc = "transmit" /\ tx = "transmit" /\ begun /\ tx' = "await"
        /\ loading # NoFrame => sending' = loading /\ ~echoed'
        /\ UNCHANGED <<pc, link, frame>>
    BY <1>9 DEF TransmitEnd, main
  <2>2. frame \in Frame /\ loading = frame BY <2>1 DEF CalmInv, BaseInv, LiveInv
  <2> QED BY <1>1, <1>2, <2>1, <2>2 DEF CalmInv, link
<1> QED BY <1>3, <1>4, <1>5, <1>6, <1>7, <1>8, <1>9

Calm == Undisturbed => CalmInv

LEMMA StaysDisturbed == ASSUME BaseInv, [Next]_vars, Undisturbed' PROVE Undisturbed
<1>1. downs \in Nat /\ noises \in Nat BY DEF BaseInv, AllTypes, BoundType
<1>2. ChipStep => downs' \in {downs, downs + 1} /\ noises' \in {noises, noises + 1}
  BY DEF ChipStep, ChipEchoes, ChipConfirms, ChipState, LineFrame, ChipRestarts, ChipDown,
     ChipUp, Noise, bounds
<1>3. ~ChipStep => UNCHANGED bounds
  BY Steps, BookkeepingKeeps DEF SendFrame, DropFrame, DropQueue, ReportDropped, ProcessQueue,
     TransmitStart, TransmitEnd, ProcessRing, ResetLocked, UartTask, vars, BaseInv, AllTypes
<1> QED BY <1>1, <1>2, <1>3 DEF Undisturbed, bounds

LEMMA CalmNext == BaseInv /\ ChipInv /\ Calm /\ [Next]_vars => Calm'
<1> SUFFICES ASSUME BaseInv, ChipInv, Calm, [Next]_vars, Undisturbed' PROVE CalmInv'
  BY DEF Calm
<1>1. Undisturbed BY StaysDisturbed
<1>2. CalmInv /\ ResetInv /\ FlightInv BY <1>1 DEF Calm, ChipInv, Undisturbed
<1>3. ~ResetLocked BY <1>2 DEF ResetLocked, CalmInv
<1> QED BY <1>2, <1>3, Steps, MainCalm, HearCalm, ChipCalm

LEMMA CalmInit == Init => Calm
BY DEF Init, Calm, CalmInv, NoNoise, NoCon, ConsHeld

LEMMA LostToFullRing ==
  ASSUME BaseInv, ChipInv, Calm, [Next]_vars, Undisturbed, lost' # lost
  PROVE  Len(ring) = RingMax
<1>1. CalmInv /\ ResetInv /\ FlightInv BY DEF Calm, ChipInv, Undisturbed
<1>2. ~ResetLocked BY <1>1 DEF ResetLocked, CalmInv
<1>3. UartTask
  BY <1>2, Steps, BookkeepingKeeps, ChipSays DEF SendFrame, DropFrame, DropQueue, ReportDropped,
     ProcessQueue, TransmitStart, TransmitEnd, ProcessRing, vars, history, BaseInv, AllTypes
<1>4. ReceiveCon /\ Confirming
  <2>1. ~ReceiveOrphanCon BY <1>1, <1>3, HearCalm
  <2>2. ~ReceiveState BY DEF ReceiveState
  <2> QED BY <1>3, <2>1, <2>2, Heard
<1>5. frame = wait BY <1>1, <1>4 DEF ReceiveCon, CalmInv, FlightInv
<1> QED BY <1>4, <1>5 DEF Confirming

(* While the chip keeps its supply and no octet is damaged, a confirmation *)
(* is lost only to a full ring.                                            *)
THEOREM OnlyFullRingLoses == Spec => ConLostToFullRingOnly
<1> DEFINE Inv == BaseInv /\ ChipInv /\ Calm
<1>1. Inv /\ [Next]_vars => Inv' BY BaseNext, ChipNext, CalmNext
<1>2. Init => Inv BY BaseInit, ChipInit, CalmInit
<1>3. Inv /\ [Next]_vars => [lost' # lost => downs > 0 \/ noises > 0 \/ Len(ring) = RingMax]_vars
  <2> SUFFICES ASSUME Inv, [Next]_vars, lost' # lost, ~(downs > 0), ~(noises > 0)
               PROVE  Len(ring) = RingMax
    OBVIOUS
  <2>1. Undisturbed BY DEF Undisturbed, BaseInv, AllTypes, BoundType
  <2> QED BY <2>1, LostToFullRing
<1> QED BY <1>1, <1>2, <1>3, PTL DEF Spec, ConLostToFullRingOnly

-----------------------------------------------------------------------------
(* What the driver promises the stack: LineContract.                       *)

(* The frames the host still has to account for, and those of which a      *)
(* confirmation can come from the line: not yet written, with the chip, or *)
(* their confirmation on its way.                                          *)
Owned == Frames(queue) \union Flying \union Frames(dropped)
Writing == IF tx = "transmit" THEN Flying ELSE {}
Unsent == Frames(queue) \union Writing
AtLine == IF sending # NoFrame THEN {sending} ELSE {}
Coming == {uart[i].f : i \in {k \in 1 .. Len(uart) : uart[k].kind = "con"}}
OnLine == Unsent \union AtLine \union Coming \union Ringing

ConsOnce ==
  \A i, j \in 1 .. Len(uart) :
    uart[i].kind = "con" /\ uart[j].kind = "con" /\ uart[i].f = uart[j].f => i = j

(* The host has a frame in one place, ...                                  *)
HostOnce ==
  /\ Distinct(queue) /\ Distinct(dropped)
  /\ Frames(queue) \intersect (Flying \union Frames(dropped)) = {}
  /\ Flying \intersect Frames(dropped) = {}

(* ... it is in one place on its way over the line and back, and no longer *)
(* in flight once its confirmation is in the ring.                         *)
LineOnce ==
  /\ RingOnce /\ ConsOnce
  /\ Unsent \intersect (AtLine \union Coming \union Ringing) = {}
  /\ AtLine \intersect (Coming \union Ringing) = {}
  /\ Coming \intersect Ringing = {}
  /\ Ringing \intersect Flying = {}

(* The chip takes the frame that is written, and only while it has none;   *)
(* what was dropped is reported before the main loop goes on.              *)
GivenInv ==
  /\ loading # NoFrame => sending = NoFrame
  /\ tx = "transmit" /\ begun => loading \in {NoFrame, frame}
  /\ pc \notin {"clear", "report"} => dropped = <<>>

(* A frame gets one confirmation from the host at most and one from the    *)
(* line, the positive one last.                                            *)
Twice(s) == Len(s) <= 1 \/ (Len(s) = 2 /\ s[1] = FALSE)
DueInv ==
  /\ \A f \in Frame : f \notin taken => confs[f] = <<>>
  /\ Owned \union OnLine \subseteq taken
  /\ \A f \in Owned \intersect OnLine : confs[f] = <<>>
  /\ \A f \in Owned \union OnLine : confs[f] \in {<<>>, <<FALSE>>}
  /\ \A f \in Frame : Twice(confs[f])

TwiceInv == HostOnce /\ LineOnce /\ GivenInv /\ DueInv

(* While nothing is confirmed.                                             *)
LEMMA DueKept ==
  ASSUME DueInv, UNCHANGED <<taken, confs>>, Owned' \subseteq Owned, OnLine' \subseteq OnLine
  PROVE  DueInv'
<1> HIDE DEF Owned, OnLine, Twice
<1> QED BY DEF DueInv

LEMMA TwiceShort ==
  ASSUME NEW ok \in BOOLEAN
  PROVE  /\ Twice(Append(<<>>, ok)) /\ Twice(Append(<<FALSE>>, ok))
         /\ Append(<<>>, FALSE) = <<FALSE>>
<1>1. Len(Append(<<>>, ok)) = 1 OBVIOUS
<1>2. Len(Append(<<FALSE>>, ok)) = 2 /\ Append(<<FALSE>>, ok)[1] = FALSE OBVIOUS
<1>3. Append(<<>>, FALSE) = <<FALSE>> OBVIOUS
<1> QED BY <1>1, <1>2, <1>3 DEF Twice

LEMMA TwiceLonger ==
  ASSUME NEW s \in Seq(BOOLEAN), NEW ok \in BOOLEAN, Twice(Append(s, ok))
  PROVE  s = <<>> \/ (s = <<FALSE>> /\ Len(Append(s, ok)) = 2)
<1>1. /\ Len(s) \in Nat /\ Len(Append(s, ok)) = Len(s) + 1
      /\ \A i \in 1 .. Len(s) : Append(s, ok)[i] = s[i]
  OBVIOUS
<1>2. CASE Len(s) = 0 BY <1>2, EmptySeq
<1>3. CASE Len(s) = 1
  <2>1. Append(s, ok)[1] = FALSE BY <1>1, <1>3 DEF Twice
  <2>2. s[1] = FALSE BY <1>1, <1>3, <2>1
  <2>3. <<FALSE>> \in Seq(BOOLEAN) /\ Len(<<FALSE>>) = 1 /\ <<FALSE>>[1] = FALSE
    OBVIOUS
  <2>4. \A i \in 1 .. Len(s) : s[i] = <<FALSE>>[i]
    <3>1. \A i \in 1 .. Len(s) : i = 1 BY <1>3
    <3> QED BY <2>2, <2>3, <3>1, Zenon
  <2>5. s = <<FALSE>> BY <1>3, <2>3, <2>4, SeqEqual
  <2> QED BY <1>1, <1>3, <2>5
<1>4. Len(s) = 0 \/ Len(s) = 1
  <2>1. Len(Append(s, ok)) <= 1 \/ Len(Append(s, ok)) = 2 BY Zenon DEF Twice
  <2>2. Len(s) \in Nat /\ Len(Append(s, ok)) = Len(s) + 1 BY <1>1
  <2>3. \A m \in Nat : m + 1 <= 1 \/ m + 1 = 2 => m = 0 \/ m = 1 OBVIOUS
  <2> QED BY <2>1, <2>2, <2>3, Zenon
<1> QED BY <1>2, <1>3, <1>4

(* While f is: by the host, or by the line and then for the last time.     *)
LEMMA DueConfirmed ==
  ASSUME BaseInv, DueInv, NEW f \in Owned \union OnLine, NEW ok \in BOOLEAN,
         f \in Frame, Confirm(f, ok), taken' = taken,
         Owned' \subseteq Owned, OnLine' \subseteq OnLine, f \notin Owned',
         f \in OnLine' => f \in Owned /\ ok = FALSE
  PROVE  DueInv'
<1> HIDE DEF Owned, OnLine, Twice
<1>1. /\ confs \in [Frame -> Seq(BOOLEAN)] /\ confs'[f] = Append(confs[f], ok)
      /\ \A g \in Frame : g # f => confs'[g] = confs[g]
  BY ConfirmType DEF BaseInv, AllTypes, HistoryType
<1>2. confs[f] \in {<<>>, <<FALSE>>} /\ f \in taken /\ taken \subseteq Frame
  BY DEF DueInv, BaseInv, AllTypes, HistoryType
<1>3. Twice(confs'[f]) BY <1>1, <1>2, TwiceShort
<1>4. f \in OnLine' => confs'[f] = <<FALSE>>
  <2> SUFFICES ASSUME f \in OnLine' PROVE confs'[f] = <<FALSE>>
    OBVIOUS
  <2>1. confs[f] = <<>> /\ ok = FALSE BY DEF DueInv
  <2> QED BY <1>1, <2>1, TwiceShort
<1>5. \A g \in Frame : Twice(confs'[g]) BY <1>1, <1>3 DEF DueInv
<1>6. \A g \in Frame : g \notin taken' => confs'[g] = <<>> BY <1>1, <1>2 DEF DueInv
<1>7. Owned' \union OnLine' \subseteq taken' BY DEF DueInv
<1>8. \A g \in Owned' \intersect OnLine' : confs'[g] = <<>>
  BY <1>1, <1>2, <1>7 DEF DueInv
<1>9. \A g \in Owned' \union OnLine' : confs'[g] \in {<<>>, <<FALSE>>}
  BY <1>1, <1>2, <1>4, <1>7 DEF DueInv
<1> QED BY <1>5, <1>6, <1>7, <1>8, <1>9 DEF DueInv, Twice

-----------------------------------------------------------------------------
(* What waits, and what is on its way.                                     *)

(* The frame being written comes before the queue.                         *)
LEMMA FrontOf ==
  ASSUME NEW f \in Frame, NEW s \in Seq(Frame)
  PROVE  /\ <<f>> \o s \in Seq(Frame) /\ <<f>> \o s # <<>>
         /\ Head(<<f>> \o s) = f /\ Tail(<<f>> \o s) = s
<1>1. <<f>> \in Seq(Frame) /\ Len(<<f>>) = 1 /\ <<f>>[1] = f
  OBVIOUS
<1> DEFINE r == <<f>> \o s
<1>2. /\ r \in Seq(Frame) /\ Len(s) \in Nat /\ Len(r) = 1 + Len(s)
      /\ \A i \in 1 .. 1 + Len(s) : r[i] = IF i <= 1 THEN <<f>>[i] ELSE s[i - 1]
  BY <1>1, ConcatProperties
<1> HIDE DEF r
<1>3. r # <<>> BY <1>2
<1>4. /\ Head(r) = r[1] /\ Tail(r) \in Seq(Frame) /\ Len(Tail(r)) = Len(r) - 1
      /\ \A i \in 1 .. Len(Tail(r)) : Tail(r)[i] = r[i + 1]
  BY <1>2, <1>3, HeadTailProperties
<1>5. Head(r) = f BY <1>1, <1>2, <1>4
<1>6. Tail(r) = s
  <2>1. Len(Tail(r)) = Len(s) BY <1>2, <1>4
  <2>2. \A i \in 1 .. Len(s) : Tail(r)[i] = s[i] BY <1>2, <1>4
  <2> QED BY <1>4, <2>1, <2>2, SeqEqual
<1> QED BY <1>2, <1>3, <1>5, <1>6 DEF r

LEMMA FrontAndRest ==
  ASSUME NEW s \in Seq(Frame), s # <<>>
  PROVE  <<Head(s)>> \o Tail(s) = s
<1>1. /\ Head(s) \in Frame /\ Tail(s) \in Seq(Frame) /\ Len(s) \in Nat \ {0} /\ Head(s) = s[1]
      /\ Len(Tail(s)) = Len(s) - 1 /\ \A i \in 1 .. Len(Tail(s)) : Tail(s)[i] = s[i + 1]
  BY HeadTailProperties, EmptySeq
<1> DEFINE h == Head(s)  t == Tail(s)  r == <<h>> \o t
<1>2. <<h>> \in Seq(Frame) /\ Len(<<h>>) = 1 /\ <<h>>[1] = h
  BY <1>1
<1> HIDE DEF h, t
<1>3. /\ r \in Seq(Frame) /\ Len(r) = 1 + Len(t)
      /\ \A i \in 1 .. 1 + Len(t) : r[i] = IF i <= 1 THEN <<h>>[i] ELSE t[i - 1]
  BY <1>1, <1>2, ConcatProperties DEF h, t
<1> HIDE DEF r
<1>4. Len(r) = Len(s) BY <1>1, <1>3 DEF t
<1>5. \A i \in 1 .. Len(s) : r[i] = s[i]
  <2> TAKE i \in 1 .. Len(s)
  <2>1. CASE i = 1 BY <1>1, <1>2, <1>3, <2>1 DEF h, t
  <2>2. CASE i # 1
    <3>1. i - 1 \in 1 .. Len(t) /\ (i - 1) + 1 = i /\ ~(i <= 1) /\ i \in 1 .. 1 + Len(t)
      BY <1>1, <2>2 DEF t
    <3>2. r[i] = t[i - 1] BY <1>3, <3>1
    <3>3. t[i - 1] = s[(i - 1) + 1] BY <1>1, <3>1 DEF t
    <3> QED BY <3>1, <3>2, <3>3
  <2> QED BY <2>1, <2>2
<1>6. r = s BY <1>3, <1>4, <1>5, SeqEqual
<1> QED BY <1>6 DEF r, h, t

LEMMA AppendAfter ==
  ASSUME NEW r \in Seq(Frame), NEW s \in Seq(Frame), NEW f \in Frame
  PROVE  r \o Append(s, f) = Append(r \o s, f)
<1>1. /\ Append(s, f) \in Seq(Frame) /\ Len(s) \in Nat /\ Len(Append(s, f)) = Len(s) + 1
      /\ Append(s, f)[Len(s) + 1] = f /\ \A i \in 1 .. Len(s) : Append(s, f)[i] = s[i]
  OBVIOUS
<1> SUFFICES ASSUME NEW a \in Seq(Frame), Len(a) = Len(s) + 1, a[Len(s) + 1] = f,
                    \A i \in 1 .. Len(s) : a[i] = s[i]
             PROVE  r \o a = Append(r \o s, f)
  BY <1>1
<1>2. r \o s \in Seq(Frame) BY ConcatProperties
<1>3. /\ Append(r \o s, f) \in Seq(Frame) /\ Len(Append(r \o s, f)) = Len(r \o s) + 1
      /\ Append(r \o s, f)[Len(r \o s) + 1] = f
      /\ \A i \in 1 .. Len(r \o s) : Append(r \o s, f)[i] = (r \o s)[i]
  BY <1>2
<1> SUFFICES ASSUME NEW y \in Seq(Frame), Len(y) = Len(r \o s) + 1, y[Len(r \o s) + 1] = f,
                    \A i \in 1 .. Len(r \o s) : y[i] = (r \o s)[i]
             PROVE  r \o a = y
  BY <1>3
<1>4. /\ r \o a \in Seq(Frame) /\ Len(r) \in Nat /\ Len(r \o a) = Len(r) + Len(a)
      /\ \A i \in 1 .. Len(r) + Len(a) : (r \o a)[i] = IF i <= Len(r) THEN r[i] ELSE a[i - Len(r)]
  BY ConcatProperties
<1>5. /\ Len(r \o s) = Len(r) + Len(s)
      /\ \A i \in 1 .. Len(r) + Len(s) : (r \o s)[i] = IF i <= Len(r) THEN r[i] ELSE s[i - Len(r)]
  BY ConcatProperties
<1>6. Len(r \o a) = Len(y) BY <1>1, <1>4, <1>5
<1>7. \A i \in 1 .. Len(r \o a) : (r \o a)[i] = y[i]
  <2> SUFFICES ASSUME NEW i \in 1 .. Len(r) + Len(s) + 1 PROVE (r \o a)[i] = y[i]
    BY <1>1, <1>4
  <2>1. i \in 1 .. Len(r) + Len(a) BY <1>1, <1>4
  <2>2. CASE i <= Len(r)
    <3>1. i \in 1 .. Len(r) + Len(s) BY <1>1, <1>4, <2>2
    <3> QED BY <1>4, <1>5, <2>1, <2>2, <3>1
  <2>3. CASE i = Len(r) + Len(s) + 1
    <3>1. ~(i <= Len(r)) /\ i - Len(r) = Len(s) + 1 BY <1>1, <1>4, <2>3
    <3>2. (r \o a)[i] = a[Len(s) + 1] BY <1>4, <2>1, <3>1
    <3> QED BY <1>5, <2>3, <3>2
  <2>4. CASE ~(i <= Len(r)) /\ i # Len(r) + Len(s) + 1
    <3>1. i \in 1 .. Len(r) + Len(s) /\ i - Len(r) \in 1 .. Len(s) BY <1>1, <1>4, <2>4
    <3>2. (r \o a)[i] = a[i - Len(r)] BY <1>4, <2>1, <2>4
    <3>3. y[i] = s[i - Len(r)] BY <1>5, <2>4, <3>1
    <3> QED BY <3>1, <3>2, <3>3
  <2> QED BY <2>2, <2>3, <2>4
<1> QED BY <1>4, <1>6, <1>7, SeqEqual

LEMMA WaitingIs ==
  ASSUME BaseInv
  PROVE  /\ Waiting \in Seq(Frame) /\ queue \in Seq(Frame)
         /\ Frames(Waiting) = Unsent
         /\ tx # "transmit" \/ frame = NoFrame => Waiting = queue
         /\ tx = "transmit" /\ frame # NoFrame =>
              /\ Waiting = <<frame>> \o queue /\ frame \in Frame
              /\ Waiting # <<>> /\ Head(Waiting) = frame /\ Tail(Waiting) = queue
         /\ Line!NotWaiting = taken \ Unsent
<1>1. queue \in Seq(Frame) /\ frame \in FrameOrNone
  BY DEF BaseInv, AllTypes, TransmitterType
<1>2. ASSUME tx # "transmit" \/ frame = NoFrame
      PROVE  Waiting = queue /\ Frames(Waiting) = Unsent
  <2>1. Waiting = <<>> \o queue BY <1>2 DEF Waiting
  <2>2. Waiting = queue BY <1>1, <2>1, ConcatEmptySeq
  <2>3. Unsent = Frames(queue) BY <1>2 DEF Unsent, Writing, Flying
  <2> QED BY <1>1, <1>2, <2>2, <2>3
<1>3. ASSUME tx = "transmit", frame # NoFrame
      PROVE  /\ Waiting = <<frame>> \o queue /\ frame \in Frame /\ Waiting \in Seq(Frame)
             /\ Waiting # <<>> /\ Head(Waiting) = frame /\ Tail(Waiting) = queue
             /\ Frames(Waiting) = Unsent
  <2>1. Waiting = <<frame>> \o queue /\ frame \in Frame BY <1>1, <1>3 DEF Waiting, FrameOrNone
  <2>2. Unsent = {frame} \union Frames(queue)
    BY <1>3 DEF Unsent, Writing, Flying
  <2>3. Frames(Waiting) = Unsent
    BY <1>1, <2>1, <2>2, FramesConcat, FramesSingle
  <2> QED BY <1>1, <1>3, <2>1, <2>3, FrontOf
<1>4. Waiting \in Seq(Frame) /\ Frames(Waiting) = Unsent BY <1>1, <1>2, <1>3
<1>5. DOMAIN Waiting = 1 .. Len(Waiting) BY <1>4
<1>6. Line!NotWaiting = taken \ Unsent
  <2>1. Line!NotWaiting = {f \in taken : \A i \in 1 .. Len(Waiting) : Waiting[i] # f}
    BY <1>5 DEF Line!NotWaiting
  <2>2. Frames(Waiting) = {Waiting[i] : i \in 1 .. Len(Waiting)} BY DEF Frames
  <2> HIDE DEF Waiting
  <2> QED BY <1>4, <2>1, <2>2
<1> QED BY <1>1, <1>2, <1>3, <1>4, <1>6

-----------------------------------------------------------------------------
(* What is on the serial line.                                             *)

LEMMA ComingHeard ==
  ASSUME BaseInv, UartTask, ConsOnce
  PROVE  /\ ConsOnce' /\ Coming' \subseteq Coming
         /\ uart[1].kind = "con" => uart[1].f \in Coming /\ uart[1].f \notin Coming'
<1>1. /\ Len(uart) \in Nat \ {0} /\ Len(uart') = Len(uart) - 1
      /\ \A i \in 1 .. Len(uart') : uart'[i] = uart[i + 1]
  BY HearsIs DEF BaseInv, AllTypes
<1>2. /\ 1 \in 1 .. Len(uart)
      /\ \A i \in 1 .. Len(uart') : i + 1 \in 1 .. Len(uart) /\ i + 1 # 1
      /\ \A i, j \in 1 .. Len(uart') : i + 1 = j + 1 => i = j
  BY <1>1
<1>3. ConsOnce'
  <2> SUFFICES ASSUME NEW CONSTANT i \in 1 .. Len(uart'), NEW CONSTANT j \in 1 .. Len(uart'),
                      uart'[i].kind = "con", uart'[j].kind = "con", uart'[i].f = uart'[j].f
               PROVE  i = j
    BY DEF ConsOnce
  <2>1. i + 1 \in 1 .. Len(uart) /\ uart'[i] = uart[i + 1] BY <1>1, <1>2
  <2>2. j + 1 \in 1 .. Len(uart) /\ uart'[j] = uart[j + 1] BY <1>1, <1>2
  <2>3. i + 1 = j + 1 BY <2>1, <2>2 DEF ConsOnce
  <2> QED BY <1>2, <2>3
<1>4. Coming' \subseteq Coming
  <2>1. ASSUME NEW i \in 1 .. Len(uart'), uart'[i].kind = "con" PROVE uart'[i].f \in Coming
    <3>1. i + 1 \in 1 .. Len(uart) /\ uart'[i] = uart[i + 1] BY <1>1, <1>2
    <3> QED BY <2>1, <3>1 DEF Coming
  <2> QED BY <2>1 DEF Coming
<1>5. ASSUME uart[1].kind = "con" PROVE uart[1].f \in Coming /\ uart[1].f \notin Coming'
  <2>1. uart[1].f \in Coming BY <1>2, <1>5 DEF Coming
  <2>2. ASSUME NEW i \in 1 .. Len(uart'), uart'[i].kind = "con" PROVE uart'[i].f # uart[1].f
    <3>1. i + 1 \in 1 .. Len(uart) /\ uart'[i] = uart[i + 1] /\ i + 1 # 1 BY <1>1, <1>2
    <3> QED BY <1>2, <1>5, <2>2, <3>1 DEF ConsOnce
  <2>3. uart[1].f \notin Coming' BY <2>2 DEF Coming
  <2> QED BY <2>1, <2>3
<1> QED BY <1>3, <1>4, <1>5

LEMMA ComingSaid ==
  ASSUME BaseInv, NEW t \in Tokens, Says(t), ConsOnce,
         t.kind = "con" => t.f \notin Coming
  PROVE  /\ ConsOnce'
         /\ Coming' = Coming \union (IF t.kind = "con" THEN {t.f} ELSE {})
<1> HIDE DEF Tokens
<1>1. /\ Len(uart) \in Nat /\ Len(uart') = Len(uart) + 1 /\ uart'[Len(uart) + 1] = t
      /\ \A i \in 1 .. Len(uart) : uart'[i] = uart[i]
  BY SaysIs DEF BaseInv, AllTypes
<1>2. 1 .. Len(uart') = (1 .. Len(uart)) \union {Len(uart) + 1} BY <1>1
<1>3. Coming' = Coming \union (IF t.kind = "con" THEN {t.f} ELSE {})
  BY <1>1, <1>2 DEF Coming
<1>4. \A i \in 1 .. Len(uart) : uart[i].kind = "con" /\ t.kind = "con" => uart[i].f # t.f
  BY DEF Coming
<1>5. ConsOnce' BY <1>1, <1>2, <1>4 DEF ConsOnce
<1> QED BY <1>3, <1>5

(* The echo that is held when a confirmation comes is that of its frame.   *)
LEMMA ConOfHeld ==
  ASSUME BaseInv, TrueInv, UartTask, ReceiveCon
  PROVE  uart[1].kind = "con" /\ wait = uart[1].f
<1>1. /\ Head(uart) = uart[1] /\ Len(uart) \in Nat \ {0} BY HearsIs DEF BaseInv, AllTypes
<1>2. uart[1].kind = "con" /\ wait # NoFrame /\ 1 \in 1 .. Len(uart)
  BY <1>1 DEF ReceiveCon
<1>3. ConFits(0, uart[1].f) BY <1>2 DEF TrueInv
<1> QED BY <1>2, <1>3 DEF ConFits

-----------------------------------------------------------------------------
(* The steps, one by one.                                                  *)

LEMMA SendTwice ==
  ASSUME BaseInv, TwiceInv, NEW f \in Frame, SendFrame(f)
  PROVE  TwiceInv'
<1>1. /\ f \notin taken /\ taken' = taken \union {f}
      /\ UNCHANGED <<pc, frame, tx, begun, dropped, ring, uart, loading, sending>>
  BY DEF SendFrame, receiver, main, chip
<1>2. /\ Flying' = Flying /\ Writing' = Writing /\ Frames(dropped') = Frames(dropped)
      /\ Ringing' = Ringing /\ AtLine' = AtLine /\ Coming' = Coming
      /\ Distinct(dropped') /\ RingOnce' /\ ConsOnce' /\ GivenInv'
  BY <1>1 DEF Flying, Writing, Ringing, AtLine, Coming, RingOnce, ConsOnce, Confirms, GivenInv,
              TwiceInv, HostOnce, LineOnce
<1>3. /\ queue \in Seq(Frame) /\ confs \in [Frame -> Seq(BOOLEAN)] /\ FALSE \in BOOLEAN
      /\ taken \subseteq Frame
  BY DEF BaseInv, AllTypes, TransmitterType, HistoryType
<1>4. f \notin Owned \union OnLine /\ confs[f] = <<>>
  BY <1>1 DEF TwiceInv, DueInv
<1>5. CASE queue' = Append(queue, f) /\ confs' = confs
  <2>1. Frames(queue') = Frames(queue) \union {f} /\ Distinct(queue')
    BY <1>3, <1>4, <1>5, FramesAppend, DistinctAppend DEF Owned, TwiceInv, HostOnce
  <2>2. /\ Unsent' = Unsent \union {f} /\ Owned' = Owned \union {f} /\ OnLine' = OnLine \union {f}
    BY <1>2, <2>1 DEF Unsent, Owned, OnLine
  <2>3. HostOnce'
    BY <1>2, <1>4, <2>1 DEF HostOnce, Owned, TwiceInv
  <2>4. LineOnce'
    BY <1>2, <1>4, <2>2 DEF LineOnce, OnLine, TwiceInv
  <2>5. DueInv'
    <3> HIDE DEF Owned, OnLine
    <3> QED BY <1>1, <1>3, <1>4, <1>5, <2>2 DEF DueInv, TwiceInv, Twice
  <2> QED BY <1>2, <2>3, <2>4, <2>5 DEF TwiceInv
<1>6. CASE queue' = queue /\ Confirm(f, FALSE)
  <2>1. Unsent' = Unsent /\ Owned' = Owned /\ OnLine' = OnLine
    BY <1>2, <1>6 DEF Unsent, Owned, OnLine
  <2>2. HostOnce' /\ LineOnce'
    BY <1>2, <1>6, <2>1 DEF HostOnce, LineOnce, TwiceInv
  <2>3. /\ confs'[f] = <<FALSE>> /\ \A g \in Frame : g # f => confs'[g] = confs[g]
    BY <1>3, <1>4, <1>6, ConfirmType, TwiceShort
  <2>4. Twice(confs'[f])
    BY <2>3, TwiceShort
  <2>5. DueInv'
    <3> HIDE DEF Owned, OnLine
    <3>1. Owned \union OnLine \subseteq taken
      BY DEF DueInv, TwiceInv
    <3>2. \A g \in Owned' \union OnLine' : g \in Frame /\ g # f /\ confs'[g] = confs[g]
      BY <1>1, <1>3, <2>1, <2>3, <3>1
    <3>3. \A g \in Frame : Twice(confs'[g])
      BY <2>3, <2>4 DEF DueInv, TwiceInv
    <3> HIDE DEF Twice
    <3>4. \A g \in Frame : g \notin taken' => confs'[g] = <<>>
      BY <1>1, <2>3 DEF DueInv, TwiceInv
    <3>5. /\ \A g \in Owned' \intersect OnLine' : confs'[g] = <<>>
          /\ \A g \in Owned' \union OnLine' : confs'[g] \in {<<>>, <<FALSE>>}
      BY <2>1, <3>2 DEF DueInv, TwiceInv
    <3> QED BY <1>1, <2>1, <3>1, <3>3, <3>4, <3>5 DEF DueInv, Twice
  <2> QED BY <1>2, <2>2, <2>5 DEF TwiceInv
<1> QED BY <1>5, <1>6 DEF SendFrame

LEMMA RestTwice ==
  ASSUME BaseInv, TwiceInv, Bookkeeping \/ UNCHANGED vars
  PROVE  TwiceInv'
<1>1. /\ UNCHANGED <<queue, frame, tx, begun, dropped, ring, uart, loading, sending, taken, confs>>
  BY BookkeepingKeeps DEF vars, transmitter, receiver, chip, history, BaseInv, AllTypes
<1>2. /\ Flying' = Flying /\ Writing' = Writing /\ Unsent' = Unsent /\ Ringing' = Ringing
      /\ AtLine' = AtLine /\ Coming' = Coming /\ Owned' = Owned /\ OnLine' = OnLine
  BY <1>1 DEF Flying, Writing, Unsent, Ringing, AtLine, Coming, Owned, OnLine, Confirms
<1>3. pc \notin {"clear", "report"} \/ pc' = pc
  BY DEF Bookkeeping, StartOfReset, BeginPass, ResetPendingTimeout, HandleReset, EndTransmit,
         RingDone, Disconnect, EndPass, ResetRingDone, TransmitterWatchdog, DesyncWatchdog,
         BcuRecovery, vars, main
<1>4. GivenInv' BY <1>1, <1>3 DEF GivenInv, TwiceInv
<1>5. HostOnce' /\ LineOnce'
  BY <1>1, <1>2 DEF HostOnce, LineOnce, RingOnce, ConsOnce, Confirms, TwiceInv
<1>6. DueInv' BY <1>1, <1>2, DueKept DEF TwiceInv
<1> QED BY <1>4, <1>5, <1>6 DEF TwiceInv

(* Transmitter::reset moves what it takes away to the dropped.             *)
LEMMA DropTwice ==
  ASSUME BaseInv, TwiceInv, DropFrame \/ DropQueue
  PROVE  TwiceInv'
<1>1. /\ UNCHANGED <<ring, uart, loading, sending, taken, confs>>
      /\ pc \in {"drop", "clear"} /\ pc' \in {"clear", "report"}
  BY DEF DropFrame, DropQueue, receiver, chip, history
<1>2. Ringing' = Ringing /\ AtLine' = AtLine /\ Coming' = Coming /\ RingOnce' /\ ConsOnce'
  BY <1>1 DEF Ringing, AtLine, Coming, RingOnce, ConsOnce, Confirms, TwiceInv, LineOnce
<1>3. queue \in Seq(Frame) /\ dropped \in Seq(Frame) /\ Distinct(queue) /\ Distinct(dropped)
  BY DEF BaseInv, AllTypes, TransmitterType, TwiceInv, HostOnce
<1>4. /\ Flying' = {} /\ Frames(queue') \subseteq Frames(queue)
      /\ Frames(queue') \intersect Frames(dropped') = {}
      /\ Frames(queue') \union Frames(dropped') \subseteq Owned
      /\ Distinct(queue') /\ Distinct(dropped')
  <2>1. CASE DropFrame
    <3>1. dropped' = dropped \o Unconfirmed /\ frame' = NoFrame /\ queue' = queue
      BY <2>1 DEF DropFrame
    <3>2. Frames(dropped) \intersect Frames(Unconfirmed) = {}
      BY FramesUnconfirmed DEF TwiceInv, HostOnce
    <3>3. Frames(dropped') = Frames(dropped) \union Flying /\ Distinct(dropped')
      BY <1>3, <3>1, <3>2, UnconfirmedIs, FramesConcat, FramesUnconfirmed, DistinctConcat,
         DistinctUnconfirmed
    <3>4. Flying' = {} BY <3>1 DEF Flying
    <3> QED BY <1>3, <3>1, <3>3, <3>4 DEF Owned, TwiceInv, HostOnce
  <2>2. CASE DropQueue
    <3>1. dropped' = dropped \o queue /\ queue' = <<>> /\ tx' = "idle"
      BY <2>2 DEF DropQueue
    <3>2. Frames(dropped') = Frames(dropped) \union Frames(queue) /\ Distinct(dropped')
      BY <1>3, <3>1, FramesConcat, DistinctConcat DEF TwiceInv, HostOnce
    <3>3. Flying' = {} /\ Frames(queue') = {} /\ Distinct(queue')
      BY <3>1 DEF Flying, Frames, Distinct
    <3> QED BY <3>2, <3>3 DEF Owned
  <2> QED BY <2>1, <2>2
<1>5. Writing' = {} /\ Unsent' \subseteq Unsent /\ OnLine' \subseteq OnLine /\ Owned' \subseteq Owned
  BY <1>2, <1>4 DEF Writing, Unsent, OnLine, Owned
<1>6. HostOnce' BY <1>4 DEF HostOnce
<1>7. LineOnce' BY <1>2, <1>4, <1>5 DEF LineOnce, TwiceInv
<1>8. GivenInv'
  BY <1>1 DEF GivenInv, TwiceInv, DropFrame, DropQueue
<1>9. DueInv' BY <1>1, <1>5, DueKept DEF TwiceInv
<1> QED BY <1>6, <1>7, <1>8, <1>9 DEF TwiceInv

LEMMA ReportTwice == ASSUME BaseInv, TwiceInv, ReportDropped PROVE TwiceInv'
<1>1. UNCHANGED <<queue, frame, tx, begun, ring, uart, loading, sending, taken>>
  BY DEF ReportDropped, receiver, chip
<1>2. /\ Flying' = Flying /\ Writing' = Writing /\ Unsent' = Unsent /\ Ringing' = Ringing
      /\ AtLine' = AtLine /\ Coming' = Coming /\ OnLine' = OnLine
      /\ Frames(queue') = Frames(queue) /\ Distinct(queue')
  BY <1>1 DEF Flying, Writing, Unsent, Ringing, AtLine, Coming, OnLine, Confirms, TwiceInv, HostOnce
<1>3. LineOnce'
  BY <1>1, <1>2 DEF LineOnce, RingOnce, ConsOnce, Confirms, TwiceInv
<1>4. dropped \in Seq(Frame) /\ Distinct(dropped)
  BY DEF BaseInv, AllTypes, TransmitterType, TwiceInv, HostOnce
<1>5. CASE dropped = <<>>
  <2>1. dropped' = <<>> /\ confs' = confs BY <1>5 DEF ReportDropped
  <2>2. Owned' = Owned BY <1>2, <1>5, <2>1 DEF Owned
  <2>3. HostOnce' BY <1>2, <1>5, <2>1 DEF HostOnce, TwiceInv
  <2>4. GivenInv' BY <1>1, <2>1 DEF GivenInv, TwiceInv
  <2>5. DueInv' BY <1>1, <1>2, <2>1, <2>2, DueKept DEF TwiceInv
  <2> QED BY <1>3, <2>3, <2>4, <2>5 DEF TwiceInv
<1>6. CASE dropped # <<>>
  <2> DEFINE f == Head(dropped)
  <2>1. dropped' = Tail(dropped) /\ Confirm(f, FALSE) /\ pc' = pc /\ pc = "report"
    BY <1>6 DEF ReportDropped
  <2>2. /\ f \in Frame /\ Frames(dropped) = Frames(dropped') \union {f}
        /\ Distinct(dropped') /\ f \notin Frames(dropped')
    BY <1>4, <1>6, <2>1, FramesOf, DistinctTail
  <2> HIDE DEF f
  <2>3. /\ f \in Owned /\ Owned' \subseteq Owned /\ f \notin Owned'
    BY <1>2, <2>2 DEF Owned, TwiceInv, HostOnce
  <2>4. HostOnce' BY <1>2, <2>2 DEF HostOnce, TwiceInv
  <2>5. GivenInv' BY <1>1, <2>1 DEF GivenInv, TwiceInv
  <2>6. DueInv'
    BY <1>1, <1>2, <2>1, <2>2, <2>3, FALSE \in BOOLEAN, DueConfirmed DEF TwiceInv
  <2> QED BY <1>3, <2>4, <2>5, <2>6 DEF TwiceInv
<1> QED BY <1>5, <1>6

LEMMA QueueTwice == ASSUME BaseInv, TwiceInv, ProcessQueue PROVE TwiceInv'
<1>1. /\ UNCHANGED <<ring, uart, loading, sending, taken, dropped, confs>>
      /\ pc = "queue"
  BY DEF ProcessQueue, receiver, chip, history
<1>2. /\ Ringing' = Ringing /\ AtLine' = AtLine /\ Coming' = Coming
      /\ RingOnce' /\ ConsOnce' /\ Distinct(dropped') /\ Frames(dropped') = Frames(dropped)
  BY <1>1 DEF Ringing, AtLine, Coming, RingOnce, ConsOnce, Confirms, TwiceInv, LineOnce, HostOnce
<1>3. CASE MaySend
  <2>1. /\ frame' = Head(queue) /\ queue' = Tail(queue) /\ tx' = "transmit" /\ begun' = FALSE
        /\ tx = "idle" /\ queue # <<>>
    BY <1>3 DEF ProcessQueue, MaySend
  <2>2. queue \in Seq(Frame) /\ Distinct(queue)
    BY DEF BaseInv, AllTypes, TransmitterType, TwiceInv, HostOnce
  <2>3. /\ Head(queue) \in Frame /\ Frames(queue) = Frames(queue') \union {Head(queue)}
        /\ Distinct(queue') /\ Head(queue) \notin Frames(queue')
    BY <2>1, <2>2, FramesOf, DistinctTail
  <2>4. Flying = {} /\ Flying' = {Head(queue)} /\ Writing = {} /\ Writing' = {Head(queue)}
    BY <2>1, <2>3 DEF Flying, Writing
  <2>5. Unsent' = Unsent /\ Owned' = Owned /\ OnLine' = OnLine
    BY <1>2, <2>3, <2>4 DEF Unsent, Owned, OnLine
  <2>6. HostOnce' BY <1>2, <2>3, <2>4 DEF HostOnce, TwiceInv
  <2>7. Head(queue) \in Unsent BY <2>3 DEF Unsent
  <2>8. LineOnce' BY <1>2, <2>4, <2>5, <2>7 DEF LineOnce, TwiceInv
  <2>9. GivenInv' BY <1>1, <2>1 DEF GivenInv, TwiceInv
  <2>10. DueInv' BY <1>1, <2>5, DueKept DEF TwiceInv
  <2> QED BY <2>6, <2>8, <2>9, <2>10 DEF TwiceInv
<1>4. CASE ~MaySend
  <2>1. UNCHANGED <<queue, frame, tx, begun>> BY <1>4 DEF ProcessQueue
  <2>2. /\ Flying' = Flying /\ Writing' = Writing /\ Unsent' = Unsent /\ Owned' = Owned
        /\ OnLine' = OnLine
    BY <1>2, <2>1 DEF Flying, Writing, Unsent, Owned, OnLine
  <2>3. HostOnce' /\ LineOnce' BY <1>2, <2>1, <2>2 DEF HostOnce, LineOnce, TwiceInv
  <2>4. GivenInv' BY <1>1, <2>1 DEF GivenInv, TwiceInv
  <2>5. DueInv' BY <1>1, <2>2, DueKept DEF TwiceInv
  <2> QED BY <2>3, <2>4, <2>5 DEF TwiceInv
<1> QED BY <1>3, <1>4

(* The last octet takes the frame that is written to the line, or it is    *)
(* not taken there.                                                        *)
LEMMA TransmitTwice ==
  ASSUME BaseInv, TwiceInv, TransmitStart \/ TransmitEnd
  PROVE  /\ TwiceInv'
         /\ TransmitEnd =>
              /\ tx = "transmit" /\ tx' = "await" /\ frame \in Frame /\ UNCHANGED <<frame, queue>>
              /\ sending' = sending \/ (sending = NoFrame /\ sending' = frame)
<1>1. /\ UNCHANGED <<pc, queue, frame, dropped, ring, uart, taken, confs>>
      /\ pc = "transmit" /\ tx = "transmit" /\ frame \in Frame /\ frame # NoFrame
  BY DEF TransmitStart, TransmitEnd, main, receiver, history, BaseInv, LiveInv
<1>2. /\ Ringing' = Ringing /\ Coming' = Coming /\ RingOnce' /\ ConsOnce'
      /\ Frames(queue') = Frames(queue) /\ Frames(dropped') = Frames(dropped)
      /\ Flying = {frame} /\ Writing = {frame}
  BY <1>1 DEF Ringing, Coming, RingOnce, ConsOnce, Confirms, TwiceInv, LineOnce, Flying, Writing
<1>3. CASE TransmitStart
  <2>1. tx' = tx /\ sending' = sending /\ loading' \in {NoFrame, frame}
        /\ (loading' # NoFrame => sending = NoFrame)
    BY <1>3 DEF TransmitStart
  <2>2. /\ Flying' = Flying /\ Writing' = Writing /\ Unsent' = Unsent /\ AtLine' = AtLine
        /\ Owned' = Owned /\ OnLine' = OnLine
    BY <1>1, <1>2, <2>1 DEF Flying, Writing, Unsent, AtLine, Owned, OnLine
  <2>3. HostOnce' /\ LineOnce' BY <1>1, <1>2, <2>2 DEF HostOnce, LineOnce, TwiceInv
  <2>4. GivenInv' BY <1>1, <2>1 DEF GivenInv, TwiceInv
  <2>5. DueInv' BY <1>1, <2>2, DueKept DEF TwiceInv
  <2>6. ~TransmitEnd BY <1>3 DEF TransmitStart, TransmitEnd
  <2> QED BY <2>3, <2>4, <2>5, <2>6 DEF TwiceInv
<1>4. CASE TransmitEnd
  <2>1. /\ tx' = "await" /\ begun /\ loading' = NoFrame
        /\ sending' = IF loading # NoFrame THEN loading ELSE sending
    BY <1>4 DEF TransmitEnd
  <2>2. sending' = sending \/ (sending = NoFrame /\ sending' = frame)
    BY <1>1, <2>1 DEF GivenInv, TwiceInv
  <2>3. Flying' = {frame} /\ Writing' = {} /\ Unsent' = Frames(queue) /\ Owned' = Owned
    BY <1>1, <1>2, <2>1 DEF Flying, Writing, Unsent, Owned
  <2>4. Unsent = Frames(queue) \union {frame} BY <1>2 DEF Unsent
  <2>5. AtLine' = AtLine \/ (AtLine = {} /\ AtLine' = {frame})
    BY <1>1, <2>2 DEF AtLine
  <2>6. OnLine' \subseteq OnLine BY <1>2, <2>3, <2>4, <2>5 DEF OnLine
  <2>7. frame \notin Frames(queue) BY <1>2 DEF HostOnce, TwiceInv
  <2>8. HostOnce' BY <1>1, <1>2, <2>3 DEF HostOnce, TwiceInv
  <2>9. LineOnce' BY <1>2, <2>3, <2>4, <2>5, <2>7 DEF LineOnce, TwiceInv
  <2>10. GivenInv' BY <1>1, <2>1 DEF GivenInv, TwiceInv
  <2>11. DueInv' BY <1>1, <2>3, <2>6, DueKept DEF TwiceInv
  <2> QED BY <1>1, <2>1, <2>2, <2>8, <2>9, <2>10, <2>11 DEF TwiceInv
<1> QED BY <1>3, <1>4

(* Nothing is dropped any more when the ring is read, and what it confirms *)
(* is no longer in flight.                                                 *)
LEMMA PopTwice ==
  ASSUME BaseInv, TwiceInv, ProcessRing
  PROVE  /\ TwiceInv'
         /\ Confirms(ring[1]) => ring[1].f \in Frame /\ ring[1].f \in OnLine /\ ring[1].f \notin Unsent
<1>1. UNCHANGED <<pc, queue, frame, tx, begun, dropped, uart, loading, sending, taken>>
      /\ pc \in {"ring", "resetRing"}
  BY DEF ProcessRing, transmitter, chip
<1>2. /\ Flying' = Flying /\ Writing' = Writing /\ Unsent' = Unsent /\ AtLine' = AtLine
      /\ Coming' = Coming /\ ConsOnce' /\ Owned' = Owned /\ GivenInv' /\ HostOnce'
  BY <1>1 DEF Flying, Writing, Unsent, AtLine, Coming, ConsOnce, Owned, GivenInv, HostOnce,
              TwiceInv, LineOnce
<1>3. Frames(dropped) = {}
  <2>1. dropped = <<>> BY <1>1 DEF GivenInv, TwiceInv
  <2> QED BY <2>1 DEF Frames
<1>4. RingOnce' /\ (Confirms(ring[1]) => ring[1].f \notin Ringing')
  BY RingOncePopped DEF TwiceInv, LineOnce
<1>5. IF Confirms(ring[1]) THEN Confirm(ring[1].f, ring[1].ok) ELSE confs' = confs
  BY Popped
<1>6. CASE ~Confirms(ring[1])
  <2>1. Ringing' = Ringing BY <1>6, RingingPopped
  <2>2. OnLine' = OnLine BY <1>2, <2>1 DEF OnLine
  <2>3. LineOnce' BY <1>2, <1>4, <2>1 DEF LineOnce, TwiceInv
  <2>4. DueInv' BY <1>1, <1>2, <1>5, <1>6, <2>2, DueKept DEF TwiceInv
  <2> QED BY <1>2, <1>6, <2>3, <2>4 DEF TwiceInv
<1>7. CASE Confirms(ring[1])
  <2> DEFINE f == ring[1].f  ok == ring[1].ok
  <2>1. f \in Frame /\ Ringing = Ringing' \union {f} /\ f \notin Ringing' /\ Confirm(f, ok)
    BY <1>4, <1>5, <1>7, RingingPopped
  <2>2. ok \in BOOLEAN
    <3>1. ring[1] \in Entries BY Popped
    <3> QED BY <3>1 DEF Entries
  <2> HIDE DEF f, ok
  <2>3. f \in OnLine /\ f \notin Unsent /\ OnLine' \subseteq OnLine /\ f \notin OnLine'
    BY <1>2, <2>1 DEF OnLine, LineOnce, TwiceInv
  <2>4. f \notin Owned
    BY <1>3, <2>1, <2>3 DEF Owned, Unsent, LineOnce, TwiceInv
  <2>5. LineOnce' BY <1>2, <1>4, <2>1 DEF LineOnce, TwiceInv
  <2>6. DueInv' BY <1>1, <1>2, <2>1, <2>2, <2>3, <2>4, DueConfirmed DEF TwiceInv
  <2> QED BY <1>2, <2>1, <2>3, <2>5, <2>6 DEF TwiceInv, f
<1> QED BY <1>6, <1>7

LEMMA ResetTwice == ASSUME BaseInv, TwiceInv, ResetLocked PROVE TwiceInv'
<1>1. /\ dropped' = dropped \o Unconfirmed \o queue /\ queue' = <<>> /\ tx' = "idle"
      /\ ring' = <<>> /\ uart' = <<>> /\ pc' = "report"
      /\ UNCHANGED <<taken, confs, loading, sending>>
  BY DEF ResetLocked
<1>2. /\ queue \in Seq(Frame) /\ dropped \in Seq(Frame) /\ Unconfirmed \in Seq(Frame)
      /\ Distinct(queue) /\ Distinct(dropped) /\ Distinct(Unconfirmed)
  BY UnconfirmedIs, DistinctUnconfirmed DEF BaseInv, AllTypes, TransmitterType, TwiceInv, HostOnce
<1>3. /\ Frames(dropped) \intersect Frames(Unconfirmed) = {}
      /\ (Frames(dropped) \union Flying) \intersect Frames(queue) = {}
  BY FramesUnconfirmed DEF TwiceInv, HostOnce
<1>4. Frames(dropped') = Frames(dropped) \union Flying \union Frames(queue) /\ Distinct(dropped')
  <2>1. /\ dropped \o Unconfirmed \in Seq(Frame)
        /\ Frames(dropped \o Unconfirmed) = Frames(dropped) \union Flying
        /\ Distinct(dropped \o Unconfirmed)
    BY <1>2, <1>3, FramesConcat, FramesUnconfirmed, DistinctConcat
  <2> QED BY <1>1, <1>2, <1>3, <2>1, FramesConcat, DistinctConcat
<1>5. /\ Frames(queue') = {} /\ Flying' = {} /\ Writing' = {} /\ Ringing' = {} /\ Coming' = {}
      /\ AtLine' = AtLine /\ Distinct(queue') /\ RingOnce' /\ ConsOnce'
  BY <1>1 DEF Frames, Flying, Writing, Ringing, Coming, AtLine, Distinct, RingOnce, ConsOnce
<1>6. Owned' = Owned /\ Unsent' = {} /\ OnLine' \subseteq OnLine
  BY <1>4, <1>5 DEF Owned, Unsent, OnLine
<1>7. HostOnce' /\ LineOnce' BY <1>4, <1>5, <1>6 DEF HostOnce, LineOnce
<1>8. GivenInv' BY <1>1 DEF GivenInv, TwiceInv
<1>9. DueInv' BY <1>1, <1>6, DueKept DEF TwiceInv
<1> QED BY <1>7, <1>8, <1>9 DEF TwiceInv

(* The echo that is held is that of the confirmation, so one frame leaves  *)
(* the line for the ring, and it leaves the flight as well.                *)
LEMMA HearTwice ==
  ASSUME BaseInv, TrueInv, TwiceInv, UartTask
  PROVE  TwiceInv' /\ (ReceiveCon => wait \in Coming)
<1>1. UNCHANGED <<pc, queue, frame, begun, dropped, taken, confs, loading, sending>>
      /\ tx' \in {tx, "idle"}
  BY HearKeeps DEF main, chip
<1>2. /\ Frames(queue') = Frames(queue) /\ Frames(dropped') = Frames(dropped)
      /\ Distinct(queue') /\ Distinct(dropped') /\ AtLine' = AtLine
      /\ Flying' \subseteq Flying /\ Writing' \subseteq Writing
  BY <1>1 DEF AtLine, Flying, Writing, TwiceInv, HostOnce
<1>3. Unsent' \subseteq Unsent /\ Owned' \subseteq Owned /\ HostOnce'
  BY <1>2 DEF Unsent, Owned, HostOnce, TwiceInv
<1>4. GivenInv' BY <1>1 DEF GivenInv, TwiceInv
<1>5. /\ ConsOnce' /\ Coming' \subseteq Coming
      /\ uart[1].kind = "con" => uart[1].f \in Coming /\ uart[1].f \notin Coming'
  BY ComingHeard DEF TwiceInv, LineOnce
<1>6. CASE ReceiveCon
  <2>1. wait \in Coming /\ wait \notin Coming' BY <1>5, <1>6, ConOfHeld
  <2>2. Ringing' \in {Ringing, Ringing \union {wait}} BY <1>6, RingingCon
  <2>3. wait \notin Ringing \union Unsent \union AtLine BY <2>1 DEF LineOnce, TwiceInv
  <2>4. RingOnce' BY <1>6, <2>3, RingOnceCon DEF LineOnce, TwiceInv
  <2>5. wait \notin Flying'
    <3>1. tx' = IF tx = "await" THEN "idle" ELSE tx BY <1>6 DEF ReceiveCon
    <3>2. tx \in {"idle", "transmit", "await"} BY DEF BaseInv, AllTypes, TransmitterType
    <3>3. tx' = "idle" \/ Flying \subseteq Unsent BY <3>1, <3>2 DEF Unsent, Writing, Flying
    <3> QED BY <1>2, <2>3, <3>3 DEF Flying
  <2>6. OnLine' \subseteq OnLine BY <1>2, <1>3, <1>5, <2>1, <2>2 DEF OnLine
  <2>7. LineOnce'
    BY <1>2, <1>3, <1>5, <2>1, <2>2, <2>3, <2>4, <2>5 DEF LineOnce, TwiceInv
  <2>8. DueInv' BY <1>1, <1>3, <2>6, DueKept DEF TwiceInv
  <2> QED BY <1>3, <1>4, <2>1, <2>7, <2>8 DEF TwiceInv
<1>7. CASE ~ReceiveCon
  <2>1. Plain BY <1>7, Heard
  <2>2. Ringing' = Ringing /\ RingOnce'
    BY <2>1, RingingPlain, RingOncePlain DEF LineOnce, TwiceInv
  <2>3. OnLine' \subseteq OnLine BY <1>2, <1>3, <1>5, <2>2 DEF OnLine
  <2>4. LineOnce' BY <1>2, <1>3, <1>5, <2>2 DEF LineOnce, TwiceInv
  <2>5. DueInv' BY <1>1, <1>3, <2>3, DueKept DEF TwiceInv
  <2> QED BY <1>3, <1>4, <1>7, <2>4, <2>5 DEF TwiceInv
<1> QED BY <1>6, <1>7

(* What the chip does to the frame it has, and says of it.                 *)
LEMMA ChipGives ==
  ASSUME BaseInv, ChipStep
  PROVE  /\ loading' \in {loading, NoFrame} /\ sending' \in {sending, NoFrame}
         /\ \/ uart' = uart
            \/ \E t \in Tokens : Says(t) /\ t.kind # "con"
            \/ \E t \in Tokens : /\ Says(t) /\ t.kind = "con"
                                 /\ t.f = sending /\ sending # NoFrame /\ sending' = NoFrame
<1>1. sending \in FrameOrNone BY DEF BaseInv, AllTypes, ChipType
<1>2. \A k \in {"state", "frame", "reset", "noise"} : Token(k) \in Tokens /\ Token(k).kind # "con"
  BY DEF Token, Tokens
<1>3. Echo(sending) \in Tokens /\ Echo(sending).kind # "con"
  BY <1>1 DEF Echo, Tokens, FrameOrNone
<1>4. \A ok \in BOOLEAN :
        Con(sending, ok) \in Tokens /\ Con(sending, ok).kind = "con" /\ Con(sending, ok).f = sending
  BY <1>1 DEF Con, Tokens, FrameOrNone
<1> HIDE DEF Tokens
<1>5. CASE \E again \in BOOLEAN : ChipEchoes(again) BY <1>3, <1>5 DEF ChipEchoes
<1>6. CASE \E ok \in BOOLEAN : ChipConfirms(ok) BY <1>4, <1>6 DEF ChipConfirms
<1>7. CASE ChipState \/ LineFrame BY <1>2, <1>7 DEF ChipState, LineFrame, chip
<1>8. CASE ChipRestarts \/ ChipUp BY <1>2, <1>8 DEF ChipRestarts, ChipUp
<1>9. CASE ChipDown BY <1>9 DEF ChipDown
<1>10. CASE Noise BY <1>2, <1>10 DEF Noise, chip
<1> QED BY <1>5, <1>6, <1>7, <1>8, <1>9, <1>10 DEF ChipStep

LEMMA ChipTwice == ASSUME BaseInv, TwiceInv, ChipStep PROVE TwiceInv'
<1>1. UNCHANGED <<pc, queue, frame, tx, begun, dropped, ring, taken, confs>>
  BY ChipSays DEF main, transmitter, receiver, BaseInv, AllTypes
<1>2. /\ loading' \in {loading, NoFrame} /\ sending' \in {sending, NoFrame}
  BY ChipGives
<1>3. /\ Flying' = Flying /\ Writing' = Writing /\ Unsent' = Unsent /\ Ringing' = Ringing
      /\ Owned' = Owned /\ RingOnce' /\ HostOnce' /\ AtLine' \subseteq AtLine
  BY <1>1, <1>2 DEF Flying, Writing, Unsent, Ringing, Owned, RingOnce, HostOnce, AtLine, Confirms,
                    TwiceInv, LineOnce
<1>4. GivenInv' BY <1>1, <1>2 DEF GivenInv, TwiceInv
<1>5. ConsOnce' /\ (Coming' = Coming \/ (Coming' = Coming \union AtLine /\ AtLine' = {}))
  <2>1. CASE uart' = uart BY <2>1 DEF ConsOnce, Coming, TwiceInv, LineOnce
  <2>2. ASSUME NEW t \in Tokens, Says(t), t.kind # "con" PROVE ConsOnce' /\ Coming' = Coming
    BY <2>2, ComingSaid DEF TwiceInv, LineOnce
  <2>3. ASSUME NEW t \in Tokens, Says(t), t.kind = "con", t.f = sending, sending # NoFrame,
               sending' = NoFrame
        PROVE  ConsOnce' /\ Coming' = Coming \union AtLine /\ AtLine' = {}
    <3>1. AtLine = {sending} /\ AtLine' = {} BY <2>3 DEF AtLine
    <3>2. t.f \notin Coming BY <2>3, <3>1 DEF TwiceInv, LineOnce
    <3> QED BY <2>3, <3>1, <3>2, ComingSaid DEF TwiceInv, LineOnce
  <2> QED BY <2>1, <2>2, <2>3, ChipGives
<1>6. OnLine' \subseteq OnLine BY <1>3, <1>5 DEF OnLine
<1>7. LineOnce' BY <1>3, <1>5 DEF LineOnce, TwiceInv
<1>8. DueInv' BY <1>1, <1>3, <1>6, DueKept DEF TwiceInv
<1> QED BY <1>3, <1>4, <1>7, <1>8 DEF TwiceInv

LEMMA TwiceNext == BaseInv /\ TrueInv /\ TwiceInv /\ [Next]_vars => TwiceInv'
BY Steps, SendTwice, RestTwice, DropTwice, ReportTwice, QueueTwice, TransmitTwice, PopTwice,
   ResetTwice, HearTwice, ChipTwice

LEMMA TwiceInit == Init => TwiceInv
<1> SUFFICES ASSUME Init PROVE TwiceInv OBVIOUS
<1>1. /\ queue = <<>> /\ dropped = <<>> /\ ring = <<>> /\ uart = <<>> /\ frame = NoFrame
      /\ tx = "idle" /\ taken = {} /\ confs = [f \in Frame |-> <<>>]
      /\ loading = NoFrame /\ sending = NoFrame
  BY DEF Init
<1>2. /\ Frames(queue) = {} /\ Frames(dropped) = {} /\ Ringing = {} /\ Coming = {} /\ Flying = {}
      /\ Writing = {} /\ AtLine = {}
      /\ Distinct(queue) /\ Distinct(dropped) /\ RingOnce /\ ConsOnce
  BY <1>1 DEF Frames, Ringing, Coming, Flying, Writing, AtLine, Distinct, RingOnce, ConsOnce
<1>3. Unsent = {} /\ Owned = {} /\ OnLine = {} BY <1>2 DEF Unsent, Owned, OnLine
<1>4. HostOnce /\ LineOnce BY <1>2, <1>3 DEF HostOnce, LineOnce
<1>5. GivenInv BY <1>1 DEF GivenInv
<1>6. DueInv
  <2>1. \A f \in Frame : confs[f] = <<>> BY <1>1
  <2>2. Twice(<<>>) BY DEF Twice
  <2> QED BY <1>3, <2>1, <2>2 DEF DueInv
<1> QED BY <1>4, <1>5, <1>6 DEF TwiceInv

-----------------------------------------------------------------------------
(* Every step is one of LineContract or none.                              *)

LineStep == Line!Next \/ UNCHANGED Line!vars

LEMMA WaitingSame ==
  ASSUME UNCHANGED <<queue, frame>>, tx' = tx \/ (tx # "transmit" /\ tx' # "transmit")
  PROVE  Waiting' = Waiting
BY DEF Waiting

LEMMA SendImplements ==
  ASSUME BaseInv, TwiceInv, NEW f \in Frame, SendFrame(f)
  PROVE  LineStep
<1>1. /\ f \notin taken /\ taken' = taken \union {f}
      /\ UNCHANGED <<frame, tx, sending, acked, lost, downs>>
  BY DEF SendFrame, chip, bounds
<1>2. CASE queue' = Append(queue, f) /\ confs' = confs
  <2>1. queue \in Seq(Frame) /\ frame \in FrameOrNone
    BY DEF BaseInv, AllTypes, TransmitterType
  <2> DEFINE r == IF tx = "transmit" /\ frame # NoFrame THEN <<frame>> ELSE <<>>
  <2>2. r \in Seq(Frame) BY <2>1 DEF FrameOrNone
  <2>3. Waiting = r \o queue /\ Waiting' = r \o Append(queue, f)
    BY <1>1, <1>2 DEF Waiting
  <2> HIDE DEF r
  <2>4. Waiting' = Append(Waiting, f) BY <2>1, <2>2, <2>3, AppendAfter
  <2>5. Line!Accept(f) BY <1>1, <1>2, <2>4 DEF Line!Accept
  <2> QED BY <2>5 DEF LineStep, Line!Next
<1>3. CASE queue' = queue /\ Confirm(f, FALSE)
  <2>1. Waiting' = Waiting BY <1>1, <1>3, WaitingSame
  <2>2. confs[f] = <<>> BY <1>1 DEF TwiceInv, DueInv
  <2>3. Append(confs[f], FALSE) = <<FALSE>> BY <2>2, TwiceShort
  <2>4. confs' = [confs EXCEPT ![f] = <<FALSE>>] BY <1>3, <2>3 DEF Confirm
  <2>5. Line!Refuse(f) BY <1>1, <2>1, <2>4 DEF Line!Refuse
  <2> QED BY <2>5 DEF LineStep, Line!Next
<1> QED BY <1>2, <1>3 DEF SendFrame

LEMMA RestImplements ==
  ASSUME BaseInv, Bookkeeping \/ TransmitStart \/ UNCHANGED vars
  PROVE  LineStep
<1>1. UNCHANGED <<queue, frame, tx, sending, taken, acked, confs, lost, downs>>
  BY BookkeepingKeeps
     DEF TransmitStart, vars, transmitter, chip, history, bounds, BaseInv, AllTypes
<1>2. Waiting' = Waiting BY <1>1, WaitingSame
<1> QED BY <1>1, <1>2 DEF LineStep, Line!vars

LEMMA NotWaitingNext == BaseInv' => Line!NotWaiting' = taken' \ Unsent'
<1> DEFINE Waits == Line!NotWaiting = taken \ Unsent
<1>1. BaseInv => Waits BY WaitingIs
<1>2. BaseInv' => Waits'
  <2> HIDE DEF Waits
  <2> QED BY <1>1, PTL
<1> QED BY <1>2

(* Frames are given up, and confirmations of others lost.                  *)
LEMMA GivesUp ==
  ASSUME BaseInv', UNCHANGED <<taken, sending, acked, confs, downs>>,
         Waiting' \in {Waiting, <<>>} \/ (Waiting # <<>> /\ Waiting' = Tail(Waiting)),
         lost \subseteq lost', lost' \ lost \subseteq taken, (lost' \ lost) \intersect Unsent' = {}
  PROVE  LineStep
<1>1. Line!NotWaiting' = taken' \ Unsent' BY NotWaitingNext
<1>2. lost' \ lost \in SUBSET (Line!NotWaiting') /\ lost' = lost \union (lost' \ lost)
  BY <1>1
<1>3. Line!GiveUp BY <1>2 DEF Line!GiveUp
<1> QED BY <1>3 DEF LineStep, Line!Next

LEMMA DropImplements ==
  ASSUME BaseInv, BaseInv', DropFrame \/ DropQueue
  PROVE  LineStep
<1>1. UNCHANGED <<sending, taken, acked, confs, lost, downs>>
  BY DEF DropFrame, DropQueue, chip, history, bounds
<1>2. Waiting' \in {Waiting, <<>>} \/ (Waiting # <<>> /\ Waiting' = Tail(Waiting))
  <2>1. CASE DropFrame
    <3>1. frame' = NoFrame /\ queue' = queue BY <2>1 DEF DropFrame
    <3>2. Waiting' = queue BY <3>1, WaitingIs, ConcatEmptySeq DEF Waiting
    <3> QED BY <3>2, WaitingIs
  <2>2. CASE DropQueue
    <3>1. queue' = <<>> /\ tx' = "idle" BY <2>2 DEF DropQueue
    <3>2. Waiting' = <<>> \o <<>> BY <3>1 DEF Waiting
    <3>3. Waiting' = <<>> BY <3>2
    <3> QED BY <3>3
  <2> QED BY <2>1, <2>2
<1> QED BY <1>1, <1>2, GivesUp

LEMMA QueueImplements == ASSUME BaseInv, ProcessQueue PROVE LineStep
<1>1. UNCHANGED <<sending, taken, acked, confs, lost, downs>>
  BY DEF ProcessQueue, chip, history, bounds
<1>2. queue \in Seq(Frame) BY DEF BaseInv, AllTypes, TransmitterType
<1>3. Waiting' = Waiting
  <2>1. CASE MaySend
    <3>1. /\ frame' = Head(queue) /\ queue' = Tail(queue) /\ tx' = "transmit"
          /\ tx = "idle" /\ queue # <<>>
      BY <2>1 DEF ProcessQueue, MaySend
    <3>2. Head(queue) \in Frame BY <1>2, <3>1, FramesOf
    <3>3. Waiting' = <<Head(queue)>> \o Tail(queue) BY <3>1, <3>2 DEF Waiting
    <3>4. Waiting = queue BY <3>1, WaitingIs
    <3> QED BY <1>2, <3>1, <3>3, <3>4, FrontAndRest
  <2>2. CASE ~MaySend
    <3>1. UNCHANGED <<queue, frame, tx>> BY <2>2 DEF ProcessQueue
    <3> QED BY <3>1, WaitingSame
  <2> QED BY <2>1, <2>2
<1> QED BY <1>1, <1>3 DEF LineStep, Line!vars

(* The chip gets the first frame that waits, or ignores it.                *)
LEMMA GiveImplements ==
  ASSUME BaseInv, BaseInv', TwiceInv, TransmitEnd
  PROVE  LineStep
<1>1. UNCHANGED <<taken, acked, confs, lost, downs>>
  BY DEF TransmitEnd, history, bounds
<1>2. /\ tx = "transmit" /\ tx' = "await" /\ frame \in Frame /\ UNCHANGED <<frame, queue>>
      /\ sending' = sending \/ (sending = NoFrame /\ sending' = frame)
  BY TransmitTwice
<1>3. /\ Waiting # <<>> /\ Head(Waiting) = frame /\ Tail(Waiting) = queue
  BY <1>2, WaitingIs
<1>4. Waiting' = queue
  <2>1. Waiting' = <<>> \o queue BY <1>2 DEF Waiting
  <2> QED BY <2>1, WaitingIs, ConcatEmptySeq
<1>5. CASE sending' = sending
  BY <1>1, <1>3, <1>4, <1>5, GivesUp
<1>6. CASE sending = NoFrame /\ sending' = frame
  <2>1. Line!Give BY <1>1, <1>3, <1>4, <1>6 DEF Line!Give
  <2> QED BY <2>1 DEF LineStep, Line!Next
<1> QED BY <1>2, <1>5, <1>6

(* A confirmation: the second only after a restart of the chip, and to a   *)
(* negative one.                                                           *)
LEMMA ConfirmImplements ==
  ASSUME BaseInv, BaseInv', TwiceInv, TwiceInv', OneConWithoutRestart',
         NEW f \in Frame, NEW ok \in BOOLEAN, Confirm(f, ok),
         f \in taken, f \notin Unsent, ok => f \in acked,
         UNCHANGED <<queue, frame, tx, sending, taken, acked, lost, downs>>
  PROVE  LineStep
<1>1. Waiting' = Waiting BY WaitingSame
<1>2. f \in Line!NotWaiting BY WaitingIs
<1>3. /\ confs[f] \in Seq(BOOLEAN) /\ confs'[f] = Append(confs[f], ok)
  BY ConfirmType DEF BaseInv, AllTypes, HistoryType
<1>4. Twice(Append(confs[f], ok))
  <2>1. Twice(confs'[f]) BY DEF TwiceInv, DueInv, Twice
  <2> QED BY <1>3, <2>1
<1>5. confs[f] = <<>> \/ (confs[f] = <<FALSE>> /\ Len(Append(confs[f], ok)) = 2)
  BY <1>3, <1>4, TwiceLonger
<1>6. Len(confs'[f]) = 2 => downs > 0
  <2>1. downs = 0 => Len(confs'[f]) <= 1 BY DEF OneConWithoutRestart, AtMostOneCon
  <2>2. downs \in Nat BY DEF BaseInv, AllTypes, BoundType
  <2> QED BY <2>1, <2>2
<1>7. Line!Confirm(f, ok)
  BY <1>1, <1>2, <1>3, <1>5, <1>6 DEF Line!Confirm, Confirm
<1> QED BY <1>7 DEF LineStep, Line!Next

(* What was dropped is confirmed negatively.                               *)
LEMMA ReportImplements ==
  ASSUME BaseInv, BaseInv', TwiceInv, TwiceInv', OneConWithoutRestart', ReportDropped
  PROVE  LineStep
<1>1. UNCHANGED <<queue, frame, tx, sending, taken, acked, lost, downs>>
  BY DEF ReportDropped, chip, bounds
<1>2. CASE dropped = <<>>
  <2>1. confs' = confs BY <1>2 DEF ReportDropped
  <2>2. Waiting' = Waiting BY <1>1, WaitingSame
  <2> QED BY <1>1, <2>1, <2>2 DEF LineStep, Line!vars
<1>3. CASE dropped # <<>>
  <2> DEFINE f == Head(dropped)
  <2>1. Confirm(f, FALSE) BY <1>3 DEF ReportDropped
  <2>2. f \in Frame /\ f \in Frames(dropped)
    BY <1>3, FramesOf DEF BaseInv, AllTypes, TransmitterType
  <2> HIDE DEF f
  <2>3. f \in taken BY <2>2 DEF Owned, DueInv, TwiceInv
  <2>4. f \notin Unsent
    BY <2>2 DEF Unsent, Writing, HostOnce, TwiceInv
  <2> QED BY <1>1, <2>1, <2>2, <2>3, <2>4, FALSE \in BOOLEAN, ConfirmImplements
<1> QED BY <1>2, <1>3

(* What the ring brings is confirmed as it says.                           *)
LEMMA PopImplements ==
  ASSUME BaseInv, BaseInv', TrueInv, TwiceInv, TwiceInv', OneConWithoutRestart', ProcessRing
  PROVE  LineStep
<1>1. UNCHANGED <<queue, frame, tx, sending, taken, acked, lost, downs>>
  BY DEF ProcessRing, transmitter, chip, bounds
<1>2. /\ IF Confirms(ring[1]) THEN Confirm(ring[1].f, ring[1].ok) ELSE confs' = confs
      /\ ring[1] \in Entries /\ 1 \in 1 .. Len(ring)
  BY Popped
<1>3. CASE ~Confirms(ring[1])
  <2>1. confs' = confs BY <1>2, <1>3
  <2>2. Waiting' = Waiting BY <1>1, WaitingSame
  <2> QED BY <1>1, <2>1, <2>2 DEF LineStep, Line!vars
<1>4. CASE Confirms(ring[1])
  <2> DEFINE f == ring[1].f  ok == ring[1].ok
  <2>1. Confirm(f, ok) BY <1>2, <1>4
  <2>2. f \in Frame /\ f \in OnLine /\ f \notin Unsent BY <1>4, PopTwice
  <2>3. ok \in BOOLEAN BY <1>2 DEF Entries
  <2>4. ok => f \in acked BY <1>2, <1>4 DEF TrueInv
  <2> HIDE DEF f, ok
  <2>5. f \in taken BY <2>2 DEF DueInv, TwiceInv
  <2> QED BY <1>1, <2>1, <2>2, <2>3, <2>4, <2>5, ConfirmImplements
<1> QED BY <1>3, <1>4

(* DataLinkLayer::reset gives all up and loses what is in the ring.        *)
LEMMA ResetImplements ==
  ASSUME BaseInv, BaseInv', TwiceInv, ResetLocked
  PROVE  LineStep
<1>1. /\ queue' = <<>> /\ tx' = "idle"
      /\ lost' = lost \union {ring[i].f : i \in {k \in DOMAIN ring : Confirms(ring[k])}}
      /\ UNCHANGED <<taken, sending, acked, confs, downs>>
  BY DEF ResetLocked, bounds
<1>2. lost' = lost \union Ringing
  <2>1. DOMAIN ring = 1 .. Len(ring)
    BY LenProperties DEF BaseInv, AllTypes, ReceiverType
  <2> QED BY <1>1, <2>1 DEF Ringing
<1>3. Waiting' = <<>>
  <2>1. Waiting' = <<>> \o <<>> BY <1>1 DEF Waiting
  <2> QED BY <2>1
<1>4. Unsent' = {} BY <1>1 DEF Unsent, Writing, Frames
<1>5. Ringing \subseteq taken BY DEF OnLine, DueInv, TwiceInv
<1>6. /\ lost \subseteq lost' /\ lost' \ lost \subseteq taken
      /\ (lost' \ lost) \intersect Unsent' = {}
  BY <1>2, <1>4, <1>5
<1> QED BY <1>1, <1>3, <1>6, GivesUp

(* A confirmation is lost with the echo it belongs to, or with the frame   *)
(* in flight it was not meant for.                                         *)
LEMMA HearLoses ==
  ASSUME BaseInv, UartTask
  PROVE  /\ lost \subseteq lost'
         /\ lost' \ lost \subseteq (IF ReceiveCon THEN {wait} ELSE {})
                                     \union (IF tx = "await" THEN {frame} ELSE {})
         /\ tx = "await" => frame \in Frame
<1> HIDE DEF Entries
<1>1. /\ tx = "await" => frame \in Frame
      /\ ReceiverType /\ HistoryType /\ LiveInv
  BY DEF BaseInv, AllTypes, LiveInv, UartTask, RxLocked
<1>2. CASE ReceiveCon
  <2> DEFINE e == Entry(wait, TRUE, TRUE, uart[1].ok)
             u == IF tx = "await" /\ frame # wait THEN {frame} ELSE {}
  <2>1. /\ wait \in Frame /\ uart[1].ok \in BOOLEAN /\ Head(uart) = uart[1]
    BY <1>2, HearsIs, RingingCon DEF BaseInv, AllTypes, Tokens
  <2>2. Pushed(<<e>>, u) BY <1>2, <2>1 DEF ReceiveCon
  <2>3. e \in Entries /\ e.f = wait
    <3>1. wait \in FrameOrNone /\ TRUE \in BOOLEAN BY <2>1 DEF FrameOrNone
    <3> QED BY <2>1, <3>1, EntryType
  <2>4. u \subseteq Frame BY <1>1
  <2> HIDE DEF e, u
  <2>5. <<e>> \in Seq(Entries) /\ Len(<<e>>) = 1 /\ <<e>>[1] = e BY <2>3
  <2>6. \A i \in 1 .. Len(<<e>>) : <<e>>[i] = e BY <2>5
  <2>7. /\ lost \union u \subseteq lost'
        /\ lost' \subseteq lost \union u \union
             {<<e>>[i].f : i \in {k \in 1 .. Len(<<e>>) :
                                    Confirms(<<e>>[k]) /\ Len(ring) + k > RingMax}}
    BY <1>1, <2>1, <2>2, <2>3, <2>4, <2>5, <2>6, PushedIs
  <2>8. \A i \in 1 .. Len(<<e>>) : <<e>>[i].f = wait BY <2>3, <2>6
  <2> HIDE DEF Confirms
  <2>9. lost \subseteq lost' /\ lost' \subseteq lost \union u \union {wait}
    BY <2>7, <2>8
  <2>10. u \subseteq IF tx = "await" THEN {frame} ELSE {} BY DEF u
  <2> QED BY <1>1, <1>2, <2>9, <2>10
<1>3. CASE ~ReceiveCon
  <2>1. lost' = lost \/ ReceiveState \/ ReceiveOrphanCon BY <1>3, Heard
  <2> QED BY <1>1, <1>3, <2>1 DEF ReceiveState, ReceiveOrphanCon
<1> QED BY <1>2, <1>3

LEMMA HearImplements ==
  ASSUME BaseInv, BaseInv', TrueInv, TwiceInv, UartTask
  PROVE  LineStep
<1>1. /\ UNCHANGED <<queue, frame, sending, taken, confs, acked, downs>>
      /\ tx' \in {tx, "idle"}
  BY HearKeeps DEF chip, bounds
<1>2. tx' = tx \/ tx = "await"
  BY DEF UartTask, ReceiveState, ReceiveCon, ReceiveOrphanCon, ReceiveOwnEcho, ReceiveFrame,
         ReceiveControl
<1>3. Waiting' = Waiting BY <1>1, <1>2, WaitingSame
<1>4. Unsent' \subseteq Unsent BY <1>1 DEF Unsent, Writing, Flying
<1>5. ReceiveCon => wait \in taken /\ wait \notin Unsent
  BY HearTwice DEF OnLine, DueInv, LineOnce, TwiceInv
<1>6. tx = "await" => frame \in taken /\ frame \notin Unsent
  <2> SUFFICES ASSUME tx = "await" PROVE frame \in taken /\ frame \notin Unsent
    OBVIOUS
  <2>1. frame \in Frame /\ frame # NoFrame BY HearLoses, FrameAssumption
  <2>2. Flying = {frame} /\ Unsent = Frames(queue) BY <2>1 DEF Flying, Unsent, Writing
  <2> QED BY <2>2 DEF Owned, DueInv, HostOnce, TwiceInv
<1>7. /\ lost \subseteq lost' /\ lost' \ lost \subseteq taken
      /\ (lost' \ lost) \intersect Unsent' = {}
  BY <1>4, <1>5, <1>6, HearLoses
<1> QED BY <1>1, <1>3, <1>7, GivesUp

(* Only the confirmation and the restarts of the chip are seen outside.    *)
LEMMA ChipImplements == ASSUME BaseInv, ChipStep PROVE LineStep
<1>1. UNCHANGED <<queue, frame, tx, taken, confs, lost>>
  BY ChipSays DEF transmitter, receiver, BaseInv, AllTypes
<1>2. Waiting' = Waiting BY <1>1, WaitingSame
<1>3. CASE \E ok \in BOOLEAN : ChipConfirms(ok)
  <2> PICK ok \in BOOLEAN : ChipConfirms(ok) BY <1>3
  <2>1. /\ sending # NoFrame /\ sending' = NoFrame /\ downs' = downs
        /\ acked' = IF ok THEN acked \union {sending} ELSE acked
    BY DEF ChipConfirms, bounds
  <2>2. Line!Carry(ok) BY <1>1, <1>2, <2>1 DEF Line!Carry
  <2> QED BY <2>2 DEF LineStep, Line!Next
<1>4. CASE ChipRestarts
  <2>1. sending' = NoFrame /\ acked' = acked /\ downs' = downs
    BY <1>4 DEF ChipRestarts, bounds
  <2>2. Line!Forget BY <1>1, <1>2, <2>1 DEF Line!Forget
  <2> QED BY <2>2 DEF LineStep, Line!Next
<1>5. CASE ChipDown
  <2>1. sending' = NoFrame /\ acked' = acked /\ downs' = downs + 1
    BY <1>5 DEF ChipDown
  <2>2. downs' > 0 BY <2>1 DEF BaseInv, AllTypes, BoundType
  <2>3. (downs' > 0) = TRUE BY <2>2
  <2>4. Line!Forget BY <1>1, <1>2, <2>1, <2>3 DEF Line!Forget
  <2> QED BY <2>4 DEF LineStep, Line!Next
<1>6. CASE UNCHANGED <<sending, acked, downs>>
  BY <1>1, <1>2, <1>6 DEF LineStep, Line!vars
<1>7. \/ \E ok \in BOOLEAN : ChipConfirms(ok)
      \/ ChipRestarts \/ ChipDown \/ UNCHANGED <<sending, acked, downs>>
  BY DEF ChipStep, ChipEchoes, ChipState, LineFrame, ChipUp, Noise, chip, bounds
<1> QED BY <1>3, <1>4, <1>5, <1>6, <1>7

LEMMA LineNext ==
  BaseInv /\ BaseInv' /\ TrueInv /\ TwiceInv /\ TwiceInv' /\ OneConWithoutRestart' /\ [Next]_vars
    => LineStep
BY Steps, SendImplements, RestImplements, DropImplements, ReportImplements, QueueImplements,
   GiveImplements, PopImplements, ResetImplements, HearImplements, ChipImplements

LEMMA LineInit == Init => Line!Init
<1> SUFFICES ASSUME Init PROVE Line!Init
  OBVIOUS
<1>1. /\ queue = <<>> /\ tx = "idle" /\ sending = NoFrame /\ taken = {} /\ acked = {} /\ lost = {}
      /\ confs = [f \in Frame |-> <<>>] /\ downs = 0
  BY DEF Init
<1>2. Waiting = <<>> \o <<>> BY <1>1 DEF Waiting
<1>3. Waiting = <<>> BY <1>2
<1>4. (downs > 0) = FALSE BY <1>1
<1> QED BY <1>1, <1>3, <1>4 DEF Line!Init

(* Queue, write, echo and confirmation, the two resets and the recovery    *)
(* implement LineContract.                                                 *)
THEOREM ContractKept == Spec => ImplementsLineContract
<1> DEFINE Inv == BaseInv /\ TrueInv /\ TwiceInv
<1>1. Inv /\ [Next]_vars => Inv' BY BaseNext, TrueNext, TwiceNext
<1>2. Init => Inv BY BaseInit, TrueInit, TwiceInit
<1>3. Inv /\ Inv' /\ OneConWithoutRestart' /\ [Next]_vars => [Line!Next]_(Line!vars)
  BY LineNext DEF LineStep
<1>4. Init => Line!Init BY LineInit
<1> HIDE DEF Inv
<1> QED BY <1>1, <1>2, <1>3, <1>4, ConOnceWithoutRestart, PTL DEF Spec, Line!Spec, ImplementsLineContract

-----------------------------------------------------------------------------
(* The link to the chip, TpLink: the other half of the same driver.  What  *)
(* both modules name alike is the same object of the program, and TpLink   *)
(* counts the tokens on the serial line in its own way; here it is for     *)
(* itself, and the theorems are about its behaviours.                      *)
CONSTANT
  AskMax        \* bound: requests the chip has not yet served

VARIABLES
  regPending,   \* _regReadPending
  recent,       \* within TPUART_REGREAD_QUIET_MS of _lastHostRequestAt
  early,        \* history: the read was armed before the chip restarted
  rx,           \* what the search buffer holds
  feeding       \* how much of a frame the chip has passed on

Link == INSTANCE TpLink

(* What travels: tokens from the chip, requests to it, and the tokens that *)
(* announce whether frames carry a CRC.                                    *)
LinkToken == {"head", "body", "crc", "noise", "reset", "conf", "state", "reg"}
LinkRequest == {"reset", "configure", "state", "read"}
Announcement == {"reset", "conf"}

(* What a host that believes h of the CRC now believes once it has         *)
(* received the tokens u.                                                  *)
Believes(u, h, crc) ==
  \/ /\ \A i \in 1 .. Len(u) : u[i] \notin Announcement
     /\ h = crc
  \/ \E i \in 1 .. Len(u) :
       /\ u[i] \in Announcement
       /\ \A j \in 1 .. Len(u) : j > i => u[j] \notin Announcement
       /\ crc = (u[i] = "conf")

(* With the tokens u and the requests a on their way, the answer to a      *)
(* register read comes, unless the chip is down, and no U_Configure.ind    *)
(* comes before it.                                                        *)
AnswerFirst(u, a, supplied) ==
  /\ supplied => (\E i \in 1 .. Len(u) : u[i] = "reg") \/ (\E i \in 1 .. Len(a) : a[i] = "read")
  /\ \A i \in 1 .. Len(u) : u[i] = "conf" => \E j \in 1 .. i - 1 : u[j] = "reg"
  /\ \A i \in 1 .. Len(a) : a[i] = "configure" =>
       \/ \E j \in 1 .. Len(u) : u[j] = "reg"
       \/ \E j \in 1 .. i - 1 : a[j] = "read"

TokenTypes ==
  /\ uart \in Seq(LinkToken) /\ asked \in Seq(LinkRequest)
  /\ hostCrc \in BOOLEAN /\ chipCrc \in BOOLEAN

(* Host and chip agree on the CRC once what is on its way has arrived, but *)
(* for what was missed or is to be reset.                                  *)
LinkInv ==
  /\ TokenTypes
  /\ ~up => asked = <<>>
  /\ ~recent => \A i \in 1 .. Len(asked) : asked[i] = "read"
  /\ pc = "resetLock" => ~regPending
  /\ regPending /\ ~early => AnswerFirst(uart, asked, up)
  /\ up /\ ~missed =>
       Believes(uart, hostCrc, chipCrc) \/ \E i \in 1 .. Len(asked) : asked[i] = "reset"

-----------------------------------------------------------------------------
(* What is on its way.                                                     *)

(* One more at the end.                                                    *)
LEMMA AtEnd ==
  ASSUME NEW T, NEW s \in Seq(T), NEW x \in T
  PROVE  /\ Append(s, x) \in Seq(T) /\ Len(Append(s, x)) = Len(s) + 1
         /\ Len(s) \in Nat
         /\ Append(s, x)[Len(s) + 1] = x
         /\ \A i \in 1 .. Len(s) : Append(s, x)[i] = s[i]
OBVIOUS

(* One less in front.                                                      *)
LEMMA InFront ==
  ASSUME NEW T, NEW s \in Seq(T), s # <<>>
  PROVE  /\ Tail(s) \in Seq(T) /\ Len(Tail(s)) = Len(s) - 1
         /\ Len(s) \in Nat /\ Len(s) >= 1
         /\ Head(s) = s[1] /\ s[1] \in T
         /\ \A i \in 1 .. Len(s) - 1 : Tail(s)[i] = s[i + 1]
         /\ \A i \in 2 .. Len(s) : Tail(s)[i - 1] = s[i]
OBVIOUS

(* An announcement is believed, ...                                        *)
LEMMA AnnouncedLast ==
  ASSUME NEW u \in Seq(LinkToken), NEW x \in Announcement, NEW h
  PROVE  Believes(Append(u, x), h, x = "conf")
<1> DEFINE v == Append(u, x)
<1>1. /\ Len(v) = Len(u) + 1 /\ Len(u) \in Nat /\ v[Len(u) + 1] = x
  BY AtEnd DEF Announcement, LinkToken
<1> HIDE DEF v
<1>2. Len(u) + 1 \in 1 .. Len(v) /\ \A j \in 1 .. Len(v) : ~(j > Len(u) + 1)
  BY <1>1
<1> QED BY <1>1, <1>2 DEF Believes, v

(* ... and nothing else changes what is.                                   *)
LEMMA OtherLast ==
  ASSUME NEW u \in Seq(LinkToken), NEW x \in LinkToken \ Announcement, NEW h, NEW crc,
         Believes(u, h, crc)
  PROVE  Believes(Append(u, x), h, crc)
<1> DEFINE v == Append(u, x)
<1>1. /\ Len(v) = Len(u) + 1 /\ Len(u) \in Nat /\ v[Len(u) + 1] = x
      /\ \A i \in 1 .. Len(u) : v[i] = u[i]
  BY AtEnd
<1> HIDE DEF v
<1>2. \A i \in 1 .. Len(v) : i \in 1 .. Len(u) \/ i = Len(u) + 1
  BY <1>1
<1>3. \A i \in 1 .. Len(u) : i \in 1 .. Len(v)
  BY <1>1
<1>4. CASE h = crc /\ \A i \in 1 .. Len(u) : u[i] \notin Announcement
  BY <1>1, <1>2, <1>4 DEF Believes, v
<1>5. ASSUME NEW i \in 1 .. Len(u), u[i] \in Announcement, crc = (u[i] = "conf"),
             \A j \in 1 .. Len(u) : j > i => u[j] \notin Announcement
      PROVE  Believes(v, h, crc)
  <2>1. i \in 1 .. Len(v) /\ v[i] = u[i]
    BY <1>1, <1>3
  <2>2. \A j \in 1 .. Len(v) : j > i => v[j] \notin Announcement
    BY <1>1, <1>2, <1>5
  <2> QED BY <1>5, <2>1, <2>2 DEF Believes
<1> QED BY <1>4, <1>5 DEF Believes, v

(* A token received leaves the others.                                     *)
LEMMA FirstReceived ==
  ASSUME NEW u \in Seq(LinkToken), u # <<>>, NEW h, NEW crc, Believes(u, h, crc),
         NEW g, g = IF Head(u) \in Announcement THEN Head(u) = "conf" ELSE h
  PROVE  Believes(Tail(u), g, crc)
<1> DEFINE v == Tail(u)
<1>1. /\ Len(v) = Len(u) - 1 /\ Len(u) \in Nat /\ Len(u) >= 1 /\ Head(u) = u[1]
      /\ \A i \in 1 .. Len(u) - 1 : v[i] = u[i + 1]
      /\ \A i \in 2 .. Len(u) : v[i - 1] = u[i]
  BY InFront
<1> HIDE DEF v
<1>2. \A i \in 1 .. Len(v) : i + 1 \in 1 .. Len(u) /\ v[i] = u[i + 1] /\ i + 1 > 1
  BY <1>1
<1>3. CASE h = crc /\ \A i \in 1 .. Len(u) : u[i] \notin Announcement
  <2>1. Head(u) \notin Announcement
    BY <1>1, <1>3
  <2> QED BY <1>2, <1>3, <2>1 DEF Believes, v
<1>4. ASSUME NEW i \in 1 .. Len(u), u[i] \in Announcement, crc = (u[i] = "conf"),
             \A j \in 1 .. Len(u) : j > i => u[j] \notin Announcement
      PROVE  Believes(v, g, crc)
  <2>1. CASE i = 1
    <3>1. g = crc
      BY <1>1, <1>4, <2>1
    <3>2. \A j \in 1 .. Len(v) : v[j] \notin Announcement
      BY <1>2, <1>4, <2>1
    <3> QED BY <3>1, <3>2 DEF Believes
  <2>2. CASE i # 1
    <3>1. i - 1 \in 1 .. Len(v) /\ v[i - 1] = u[i]
      BY <1>1, <2>2
    <3>2. \A j \in 1 .. Len(v) : j > i - 1 => j + 1 > i
      OBVIOUS
    <3>3. \A j \in 1 .. Len(v) : j > i - 1 => v[j] \notin Announcement
      BY <1>2, <1>4, <3>2
    <3> QED BY <1>4, <3>1, <3>3 DEF Believes
  <2> QED BY <2>1, <2>2
<1> QED BY <1>3, <1>4 DEF Believes, v

(* The chip says something of its own.                                     *)
LEMMA SaidAfterAnswer ==
  ASSUME NEW u \in Seq(LinkToken), NEW a, NEW supplied, AnswerFirst(u, a, supplied),
         NEW x \in LinkToken, x # "conf"
  PROVE  AnswerFirst(Append(u, x), a, supplied)
<1> DEFINE v == Append(u, x)
<1>1. /\ Len(v) = Len(u) + 1 /\ Len(u) \in Nat /\ v[Len(u) + 1] = x
      /\ \A i \in 1 .. Len(u) : v[i] = u[i]
  BY AtEnd
<1> HIDE DEF v
<1>2. \A i \in 1 .. Len(v) : i \in 1 .. Len(u) \/ i = Len(u) + 1
  BY <1>1
<1>3. \A i \in 1 .. Len(u) : i \in 1 .. Len(v) /\ \A j \in 1 .. i - 1 : j \in 1 .. Len(u)
  BY <1>1
<1>4. (\E i \in 1 .. Len(u) : u[i] = "reg") => \E i \in 1 .. Len(v) : v[i] = "reg"
  BY <1>1, <1>3
<1>5. \A i \in 1 .. Len(v) : v[i] = "conf" => \E j \in 1 .. i - 1 : v[j] = "reg"
  <2> TAKE i \in 1 .. Len(v)
  <2> HAVE v[i] = "conf"
  <2>1. i \in 1 .. Len(u) /\ u[i] = "conf"
    BY <1>1, <1>2
  <2>2. PICK j \in 1 .. i - 1 : u[j] = "reg"
    BY <2>1 DEF AnswerFirst
  <2> QED BY <1>1, <1>3, <2>1, <2>2
<1> QED BY <1>4, <1>5 DEF AnswerFirst, v

(* The chip serves the first request: x is what it says to it.             *)
LEMMA ServedInOrder ==
  ASSUME NEW u \in Seq(LinkToken), NEW a \in Seq(LinkRequest), a # <<>>,
         NEW supplied, AnswerFirst(u, a, supplied),
         NEW x \in LinkToken, x = "conf" <=> Head(a) = "configure",
         Head(a) = "read" => x = "reg"
  PROVE  AnswerFirst(Append(u, x), Tail(a), supplied)
<1> DEFINE v == Append(u, x)
           b == Tail(a)
<1>1. /\ Len(v) = Len(u) + 1 /\ Len(u) \in Nat /\ v[Len(u) + 1] = x
      /\ \A i \in 1 .. Len(u) : v[i] = u[i]
  BY AtEnd
<1>2. /\ Len(b) = Len(a) - 1 /\ Len(a) \in Nat /\ Len(a) >= 1 /\ Head(a) = a[1]
      /\ \A i \in 1 .. Len(a) - 1 : b[i] = a[i + 1]
      /\ \A i \in 2 .. Len(a) : b[i - 1] = a[i]
  BY InFront
<1> HIDE DEF v, b
<1>3. \A i \in 1 .. Len(v) : i \in 1 .. Len(u) \/ i = Len(u) + 1
  BY <1>1
<1>4. \A i \in 1 .. Len(u) : i \in 1 .. Len(v) /\ \A j \in 1 .. i - 1 : j \in 1 .. Len(u)
  BY <1>1
<1>5. Len(u) + 1 \in 1 .. Len(v) /\ 1 \in 1 .. Len(a)
  BY <1>1, <1>2
<1>6. (\E i \in 1 .. Len(u) : u[i] = "reg") => \E i \in 1 .. Len(v) : v[i] = "reg"
  BY <1>1, <1>4
<1>7. Head(a) = "read" => \E i \in 1 .. Len(v) : v[i] = "reg"
  BY <1>1, <1>5
<1>8. supplied => (\E i \in 1 .. Len(v) : v[i] = "reg") \/ (\E i \in 1 .. Len(b) : b[i] = "read")
  <2> HAVE supplied
  <2>1. CASE \E i \in 1 .. Len(u) : u[i] = "reg"
    BY <1>6, <2>1
  <2>2. ASSUME NEW i \in 1 .. Len(a), a[i] = "read"
        PROVE  (\E k \in 1 .. Len(v) : v[k] = "reg") \/ (\E k \in 1 .. Len(b) : b[k] = "read")
    <3>1. CASE i = 1
      BY <1>2, <1>7, <2>2, <3>1
    <3>2. CASE i # 1
      <4>1. i - 1 \in 1 .. Len(b) /\ b[i - 1] = a[i]
        BY <1>2, <3>2
      <4> QED BY <2>2, <4>1
    <3> QED BY <3>1, <3>2
  <2> QED BY <2>1, <2>2 DEF AnswerFirst
<1>9. \A i \in 1 .. Len(v) : v[i] = "conf" => \E j \in 1 .. i - 1 : v[j] = "reg"
  <2> TAKE i \in 1 .. Len(v)
  <2> HAVE v[i] = "conf"
  <2>1. CASE i \in 1 .. Len(u)
    <3>1. PICK j \in 1 .. i - 1 : u[j] = "reg"
      BY <1>1, <2>1 DEF AnswerFirst
    <3> QED BY <1>1, <1>4, <2>1, <3>1
  <2>2. CASE i = Len(u) + 1
    <3>1. a[1] = "configure"
      BY <1>1, <1>2, <2>2
    <3>2. ~\E j \in 1 .. 1 - 1 : a[j] = "read"
      OBVIOUS
    <3>3. PICK j \in 1 .. Len(u) : u[j] = "reg"
      BY <1>5, <3>1, <3>2 DEF AnswerFirst
    <3>4. j \in 1 .. i - 1
      BY <1>1, <2>2
    <3> QED BY <1>1, <3>3, <3>4
  <2> QED BY <1>3, <2>1, <2>2
<1>10. \A i \in 1 .. Len(b) : b[i] = "configure" =>
         (\E j \in 1 .. Len(v) : v[j] = "reg") \/ (\E j \in 1 .. i - 1 : b[j] = "read")
  <2> TAKE i \in 1 .. Len(b)
  <2> HAVE b[i] = "configure"
  <2>1. i + 1 \in 1 .. Len(a) /\ a[i + 1] = "configure"
    BY <1>2
  <2>2. CASE \E j \in 1 .. Len(u) : u[j] = "reg"
    BY <1>6, <2>2
  <2>3. ASSUME NEW j \in 1 .. (i + 1) - 1, a[j] = "read"
        PROVE  (\E k \in 1 .. Len(v) : v[k] = "reg") \/ (\E k \in 1 .. i - 1 : b[k] = "read")
    <3>1. CASE j = 1
      BY <1>2, <1>7, <2>3, <3>1
    <3>2. CASE j # 1
      <4>1. j \in 2 .. Len(a) /\ j - 1 \in 1 .. i - 1
        BY <1>2, <3>2
      <4>2. b[j - 1] = a[j]
        BY <1>2, <4>1
      <4> QED BY <2>3, <4>1, <4>2
    <3> QED BY <3>1, <3>2
  <2> QED BY <2>1, <2>2, <2>3 DEF AnswerFirst
<1> QED BY <1>8, <1>9, <1>10 DEF AnswerFirst, v, b

(* More is asked for, while the chip hears it.                             *)
LEMMA AskedAfterRead ==
  ASSUME NEW u \in Seq(LinkToken), NEW a \in Seq(LinkRequest), AnswerFirst(u, a, TRUE),
         NEW more \in Seq(LinkRequest)
  PROVE  AnswerFirst(u, a \o more, TRUE)
<1> DEFINE b == a \o more
<1>1. /\ Len(b) = Len(a) + Len(more) /\ Len(a) \in Nat /\ Len(more) \in Nat
      /\ \A i \in 1 .. Len(a) : b[i] = a[i]
  OBVIOUS
<1> HIDE DEF b
<1>2. \A i \in 1 .. Len(a) : i \in 1 .. Len(b)
  BY <1>1
<1>3. (\E i \in 1 .. Len(u) : u[i] = "reg") \/ (\E i \in 1 .. Len(b) : b[i] = "read")
  BY <1>1, <1>2 DEF AnswerFirst
<1>4. \A i \in 1 .. Len(b) : b[i] = "configure" =>
        (\E j \in 1 .. Len(u) : u[j] = "reg") \/ (\E j \in 1 .. i - 1 : b[j] = "read")
  <2> TAKE i \in 1 .. Len(b)
  <2> HAVE b[i] = "configure"
  <2>1. CASE \E j \in 1 .. Len(u) : u[j] = "reg"
    BY <2>1
  <2>2. CASE i \in 1 .. Len(a) /\ ~\E j \in 1 .. Len(u) : u[j] = "reg"
    <3>1. PICK j \in 1 .. i - 1 : a[j] = "read"
      BY <1>1, <2>2 DEF AnswerFirst
    <3>2. j \in 1 .. Len(a)
      BY <1>1, <2>2
    <3> QED BY <1>1, <3>1, <3>2
  <2>3. CASE i \notin 1 .. Len(a) /\ ~\E j \in 1 .. Len(u) : u[j] = "reg"
    <3>1. PICK j \in 1 .. Len(a) : a[j] = "read"
      BY <2>3 DEF AnswerFirst
    <3>2. j \in 1 .. i - 1
      BY <1>1, <2>3
    <3> QED BY <1>1, <3>1, <3>2
  <2> QED BY <2>1, <2>2, <2>3
<1> QED BY <1>3, <1>4 DEF AnswerFirst, b

(* A reset indication is not the answer.                                   *)
LEMMA ResetBeforeAnswer ==
  ASSUME NEW u \in Seq(LinkToken), u # <<>>, Head(u) = "reset", NEW a, NEW supplied,
         AnswerFirst(u, a, supplied)
  PROVE  AnswerFirst(Tail(u), a, supplied)
<1> DEFINE v == Tail(u)
<1>1. /\ Len(v) = Len(u) - 1 /\ Len(u) \in Nat /\ Len(u) >= 1 /\ u[1] = "reset"
      /\ \A i \in 1 .. Len(u) - 1 : v[i] = u[i + 1]
      /\ \A i \in 2 .. Len(u) : v[i - 1] = u[i]
  BY InFront
<1> HIDE DEF v
<1>2. (\E i \in 1 .. Len(u) : u[i] = "reg") => \E i \in 1 .. Len(v) : v[i] = "reg"
  <2> SUFFICES ASSUME NEW i \in 1 .. Len(u), u[i] = "reg"
               PROVE  \E k \in 1 .. Len(v) : v[k] = "reg"
    OBVIOUS
  <2>1. i # 1
    BY <1>1
  <2>2. i - 1 \in 1 .. Len(v) /\ v[i - 1] = u[i]
    BY <1>1, <2>1
  <2> QED BY <2>2
<1>3. \A i \in 1 .. Len(v) : v[i] = "conf" => \E j \in 1 .. i - 1 : v[j] = "reg"
  <2> TAKE i \in 1 .. Len(v)
  <2> HAVE v[i] = "conf"
  <2>1. i + 1 \in 1 .. Len(u) /\ u[i + 1] = "conf"
    BY <1>1
  <2>2. PICK j \in 1 .. (i + 1) - 1 : u[j] = "reg"
    BY <2>1 DEF AnswerFirst
  <2>3. j # 1
    BY <1>1, <2>2
  <2>4. j \in 2 .. Len(u) /\ j - 1 \in 1 .. i - 1
    BY <1>1, <2>3
  <2>5. v[j - 1] = u[j]
    BY <1>1, <2>4
  <2> QED BY <2>2, <2>4, <2>5
<1> QED BY <1>2, <1>3 DEF AnswerFirst, v

-----------------------------------------------------------------------------
(* The steps.                                                              *)

(* A pass that asks for nothing and a clock that goes on.                  *)
LEMMA QuietSteps ==
  ASSUME LinkInv,
         UNCHANGED <<uart, asked, hostCrc, chipCrc, up, missed, early>>,
         regPending' => regPending,
         pc' = "resetLock" => ~regPending',
         recent' = recent \/ \A i \in 1 .. Len(asked) : asked[i] = "read"
  PROVE  LinkInv'
BY DEF LinkInv, TokenTypes

(* The host asks, and knows that it did.                                   *)
LEMMA AskSteps ==
  ASSUME LinkInv, NEW requests \in Seq(LinkRequest), Link!Ask(requests), recent' = TRUE,
         UNCHANGED <<hostCrc, chipCrc, up, uart, early, regPending, missed>>,
         pc' # "resetLock"
  PROVE  LinkInv'
<1>1. /\ uart \in Seq(LinkToken) /\ asked \in Seq(LinkRequest)
      /\ asked' = IF up THEN asked \o requests ELSE asked
  BY DEF LinkInv, TokenTypes, Link!Ask
<1>2. CASE ~up
  BY <1>1, <1>2 DEF LinkInv, TokenTypes
<1>3. CASE up
  <2>1. asked' = asked \o requests /\ asked' \in Seq(LinkRequest)
    BY <1>1, <1>3
  <2>2. \A i \in 1 .. Len(asked) : i \in 1 .. Len(asked') /\ asked'[i] = asked[i]
    BY <1>1, <2>1
  <2>3. (\E i \in 1 .. Len(asked) : asked[i] = "reset")
          => \E i \in 1 .. Len(asked') : asked'[i] = "reset"
    BY <2>2
  <2>4. regPending /\ ~early => AnswerFirst(uart, asked', TRUE)
    <3> HAVE regPending /\ ~early
    <3>1. AnswerFirst(uart, asked, up)
      BY DEF LinkInv
    <3>2. AnswerFirst(uart, asked, TRUE)
      BY <1>3, <3>1 DEF AnswerFirst
    <3> QED BY <1>1, <2>1, <3>2, AskedAfterRead
  <2>5. regPending /\ ~early => AnswerFirst(uart, asked', up)
    BY <2>4, <1>3 DEF AnswerFirst
  <2> QED BY <1>3, <2>1, <2>3, <2>5 DEF LinkInv, TokenTypes
<1> QED BY <1>2, <1>3

(* A read is asked for when nothing else is on its way.                    *)
LEMMA ReadSteps ==
  ASSUME LinkInv, Link!RequestInternalRegister
  PROVE  LinkInv'
<1>1. /\ pc = "idle" /\ uart = <<>> /\ ~recent /\ early' = FALSE
      /\ ~\E i \in 1 .. Len(asked) : asked[i] = "read"
      /\ asked' = IF up THEN asked \o <<"read">> ELSE asked
      /\ UNCHANGED <<pc, hostCrc, recent, uart, up, chipCrc, missed>>
  BY DEF Link!RequestInternalRegister, Link!Ask, Link!Contains, Link!link, Link!chip
<1>2. asked = <<>>
  <2>1. asked \in Seq(LinkRequest) /\ \A i \in 1 .. Len(asked) : asked[i] = "read"
    BY <1>1 DEF LinkInv, TokenTypes
  <2>2. Len(asked) = 0
    BY <1>1, <2>1
  <2> QED BY <2>1, <2>2
<1>3. asked' = IF up THEN <<"read">> ELSE <<>>
  BY <1>1, <1>2
<1>4. asked' \in Seq(LinkRequest) /\ \A i \in 1 .. Len(asked') : asked'[i] = "read"
  <2>1. "read" \in LinkRequest
    BY DEF LinkRequest
  <2>2. <<"read">> \in Seq(LinkRequest) /\ Len(<<"read">>) = 1 /\ <<"read">>[1] = "read"
    BY <2>1
  <2> QED BY <1>3, <2>2
<1>5. AnswerFirst(uart', asked', up')
  <2>1. uart' = <<>> /\ Len(uart') = 0
    BY <1>1
  <2>2. up => Len(asked') = 1 /\ asked'[1] = "read"
    BY <1>3
  <2>3. up' => \E i \in 1 .. Len(asked') : asked'[i] = "read"
    BY <1>1, <2>2
  <2> QED BY <1>4, <2>1, <2>3 DEF AnswerFirst
<1>6. up' /\ ~missed' => Believes(uart', hostCrc', chipCrc')
  <2>1. ~\E i \in 1 .. Len(asked) : asked[i] = "reset"
    BY <1>2
  <2> QED BY <1>1, <2>1 DEF LinkInv
<1>7. ~up' => asked' = <<>>
  BY <1>1, <1>3
<1>8. TokenTypes'
  BY <1>1, <1>4 DEF LinkInv, TokenTypes
<1>9. pc' # "resetLock"
  BY <1>1
<1> QED BY <1>4, <1>5, <1>6, <1>7, <1>8, <1>9 DEF LinkInv

(* The reset under rxLock forgets what was received and asks for another   *)
(* one of the chip.                                                        *)
LEMMA ResetLockedSteps ==
  ASSUME LinkInv, Link!ResetLocked
  PROVE  LinkInv'
<1>1. /\ pc = "resetLock" /\ pc' = "idle" /\ hostCrc' = FALSE /\ recent' = TRUE
      /\ uart' = <<>> /\ UNCHANGED <<regPending, up, chipCrc>>
      /\ asked' = IF up THEN asked \o <<"reset">> ELSE asked
  BY DEF Link!ResetLocked, Link!Ask, Link!chip
<1>2. ~regPending /\ asked \in Seq(LinkRequest) /\ chipCrc \in BOOLEAN
  BY <1>1 DEF LinkInv, TokenTypes
<1>3. "reset" \in LinkRequest
  BY DEF LinkRequest
<1>4. up => /\ asked' \in Seq(LinkRequest) /\ Len(asked) + 1 \in 1 .. Len(asked')
            /\ asked'[Len(asked) + 1] = "reset"
  BY <1>1, <1>2, <1>3
<1>5. ~up => asked' = <<>>
  BY <1>1 DEF LinkInv
<1>6. asked' \in Seq(LinkRequest)
  <2>1. <<>> \in Seq(LinkRequest)
    OBVIOUS
  <2> QED BY <1>4, <1>5, <2>1
<1>7. up' => \E i \in 1 .. Len(asked') : asked'[i] = "reset"
  BY <1>1, <1>4
<1>8. TokenTypes'
  <2>1. uart' \in Seq(LinkToken)
    BY <1>1
  <2>2. hostCrc' \in BOOLEAN /\ chipCrc' \in BOOLEAN
    BY <1>1, <1>2
  <2> QED BY <1>6, <2>1, <2>2 DEF TokenTypes
<1>9. ~regPending' /\ recent' /\ pc' # "resetLock" /\ (~up' => asked' = <<>>)
  BY <1>1, <1>2, <1>5
<1> QED BY <1>7, <1>8, <1>9 DEF LinkInv

(* What receiving a token does: an announcement is taken, missed, or lost  *)
(* to a read that was armed before the chip restarted.                     *)
LEMMA ReceiveDoes ==
  ASSUME LinkInv, Link!Receive
  PROVE  /\ uart # <<>> /\ uart' = Tail(uart)
         /\ UNCHANGED <<pc, recent, early, asked, up, chipCrc>>
         /\ regPending' => regPending /\ Head(uart) = "reset"
         /\ hostCrc' \in BOOLEAN
         /\ missed => missed'
         /\ ~missed' =>
              \/ hostCrc' = IF Head(uart) \in Announcement THEN Head(uart) = "conf"
                                                            ELSE hostCrc
              \/ Head(uart) = "conf" /\ regPending /\ ~early
<1> USE DEF Link!Next1, Announcement
<1>1. /\ uart # <<>> /\ uart' = Tail(uart)
      /\ UNCHANGED <<pc, recent, early, asked, up, chipCrc>>
      /\ regPending' = (regPending /\ ~Link!Claims)
      /\ (Link!Claims /\ Link!Rest) \/ ((~Link!Claims \/ Head(uart) = "noise") /\ Link!Decode)
  BY DEF Link!Receive, Link!chip
<1>2. hostCrc \in BOOLEAN /\ Head(uart) \in LinkToken
  BY <1>1, InFront DEF LinkInv, TokenTypes
<1>3. regPending' => regPending /\ Head(uart) = "reset"
  BY <1>1 DEF Link!Claims
<1> DEFINE Known == hostCrc' = IF Head(uart) \in Announcement THEN Head(uart) = "conf"
                                                              ELSE hostCrc
           Fate == /\ hostCrc' \in BOOLEAN /\ (missed => missed')
                   /\ ~missed' => \/ Known
                                  \/ Head(uart) = "conf" /\ regPending /\ ~early
<1>4. Link!Garbage /\ Head(uart) \notin Announcement => Fate
  BY <1>2 DEF Link!Garbage
<1>5. Link!Sweep => Fate
  BY <1>2 DEF Link!Sweep
<1>6. Link!Claims /\ Link!Rest => Fate
  <2> SUFFICES ASSUME Link!Claims, Link!Rest PROVE Fate
    OBVIOUS
  <2>1. CASE Head(uart) \in {"head", "body", "crc"}
    <3>1. Link!Garbage /\ Head(uart) \notin Announcement
      BY <2>1 DEF Link!Rest
    <3> QED BY <3>1, <1>4
  <2>2. CASE Head(uart) \notin {"head", "body", "crc"}
    <3>1. /\ missed' = (missed \/ (Head(uart) = "conf" /\ early)) /\ hostCrc' = hostCrc
          /\ regPending /\ Head(uart) # "reset"
      BY <2>2 DEF Link!Rest, Link!Claims
    <3> QED BY <1>2, <3>1
  <2> QED BY <2>1, <2>2
<1>7. Link!Decode => Fate
  <2>1. Link!FramePart => Fate
    BY <1>2 DEF Link!FramePart, Link!Complete
  <2>2. Link!Indication => Fate
    <3> SUFFICES ASSUME Link!Indication PROVE Fate
      OBVIOUS
    <3>1. /\ missed' = missed
          /\ \/ Head(uart) = "reset" /\ hostCrc' = FALSE
             \/ Head(uart) = "conf" /\ hostCrc' = TRUE
             \/ Head(uart) \in {"state", "reg"} /\ hostCrc' = hostCrc
      BY DEF Link!Indication
    <3>2. Known /\ hostCrc' \in BOOLEAN
      <4>1. CASE Head(uart) = "reset" /\ hostCrc' = FALSE
        BY <4>1
      <4>2. CASE Head(uart) = "conf" /\ hostCrc' = TRUE
        BY <4>2
      <4>3. CASE Head(uart) \in {"state", "reg"} /\ hostCrc' = hostCrc
        BY <1>2, <4>3
      <4> QED BY <3>1, <4>1, <4>2, <4>3
    <3> HIDE DEF Known
    <3> QED BY <3>1, <3>2
  <2>3. Head(uart) \in {"body", "crc", "noise"} => Head(uart) \notin Announcement
    OBVIOUS
  <2> HIDE DEF Fate
  <2> QED BY <1>4, <1>5, <2>1, <2>2, <2>3 DEF Link!Decode
<1>8. Fate
  <2> HIDE DEF Fate
  <2> QED BY <1>1, <1>6, <1>7
<1> QED BY <1>1, <1>3, <1>8

LEMMA ReceiveSteps ==
  ASSUME LinkInv, Link!Receive
  PROVE  LinkInv'
<1>1. /\ uart # <<>> /\ uart' = Tail(uart)
      /\ UNCHANGED <<pc, recent, early, asked, up, chipCrc>>
      /\ regPending' => regPending /\ Head(uart) = "reset"
      /\ hostCrc' \in BOOLEAN
      /\ missed => missed'
      /\ ~missed' =>
           \/ hostCrc' = IF Head(uart) \in Announcement THEN Head(uart) = "conf"
                                                         ELSE hostCrc
           \/ Head(uart) = "conf" /\ regPending /\ ~early
  BY ReceiveDoes
<1>2. uart \in Seq(LinkToken) /\ Tail(uart) \in Seq(LinkToken)
  BY <1>1, InFront DEF LinkInv, TokenTypes
<1>3. regPending' /\ ~early' => AnswerFirst(uart', asked', up')
  BY <1>1, <1>2, ResetBeforeAnswer DEF LinkInv
<1>4. ~(Head(uart) = "conf" /\ regPending /\ ~early)
  <2> SUFFICES ASSUME Head(uart) = "conf", regPending, ~early
               PROVE  FALSE
    OBVIOUS
  <2>1. AnswerFirst(uart, asked, up)
    BY DEF LinkInv
  <2>2. uart[1] = "conf" /\ 1 \in 1 .. Len(uart)
    BY <1>1, <1>2, InFront
  <2>3. \E j \in 1 .. 1 - 1 : uart[j] = "reg"
    BY <2>1, <2>2 DEF AnswerFirst
  <2> QED BY <2>3
<1>5. up' /\ ~missed' =>
        Believes(uart', hostCrc', chipCrc') \/ \E i \in 1 .. Len(asked') : asked'[i] = "reset"
  <2> SUFFICES ASSUME up, ~missed, ~missed', Believes(uart, hostCrc, chipCrc)
               PROVE  Believes(Tail(uart), hostCrc', chipCrc)
    BY <1>1 DEF LinkInv
  <2> QED BY <1>1, <1>2, <1>4, FirstReceived
<1> QED BY <1>1, <1>2, <1>3, <1>5 DEF LinkInv, TokenTypes

(* The chip serves a request and says so.                                  *)
LEMMA ServeSteps ==
  ASSUME LinkInv, Link!ChipServes
  PROVE  LinkInv'
<1> DEFINE r == Head(asked)
           x == CASE r = "reset" -> "reset" [] r = "configure" -> "conf"
                  [] r = "state" -> "state" [] r = "read" -> "reg"
<1>1. /\ asked # <<>> /\ asked' = Tail(asked) /\ uart' = Append(uart, x)
      /\ chipCrc' = IF r = "reset" THEN FALSE ELSE chipCrc \/ r = "configure"
      /\ UNCHANGED <<pc, hostCrc, regPending, recent, early, missed, up>>
  BY DEF Link!ChipServes, Link!Says, Link!ChipOnly, Link!link, Link!reading
<1>2. /\ uart \in Seq(LinkToken) /\ asked \in Seq(LinkRequest) /\ chipCrc \in BOOLEAN
      /\ hostCrc \in BOOLEAN
  BY DEF LinkInv, TokenTypes
<1>3. /\ asked' \in Seq(LinkRequest) /\ r \in LinkRequest /\ r = asked[1]
      /\ Len(asked') = Len(asked) - 1 /\ Len(asked) \in Nat
      /\ \A i \in 1 .. Len(asked) - 1 : asked'[i] = asked[i + 1]
      /\ \A i \in 2 .. Len(asked) : asked'[i - 1] = asked[i]
  BY <1>1, <1>2, InFront
<1> HIDE DEF r
<1>4. /\ x \in LinkToken /\ (x = "conf" <=> r = "configure") /\ (r = "read" => x = "reg")
      /\ x \in Announcement <=> r \in {"reset", "configure"}
  BY <1>3 DEF LinkRequest, LinkToken, Announcement
<1> HIDE DEF x
<1>5. uart' \in Seq(LinkToken) /\ chipCrc' \in BOOLEAN
  BY <1>1, <1>2, <1>4, AtEnd
<1>6. regPending' /\ ~early' => AnswerFirst(uart', asked', up')
  <2> SUFFICES ASSUME regPending, ~early
               PROVE  AnswerFirst(uart', asked', up)
    BY <1>1
  <2>1. AnswerFirst(uart, asked, up)
    BY DEF LinkInv
  <2> QED BY <1>1, <1>2, <1>4, <2>1, ServedInOrder DEF r
<1>7. up /\ ~missed =>
        Believes(uart', hostCrc, chipCrc') \/ \E i \in 1 .. Len(asked') : asked'[i] = "reset"
  <2> HAVE up /\ ~missed
  <2>1. CASE x \in Announcement
    <3>1. Believes(uart', hostCrc, x = "conf")
      BY <1>1, <1>2, <2>1, AnnouncedLast
    <3>2. chipCrc' = (x = "conf")
      BY <1>1, <1>2, <1>4, <2>1
    <3> QED BY <3>1, <3>2
  <2>2. CASE x \notin Announcement
    <3>1. chipCrc' = chipCrc /\ r # "reset"
      BY <1>1, <1>2, <1>4, <2>2
    <3>2. CASE Believes(uart, hostCrc, chipCrc)
      BY <1>1, <1>2, <1>4, <2>2, <3>1, <3>2, OtherLast
    <3>3. ASSUME NEW i \in 1 .. Len(asked), asked[i] = "reset"
          PROVE  \E k \in 1 .. Len(asked') : asked'[k] = "reset"
      <4>1. i # 1
        BY <1>3, <3>1, <3>3
      <4>2. i - 1 \in 1 .. Len(asked') /\ asked'[i - 1] = asked[i]
        BY <1>3, <4>1
      <4> QED BY <3>3, <4>2
    <3> QED BY <3>2, <3>3 DEF LinkInv
  <2> QED BY <2>1, <2>2
<1>8. ~up => asked' = <<>>
  BY <1>1 DEF LinkInv
<1>9. ~recent => \A i \in 1 .. Len(asked') : asked'[i] = "read"
  <2>1. \A i \in 1 .. Len(asked') : i + 1 \in 1 .. Len(asked) /\ asked'[i] = asked[i + 1]
    BY <1>3
  <2> QED BY <2>1 DEF LinkInv
<1> QED BY <1>1, <1>2, <1>3, <1>5, <1>6, <1>7, <1>8, <1>9 DEF LinkInv, TokenTypes

(* Frames and noise.                                                       *)
LEMMA LineSteps ==
  ASSUME LinkInv, UNCHANGED <<pc, hostCrc, regPending, recent, early, missed, up, chipCrc, asked>>,
         uart' = uart \/ \E x \in LinkToken \ Announcement : uart' = Append(uart, x)
  PROVE  LinkInv'
<1>1. uart \in Seq(LinkToken)
  BY DEF LinkInv, TokenTypes
<1>2. CASE uart' = uart
  BY <1>2 DEF LinkInv, TokenTypes
<1>3. ASSUME NEW x \in LinkToken \ Announcement, uart' = Append(uart, x)
      PROVE  LinkInv'
  <2>1. uart' \in Seq(LinkToken) /\ x # "conf"
    BY <1>1, <1>3, AtEnd DEF Announcement
  <2>2. Believes(uart, hostCrc, chipCrc) => Believes(uart', hostCrc, chipCrc)
    BY <1>1, <1>3, OtherLast
  <2>3. AnswerFirst(uart, asked, up) => AnswerFirst(uart', asked, up)
    BY <1>1, <1>3, <2>1, SaidAfterAnswer
  <2> QED BY <2>1, <2>2, <2>3 DEF LinkInv, TokenTypes
<1> QED BY <1>2, <1>3

(* The chip loses its supply and what it was asked.                        *)
LEMMA DownSteps ==
  ASSUME LinkInv, Link!ChipDown
  PROVE  LinkInv'
<1>1. /\ up' = FALSE /\ asked' = <<>>
      /\ UNCHANGED <<pc, hostCrc, regPending, recent, early, missed, uart, chipCrc>>
  BY DEF Link!ChipDown, Link!ChipOnly, Link!link, Link!reading
<1>2. asked' \in Seq(LinkRequest) /\ Len(asked') = 0
  BY <1>1
<1>3. AnswerFirst(uart, asked, up) => AnswerFirst(uart', asked', up')
  BY <1>1, <1>2 DEF AnswerFirst
<1> QED BY <1>1, <1>2, <1>3 DEF LinkInv, TokenTypes

(* It has it again, and announces itself.                                  *)
LEMMA UpSteps ==
  ASSUME LinkInv, Link!ChipUp
  PROVE  LinkInv'
<1>1. /\ ~up /\ up' = TRUE /\ chipCrc' = FALSE /\ early' = regPending
      /\ uart' = Append(uart, "reset")
      /\ UNCHANGED <<pc, hostCrc, regPending, recent, missed, asked>>
  BY DEF Link!ChipUp, Link!Says, Link!link
<1>2. uart \in Seq(LinkToken) /\ asked = <<>>
  BY <1>1 DEF LinkInv, TokenTypes
<1>3. "reset" \in Announcement /\ "reset" \in LinkToken
  BY DEF Announcement, LinkToken
<1>4. uart' \in Seq(LinkToken)
  BY <1>1, <1>2, <1>3, AtEnd
<1>5. Believes(uart', hostCrc', chipCrc')
  <2>1. Believes(uart', hostCrc, "reset" = "conf")
    BY <1>1, <1>2, <1>3, AnnouncedLast
  <2>2. ("reset" = "conf") = FALSE
    OBVIOUS
  <2> QED BY <1>1, <2>1, <2>2
<1>6. ~(regPending' /\ ~early')
  BY <1>1
<1> QED BY <1>1, <1>2, <1>4, <1>5, <1>6 DEF LinkInv, TokenTypes

(* The announcements on their way tell the host what the chip does.        *)
LEMMA LinkNext == LinkInv /\ [Link!Next]_(Link!vars) => LinkInv'
<1> SUFFICES ASSUME LinkInv, [Link!Next]_(Link!vars) PROVE LinkInv'
  OBVIOUS
<1>1. CASE Link!Receive
  BY <1>1, ReceiveSteps
<1>2. CASE Link!BeginPass \/ Link!HandleReset \/ Link!EndPass
  BY <1>2, QuietSteps DEF Link!BeginPass, Link!HandleReset, Link!EndPass, Link!link, Link!reading, Link!chip
<1>3. CASE Link!ReadTimeout \/ Link!Disconnect
  BY <1>3, QuietSteps DEF Link!ReadTimeout, Link!Disconnect, Link!link, Link!reading, Link!chip
<1>4. CASE Link!QuietAgain
  <2>1. asked \in Seq(LinkRequest)
    BY DEF LinkInv, TokenTypes
  <2>2. DOMAIN asked = 1 .. Len(asked)
    BY <2>1
  <2>3. \A i \in 1 .. Len(asked) : asked[i] = "read"
    BY <1>4, <2>2 DEF Link!QuietAgain, Link!Served
  <2>4. pc = "resetLock" => ~regPending
    BY DEF LinkInv
  <2>5. /\ UNCHANGED <<uart, asked, hostCrc, chipCrc, up, missed, early>>
        /\ pc' = pc /\ regPending' = regPending
    BY <1>4 DEF Link!QuietAgain, Link!link, Link!chip
  <2> QED BY <2>3, <2>4, <2>5, QuietSteps
<1>5. CASE Link!DesyncWatchdog \/ Link!BcuRecovery
  BY <1>5, QuietSteps DEF Link!DesyncWatchdog, Link!BcuRecovery, Link!StartReset, Link!link, Link!reading, Link!chip
<1>6. CASE Link!ApplyConfiguration
  <2>1. <<"configure", "state">> \in Seq(LinkRequest)
    BY DEF LinkRequest
  <2> QED BY <1>6, <2>1, AskSteps DEF Link!ApplyConfiguration, Link!link, Link!reading, Link!chip
<1>7. CASE Link!RequestState
  <2>1. <<"state">> \in Seq(LinkRequest)
    BY DEF LinkRequest
  <2> QED BY <1>7, <2>1, AskSteps DEF Link!RequestState, Link!link, Link!reading, Link!chip
<1>8. CASE Link!RequestInternalRegister
  BY <1>8, ReadSteps
<1>9. CASE Link!ResetLocked
  BY <1>9, ResetLockedSteps
<1>10. CASE Link!ChipServes
  BY <1>10, ServeSteps
<1>11. CASE Link!ChipFeeds
  BY <1>11, LineSteps DEF Link!ChipFeeds, Link!Says, Link!ChipOnly, Link!link, Link!reading,
     LinkToken, Announcement
<1>12. CASE Link!Noise
  BY <1>12, LineSteps DEF Link!Noise, Link!Says, Link!ChipOnly, Link!link, Link!reading,
     LinkToken, Announcement
<1>13. CASE Link!ChipDown
  BY <1>13, DownSteps
<1>14. CASE Link!ChipUp
  BY <1>14, UpSteps
<1>15. CASE UNCHANGED Link!vars
  BY <1>15, QuietSteps DEF Link!vars, Link!link, Link!reading, Link!chip, LinkInv
<1> QED BY <1>1, <1>2, <1>3, <1>4, <1>5, <1>6, <1>7, <1>8, <1>9, <1>10, <1>11,
           <1>12, <1>13, <1>14, <1>15 DEF Link!Next, Link!MainLoop

(* What is on its way between host and chip, in every reachable state.     *)
THEOREM AnnouncementInvariant == Link!Spec => []LinkInv
<1>1. Link!Init => LinkInv
  <2> SUFFICES ASSUME Link!Init PROVE LinkInv
    OBVIOUS
  <2>1. /\ pc = "idle" /\ hostCrc = FALSE /\ chipCrc = FALSE /\ regPending = FALSE
        /\ recent = TRUE /\ uart = <<>> /\ asked = <<>> /\ up = TRUE
    BY DEF Link!Init
  <2>2. uart \in Seq(LinkToken) /\ asked \in Seq(LinkRequest) /\ Len(uart) = 0
    BY <2>1
  <2>3. Believes(uart, hostCrc, chipCrc)
    <3>1. \A i \in 1 .. Len(uart) : uart[i] \notin Announcement
      BY <2>2
    <3>2. hostCrc = chipCrc
      BY <2>1
    <3> QED BY <3>1, <3>2 DEF Believes
  <2> QED BY <2>1, <2>2, <2>3 DEF LinkInv, TokenTypes
<1>2. LinkInv /\ [Link!Next]_(Link!vars) => LinkInv'
  BY LinkNext
<1> QED BY <1>1, <1>2, PTL DEF Link!Spec

(* Host and chip agree on the CRC once a restart is dealt with: no         *)
(* register read takes a U_Configure.ind but one from before the restart   *)
(* (quietForRegisterAccess, applyConfiguration, DataLinkLayer::reset).     *)
THEOREM AgreementOnCrc == Link!Spec => []ConfigurationAgrees
<1>1. LinkInv => ConfigurationAgrees
  <2> SUFFICES ASSUME LinkInv, Settled, ~missed PROVE hostCrc = chipCrc
    BY DEF ConfigurationAgrees
  <2>1. /\ uart \in Seq(LinkToken) /\ asked \in Seq(LinkRequest)
        /\ up /\ \A i \in DOMAIN asked : asked[i] # "reset"
        /\ \A i \in DOMAIN uart : uart[i] \notin Announcement
    BY DEF Settled, LinkInv, TokenTypes, Announcement
  <2>2. DOMAIN asked = 1 .. Len(asked) /\ DOMAIN uart = 1 .. Len(uart)
    BY <2>1
  <2>3. Believes(uart, hostCrc, chipCrc)
    BY <2>1, <2>2 DEF LinkInv
  <2> QED BY <2>1, <2>2, <2>3 DEF Believes
<1> QED BY <1>1, AnnouncementInvariant, PTL

=============================================================================
