------------------------- MODULE RoutingFlow_proofs -------------------------
(***************************************************************************)
(* Theorems about RoutingFlow: the distance between indications, the limit *)
(* per second, the sum of the loss reports and the length of a pause hold  *)
(* for every clock range, ring size, gap and queue depth.                  *)
(*                                                                         *)
(* The argument rests on one fact about millis(): the difference of two of *)
(* its values, taken modulo its range, is never more than the time between *)
(* the two moments plus one millisecond (SinceIsBounded).                  *)
(***************************************************************************)
EXTENDS RoutingFlow, TLAPS

(* A number between 0 and M, or M away from that.                          *)
LEMMA ModSmall ==
  ASSUME NEW M \in Nat, M > 0, NEW x \in Int, -M <= x, x < M
  PROVE  x % M = IF x >= 0 THEN x ELSE x + M
<1> DEFINE p == x \div M  s == x % M
<1>1. x = M * p + s /\ s \in 0 .. M - 1 /\ p \in Int
  OBVIOUS
<1> HIDE DEF p, s
<1>2. CASE x >= 0
  <2>1. p = 0
    <3>1. CASE p >= 1
      <4>1. M * p >= M BY <3>1, <1>1
      <4> QED BY <4>1, <1>1
    <3>2. CASE p <= -1
      <4>1. M * p <= -M BY <3>2, <1>1
      <4> QED BY <4>1, <1>1, <1>2
    <3> QED BY <3>1, <3>2, <1>1
  <2> QED BY <2>1, <1>1, <1>2 DEF s
<1>3. CASE x < 0
  <2>1. p = -1
    <3>1. CASE p >= 0
      <4>1. M * p >= 0 BY <3>1, <1>1
      <4> QED BY <4>1, <1>1, <1>3
    <3>2. CASE p <= -2
      <4>1. M * p <= -2 * M BY <3>2, <1>1
      <4> QED BY <4>1, <1>1
    <3> QED BY <3>1, <3>2, <1>1
  <2> QED BY <2>1, <1>1, <1>3 DEF s
<1> QED BY <1>2, <1>3, <1>1

(* A number between M and twice M.                                         *)
LEMMA ModOver ==
  ASSUME NEW M \in Nat, M > 0, NEW x \in Int, M <= x, x < 2 * M
  PROVE  x % M = x - M
<1> DEFINE p == x \div M  s == x % M
<1>1. x = M * p + s /\ s \in 0 .. M - 1 /\ p \in Int
  OBVIOUS
<1> HIDE DEF p, s
<1>2. p = 1
  <2>1. CASE p >= 2
    <3>1. M * p >= 2 * M BY <2>1, <1>1
    <3> QED BY <3>1, <1>1
  <2>2. CASE p <= 0
    <3>1. M * p <= 0 BY <2>2, <1>1
    <3> QED BY <3>1, <1>1
  <2> QED BY <2>1, <2>2, <1>1
<1> QED BY <1>1, <1>2 DEF s

(* A difference of remainders is no more than the difference.              *)
LEMMA ModDifference ==
  ASSUME NEW M \in Nat, M > 0, NEW a \in Nat, NEW b \in Nat, b <= a
  PROVE  ((a % M) - (b % M)) % M <= a - b
<1> DEFINE p == a \div M  r == a % M  q == b \div M  s == b % M
<1>1. a = M * p + r /\ r \in 0 .. M - 1 /\ p \in Int
  OBVIOUS
<1>2. b = M * q + s /\ s \in 0 .. M - 1 /\ q \in Int
  OBVIOUS
<1> HIDE DEF p, r, q, s
<1>3. a - b = M * (p - q) + (r - s)
  BY <1>1, <1>2
<1>4. (r - s) % M = IF r - s >= 0 THEN r - s ELSE r - s + M
  BY <1>1, <1>2, ModSmall
<1>5. CASE r - s >= 0
  <2>1. CASE p - q >= 0
    <3>1. M * (p - q) >= 0 BY <2>1, <1>1, <1>2
    <3> QED BY <3>1, <1>1, <1>2, <1>3, <1>4, <1>5 DEF r, s
  <2>2. CASE p - q <= -1
    <3>1. M * (p - q) <= -M BY <2>2, <1>1, <1>2
    <3> QED BY <3>1, <1>1, <1>2, <1>3
  <2> QED BY <2>1, <2>2, <1>1, <1>2
<1>6. CASE r - s < 0
  <2>1. CASE p - q >= 1
    <3>1. M * (p - q) >= M BY <2>1, <1>1, <1>2
    <3> QED BY <3>1, <1>1, <1>2, <1>3, <1>4, <1>6 DEF r, s
  <2>2. CASE p - q <= 0
    <3>1. M * (p - q) <= 0 BY <2>2, <1>1, <1>2
    <3> QED BY <3>1, <1>1, <1>2, <1>3, <1>6
  <2> QED BY <2>1, <2>2, <1>1, <1>2
<1> QED BY <1>5, <1>6, <1>1, <1>2

(* What millis() shows as a distance of g can be a millisecond less.       *)
LEMMA SinceIsBounded ==
  ASSUME NEW t \in Nat, NEW u \in Nat, u <= t, NEW g \in Nat,
         (Millis(t) - Millis(u)) % Wrap >= g
  PROVE  t + 1 >= u + 2 * g
<1>1. t \div 2 \in Nat /\ u \div 2 \in Nat /\ u \div 2 <= t \div 2
  OBVIOUS
<1>2. (Millis(t) - Millis(u)) % Wrap <= t \div 2 - u \div 2
  BY <1>1, ModDifference, TimeAssumption DEF Millis
<1>3. Millis(t) \in 0 .. Wrap - 1 /\ Millis(u) \in 0 .. Wrap - 1
  BY <1>1, TimeAssumption DEF Millis
<1>4. (Millis(t) - Millis(u)) % Wrap \in Int
  BY <1>3, TimeAssumption
<1>5. t \div 2 - u \div 2 >= g
  BY <1>1, <1>2, <1>4
<1> QED BY <1>5

-----------------------------------------------------------------------------
(* The ring holds what millis() showed at the last indications.            *)
PaceInv ==
  /\ time \in Nat
  /\ sentAt \in Seq(Nat) /\ sends \in Seq(Nat)
  /\ Len(sentAt) = Len(sends) /\ Len(sends) <= PerSecond
  /\ \A i \in 1 .. Len(sends) : sentAt[i] = Millis(sends[i]) /\ sends[i] <= time

(* What millis() shows is a number below its range.                        *)
LEMMA MillisType ==
  ASSUME NEW t \in Nat PROVE Millis(t) \in 0 .. Wrap - 1 /\ Millis(t) \in Nat
<1>1. t \div 2 \in Nat
  OBVIOUS
<1> QED BY <1>1, TimeAssumption DEF Millis

(* Putting one on the ring keeps it so.                                    *)
LEMMA PacePushed ==
  ASSUME PaceInv, NEW a, NEW s,
         a = LastOnes(Append(sentAt, Now)), s = LastOnes(Append(sends, time))
  PROVE  /\ a \in Seq(Nat) /\ s \in Seq(Nat)
         /\ Len(a) = Len(s) /\ Len(s) <= PerSecond
         /\ \A i \in 1 .. Len(s) : a[i] = Millis(s[i]) /\ s[i] <= time
<1> DEFINE aa == Append(sentAt, Now)
           ss == Append(sends, time)
<1>1. time \in Nat /\ Now \in Nat /\ Now = Millis(time) /\ PerSecond \in Nat \ {0}
  BY MillisType, TimeAssumption DEF PaceInv, Now
<1>2. /\ aa \in Seq(Nat) /\ ss \in Seq(Nat)
      /\ Len(aa) = Len(sends) + 1 /\ Len(ss) = Len(sends) + 1
  BY <1>1 DEF PaceInv
<1>3. \A i \in 1 .. Len(ss) : aa[i] = Millis(ss[i]) /\ ss[i] <= time
  <2> TAKE i \in 1 .. Len(ss)
  <2>1. CASE i <= Len(sends)
    <3>1. aa[i] = sentAt[i] /\ ss[i] = sends[i] /\ i \in 1 .. Len(sends)
      BY <1>1, <1>2, <2>1 DEF PaceInv
    <3> QED BY <3>1 DEF PaceInv
  <2>2. CASE i = Len(sends) + 1
    <3>1. aa[i] = Now /\ ss[i] = time
      BY <1>1, <1>2, <2>2 DEF PaceInv
    <3> QED BY <3>1, <1>1
  <2> QED BY <1>2, <2>1, <2>2 DEF PaceInv
<1> HIDE DEF aa, ss
<1>4. CASE Len(ss) > PerSecond
  <2>1. a = Tail(aa) /\ s = Tail(ss) /\ Len(ss) = PerSecond + 1
    BY SMTT(20), <1>1, <1>2, <1>4 DEF LastOnes, PaceInv, aa, ss
  <2>2. /\ Tail(aa) \in Seq(Nat) /\ Tail(ss) \in Seq(Nat)
        /\ Len(Tail(aa)) = PerSecond /\ Len(Tail(ss)) = PerSecond
        /\ \A i \in 1 .. PerSecond : Tail(aa)[i] = aa[i + 1] /\ Tail(ss)[i] = ss[i + 1]
    BY <1>1, <1>2, <1>4, <2>1
  <2>3. \A i \in 1 .. PerSecond : i + 1 \in 1 .. Len(ss)
    BY <1>1, <2>1
  <2>4. ASSUME NEW i \in 1 .. Len(s)
        PROVE  a[i] = Millis(s[i]) /\ s[i] <= time
    <3>1. i \in 1 .. PerSecond /\ a[i] = aa[i + 1] /\ s[i] = ss[i + 1]
      BY <2>1, <2>2
    <3> QED BY <3>1, <2>3, <1>3
  <2>5. a \in Seq(Nat) /\ s \in Seq(Nat) /\ Len(a) = Len(s) /\ Len(s) <= PerSecond
    <3>1. a = Tail(aa) /\ s = Tail(ss) /\ PerSecond <= PerSecond
      BY <1>1, <2>1
    <3> QED BY <3>1, <2>2, Zenon
  <2> QED BY <2>4, <2>5
<1>5. CASE ~(Len(ss) > PerSecond)
  <2>1. a = aa /\ s = ss
    BY <1>2, <1>5 DEF LastOnes, aa, ss
  <2> QED BY <1>1, <1>2, <1>3, <1>5, <2>1
<1> QED BY <1>4, <1>5

(* An indication goes out when gap and second are over; otherwise the ring *)
(* stays, and time does not run back.                                      *)
Indication ==
  /\ GapOver(sentAt) /\ SecondOver
  /\ sends' = LastOnes(Append(sends, time))
  /\ sentAt' = LastOnes(Append(sentAt, Now))
  /\ time' = time

NoIndication == UNCHANGED <<sentAt, sends>> /\ time' \in {time, time + 1}

(* A step is one of the two.                                               *)
LEMMA StepOfPace ==
  ASSUME Next
  PROVE  Indication \/ NoIndication
<1> USE DEF Indication, NoIndication
<1>1. CASE Loop
  BY <1>1 DEF Loop, LoopRoutingQueue, MaySend
<1>2. CASE SendFrame
  BY <1>2 DEF SendFrame, LoopRoutingQueue, MaySend
<1>3. CASE \E wait \in WaitTimes : RoutingBusy(wait)
  BY <1>3 DEF RoutingBusy, pace
<1>4. CASE LostToKnx
  BY <1>4 DEF LostToKnx, pace
<1>5. CASE \E joined \in BOOLEAN : Rejoin(joined)
  BY <1>5 DEF Rejoin
<1>6. CASE Program
  BY <1>6 DEF Program, pace
<1>7. CASE Tick
  BY <1>7 DEF Tick, pace
<1> QED BY <1>1, <1>2, <1>3, <1>4, <1>5, <1>6, <1>7 DEF Next

(* The ring is in order in every reachable state.                          *)
LEMMA PaceInvariant == Spec => []PaceInv
<1>1. Init => PaceInv
  BY TimeAssumption DEF Init, PaceInv
<1>2. PaceInv /\ [Next]_vars => PaceInv'
  <2> SUFFICES ASSUME PaceInv, [Next]_vars PROVE PaceInv'
    OBVIOUS
  <2>1. CASE Next /\ Indication
    <3>1. sends' = LastOnes(Append(sends, time)) /\ sentAt' = LastOnes(Append(sentAt, Now))
          /\ time' = time /\ time \in Nat
      BY <2>1 DEF Indication, PaceInv
    <3>2. /\ sentAt' \in Seq(Nat) /\ sends' \in Seq(Nat)
          /\ Len(sentAt') = Len(sends') /\ Len(sends') <= PerSecond
          /\ \A i \in 1 .. Len(sends') : sentAt'[i] = Millis(sends'[i]) /\ sends'[i] <= time
      BY <3>1, PacePushed
    <3> QED BY <3>1, <3>2 DEF PaceInv, Millis
  <2>2. CASE NoIndication
    <3>1. time' \in Nat /\ time' >= time
      BY <2>2 DEF NoIndication, PaceInv
    <3>2. \A i \in 1 .. Len(sends) : sends[i] <= time'
      BY <3>1 DEF PaceInv
    <3> QED BY <2>2, <3>1, <3>2 DEF NoIndication, PaceInv, Millis
  <2>3. CASE UNCHANGED vars
    BY <2>3 DEF vars, pace, PaceInv, Millis
  <2> QED BY <2>1, <2>2, <2>3, StepOfPace
<1> QED BY <1>1, <1>2, PTL DEF Spec

(* Two ROUTING_INDICATIONs of IpDataLinkLayer::loopRoutingQueue are Gap    *)
(* milliseconds of real time apart.                                        *)
THEOREM IndicationsApart == Spec => GapKept
<1>1. PaceInv /\ [Next]_vars =>
        [Sending /\ sends # <<>> => time >= Last(sends) + 2 * Gap]_vars
  <2> SUFFICES ASSUME PaceInv, Next, Sending, sends # <<>>
               PROVE  time >= Last(sends) + 2 * Gap
    BY DEF vars, pace, Sending
  <2>1. Indication
    BY StepOfPace DEF NoIndication, Sending
  <2> DEFINE n == Len(sends)
  <2>2. n \in 1 .. Len(sends) /\ Len(sentAt) = n /\ sentAt # <<>>
    BY DEF PaceInv
  <2>3. Last(sends) = sends[n] /\ Last(sentAt) = sentAt[n] /\ sentAt[n] = Millis(sends[n])
    BY <2>2 DEF Last, PaceInv
  <2>4. sends[n] \in Nat /\ sends[n] <= time /\ time \in Nat
    BY <2>2 DEF PaceInv
  <2>5. (Millis(time) - Millis(sends[n])) % Wrap >= Gap + 1
    BY <2>1, <2>2, <2>3 DEF Indication, GapOver, Since, Now
  <2>6. time + 1 >= sends[n] + 2 * (Gap + 1)
    BY <2>4, <2>5, SinceIsBounded, TimeAssumption
  <2> QED BY <2>3, <2>4, <2>6, TimeAssumption
<1> QED BY <1>1, PaceInvariant, PTL DEF Spec, GapKept

(* No second of real time sees more than PerSecond of them.                *)
THEOREM AtMostPerSecond == Spec => RateKept
<1>1. PaceInv /\ [Next]_vars =>
        [Sending /\ Len(sends) = PerSecond => time >= sends[1] + 2 * Second]_vars
  <2> SUFFICES ASSUME PaceInv, Next, Sending, Len(sends) = PerSecond
               PROVE  time >= sends[1] + 2 * Second
    BY DEF vars, pace, Sending
  <2>1. Indication
    BY StepOfPace DEF NoIndication, Sending
  <2>2. 1 \in 1 .. Len(sends) /\ Len(sentAt) = PerSecond
    BY TimeAssumption DEF PaceInv
  <2>3. sentAt[1] = Millis(sends[1]) /\ sends[1] \in Nat /\ sends[1] <= time /\ time \in Nat
    BY <2>2 DEF PaceInv
  <2>4. (Millis(time) - Millis(sends[1])) % Wrap >= Second + 1
    BY <2>1, <2>2, <2>3 DEF Indication, SecondOver, Since, Now
  <2>5. time + 1 >= sends[1] + 2 * (Second + 1)
    BY <2>3, <2>4, SinceIsBounded, TimeAssumption
  <2> QED BY <2>3, <2>5, TimeAssumption
<1> QED BY <1>1, PaceInvariant, PTL DEF Spec, RateKept

-----------------------------------------------------------------------------
(* Telegrams lost and neither reported nor forgiven.                       *)
Unreported == losses + unrouted

(* The loss counter is ahead of what was reported by the losses not yet    *)
(* reported or forgiven, those met while routing and those met while not,  *)
(* and the last report is stamped with its time.                           *)
ReportInv ==
  /\ time \in Nat
  /\ lost \in 0 .. CounterWrap - 1 /\ lostReported \in 0 .. CounterWrap - 1
  /\ losses \in Nat /\ unrouted \in Nat
  /\ Unreported \in Nat /\ Unreported <= MaxLoss /\ Unreported = Pending
  /\ reports \in Seq(Nat) /\ Len(reports) <= 1
  /\ reports # <<>> =>
       lostSent /\ Last(reports) <= time /\ lostSentAt = Millis(Last(reports))

(* A report, a loss, or neither.                                           *)
LEMMA StepOfReport ==
  ASSUME Next
  PROVE  \/ Loop \/ LostToKnx
         \/ UNCHANGED report /\ time' \in {time, time + 1}
<1>1. CASE SendFrame
  BY <1>1 DEF SendFrame, bounds
<1>2. CASE \E wait \in WaitTimes : RoutingBusy(wait)
  BY <1>2 DEF RoutingBusy
<1>3. CASE \E joined \in BOOLEAN : Rejoin(joined)
  BY <1>3 DEF Rejoin
<1>4. CASE Program
  BY <1>4 DEF Program, bounds
<1>5. CASE Tick
  BY <1>5 DEF Tick, bounds
<1> QED BY <1>1, <1>2, <1>3, <1>4, <1>5 DEF Next

(* loop() reports what is pending, or forgives it.                         *)
LEMMA LoopKeepsReports ==
  ASSUME ReportInv, Loop
  PROVE  ReportInv'
<1> USE ReportAssumption
<1>1. time' = time /\ LoopLostMessage(sentAt')
  BY DEF Loop, bounds
<1>2. CASE ~programmed /\ lostReported' = lost /\ losses' = 0 /\ unrouted' = 0
           /\ UNCHANGED <<lost, lostSent, lostSentAt, reports>>
  <2>0. Unreported' = 0
    BY <1>2 DEF Unreported
  <2>1. Pending' = 0
    <3>1. (lost - lost) % CounterWrap = 0
      BY ModSmall DEF ReportInv
    <3> QED BY <3>1, <1>2 DEF Pending
  <2> QED BY <1>1, <1>2, <2>0, <2>1 DEF ReportInv, Millis
<1>3. CASE UNCHANGED report
  BY <1>1, <1>3 DEF report, ReportInv, Pending, Unreported, Millis
<1>4. CASE /\ MayReport(sentAt')
           /\ lostSent' = TRUE /\ lostSentAt' = Now /\ reports' = <<time>>
           /\ \/ LET count == IF Pending > ReportMax THEN ReportMax ELSE Pending
                 IN  lostReported' = Reported(count) /\ Tells(count)
              \/ UNCHANGED <<lostReported, losses, unrouted>>
           /\ UNCHANGED lost
  <2>1. /\ reports' \in Seq(Nat) /\ Len(reports') = 1
        /\ Last(reports') = time /\ Now = Millis(time) /\ time \in Nat
    BY <1>4 DEF Last, ReportInv, Now
  <2>2. /\ lostReported' \in 0 .. CounterWrap - 1
        /\ losses' \in Nat /\ unrouted' \in Nat
        /\ Unreported' \in Nat /\ Unreported' <= Unreported
        /\ Unreported' = Pending'
    <3>1. CASE UNCHANGED <<lostReported, losses, unrouted>>
      BY <3>1, <1>4 DEF ReportInv, Pending, Unreported
    <3>2. CASE LET count == IF Pending > ReportMax THEN ReportMax ELSE Pending
               IN  lostReported' = Reported(count) /\ Tells(count)
      <4> DEFINE count == IF Pending > ReportMax THEN ReportMax ELSE Pending
                 total == Unreported
      <4>1. lostReported' = (lostReported + count) % CounterWrap /\ Tells(count)
        BY <3>2 DEF Reported
      <4>2. total = IF lost >= lostReported THEN lost - lostReported
                                            ELSE lost - lostReported + CounterWrap
        BY ModSmall DEF ReportInv, Pending
      <4>3. /\ count \in Nat /\ count <= total
            /\ total \in Nat /\ total < CounterWrap
        BY DEF ReportInv
      <4>4. losses' \in Nat /\ unrouted' \in Nat /\ Unreported' = total - count
        <5> HIDE DEF count
        <5> QED BY <4>1, <4>3 DEF Tells, ReportInv, Unreported
      <4>5. Unreported' \in Nat /\ Unreported' <= Unreported
        <5> HIDE DEF count
        <5> QED BY <4>3, <4>4
      <4> HIDE DEF count, total
      <4>6. CASE lostReported + count < CounterWrap
        <5>1. lostReported' = lostReported + count
          BY <4>1, <4>3, <4>6, ModSmall DEF ReportInv
        <5>2. (lost - (lostReported + count)) % CounterWrap = total - count
          <6>1. (lost - (lostReported + count)) % CounterWrap =
                  IF lost - (lostReported + count) >= 0
                    THEN lost - (lostReported + count)
                    ELSE lost - (lostReported + count) + CounterWrap
            BY <4>3, <4>6, ModSmall DEF ReportInv
          <6> QED BY <6>1, <4>2, <4>3, <4>6 DEF ReportInv
        <5>3. lostReported' \in 0 .. CounterWrap - 1
          BY <5>1, <4>3, <4>6 DEF ReportInv
        <5>4. Unreported' = Pending'
          BY <5>1, <5>2, <4>4, <1>4 DEF Pending
        <5> QED BY <5>3, <5>4, <4>4, <4>5
      <4>7. CASE lostReported + count >= CounterWrap
        <5> DEFINE rest == lostReported + count - CounterWrap
        <5>1. rest \in 0 .. CounterWrap - 1
          BY <4>3, <4>7 DEF ReportInv
        <5>2. (lostReported + count) % CounterWrap = rest
          BY <4>3, <4>7, ModOver DEF ReportInv
        <5>3. rest = lostReported + count - CounterWrap
          OBVIOUS
        <5> HIDE DEF rest
        <5>4. (lost - rest) % CounterWrap =
                IF lost - rest >= 0 THEN lost - rest ELSE lost - rest + CounterWrap
          BY <5>1, ModSmall DEF ReportInv
        <5>5. (lost - rest) % CounterWrap = total - count
          BY <5>1, <5>3, <5>4, <4>2, <4>3, <4>7 DEF ReportInv
        <5>6. lostReported' = rest /\ lost' = lost
          BY <5>2, <4>1, <1>4
        <5>7. Unreported' = Pending'
          BY <5>5, <5>6, <4>4 DEF Pending
        <5> QED BY <5>1, <5>6, <5>7, <4>4, <4>5
      <4> QED BY <4>3, <4>6, <4>7 DEF ReportInv
    <3> QED BY <3>1, <3>2, <1>4
  <2>3. Unreported' <= MaxLoss
    BY <2>2 DEF ReportInv
  <2>4. lost' \in 0 .. CounterWrap - 1 /\ time' \in Nat
    BY <1>1, <1>4 DEF ReportInv
  <2>5. /\ reports' \in Seq(Nat) /\ Len(reports') = 1 /\ lostSent'
        /\ Last(reports)' <= time' /\ lostSentAt' = Millis(Last(reports))'
    BY <1>1, <1>4, <2>1 DEF Millis, Last
  <2> QED BY <2>2, <2>3, <2>4, <2>5 DEF ReportInv
<1> QED BY <1>1, <1>2, <1>3, <1>4 DEF LoopLostMessage

(* A loss is one more to report.                                           *)
LEMMA LossKeepsReports ==
  ASSUME ReportInv, LostToKnx
  PROVE  ReportInv'
<1> USE ReportAssumption
<1> DEFINE total == Unreported
<1>0. total \in Nat /\ total = Pending
  BY DEF ReportInv
<1>1. /\ total < MaxLoss /\ lost' = (lost + 1) % CounterWrap
      /\ losses' \in Nat /\ unrouted' \in Nat
      /\ Unreported' = total + 1
      /\ UNCHANGED <<time, lostReported, lostSent, lostSentAt, reports>>
  BY DEF LostToKnx, ReportInv, Unreported
<1> HIDE DEF total
<1>2. total = IF lost >= lostReported THEN lost - lostReported
                                      ELSE lost - lostReported + CounterWrap
  BY <1>0, ModSmall DEF ReportInv, Pending
<1>3. total + 1 <= MaxLoss /\ total + 1 < CounterWrap
  BY <1>0, <1>1 DEF ReportInv
<1>4. lost' \in 0 .. CounterWrap - 1 /\ total + 1 = (lost' - lostReported) % CounterWrap
  <2>1. CASE lost + 1 < CounterWrap
    <3>1. lost' = lost + 1
      BY <1>1, <2>1, ModSmall DEF ReportInv
    <3>2. (lost + 1 - lostReported) % CounterWrap =
            IF lost + 1 - lostReported >= 0 THEN lost + 1 - lostReported
                                            ELSE lost + 1 - lostReported + CounterWrap
      BY <2>1, ModSmall DEF ReportInv
    <3> QED BY <3>1, <3>2, <1>2, <1>3, <2>1 DEF ReportInv
  <2>2. CASE lost + 1 = CounterWrap
    <3>1. lost' = 0
      <4>1. CounterWrap % CounterWrap = 0
        BY DEF ReportInv
      <4> QED BY <4>1, <1>1, <2>2
    <3>2. (0 - lostReported) % CounterWrap =
            IF 0 - lostReported >= 0 THEN 0 - lostReported
                                     ELSE 0 - lostReported + CounterWrap
      BY ModSmall DEF ReportInv
    <3> QED BY <3>1, <3>2, <1>2, <1>3, <2>2 DEF ReportInv
  <2> QED BY <2>1, <2>2 DEF ReportInv
<1> QED BY <1>1, <1>3, <1>4 DEF ReportInv, Pending, Millis

(* What is pending is what was lost, in every reachable state.             *)
LEMMA ReportInvariant == Spec => []ReportInv
<1>1. Init => ReportInv
  <2> SUFFICES ASSUME Init PROVE ReportInv
    OBVIOUS
  <2>1. (0 - 0) % CounterWrap = 0
    BY ModSmall, ReportAssumption
  <2> QED BY <2>1, TimeAssumption, ReportAssumption DEF Init, ReportInv, Pending, Unreported
<1>2. ReportInv /\ [Next]_vars => ReportInv'
  <2> SUFFICES ASSUME ReportInv, [Next]_vars PROVE ReportInv'
    OBVIOUS
  <2>1. CASE Loop
    BY <2>1, LoopKeepsReports
  <2>2. CASE LostToKnx
    BY <2>2, LossKeepsReports
  <2>3. CASE UNCHANGED report /\ time' \in {time, time + 1}
    <3>1. time' \in Nat /\ time' >= time
      BY <2>3 DEF ReportInv
    <3>2. reports # <<>> => Last(reports) <= time'
      <4>1. reports # <<>> => Last(reports) \in Nat
        BY DEF Last, ReportInv
      <4> QED BY <4>1, <3>1 DEF ReportInv
    <3> QED BY <2>3, <3>1, <3>2 DEF ReportInv, report, Pending, Unreported, Last, Millis
  <2>4. CASE UNCHANGED vars
    BY <2>4 DEF vars, report, bounds, ReportInv, Pending, Unreported, Last, Millis
  <2> QED BY <2>1, <2>2, <2>3, <2>4, StepOfReport
<1> QED BY <1>1, <1>2, PTL DEF Spec

(* The reports of loopLostMessage, what is still pending and what a loop   *)
(* forgave add up to the losses, while fewer than CounterWrap wait to be   *)
(* reported.                                                               *)
THEOREM LossesAddUp == Spec => []LossesReported
<1>1. ReportInv => LossesReported
  BY DEF ReportInv, LossesReported, Unreported
<1> QED BY <1>1, ReportInvariant, PTL

(* Two reports are ReportGap apart, to the millisecond of millis().        *)
THEOREM ReportsApart == Spec => ReportsSpaced
<1>1. ReportInv /\ [Next]_vars =>
        [reports' # reports /\ reports # <<>> =>
           time + 1 >= Last(reports) + 2 * ReportGap]_vars
  <2> SUFFICES ASSUME ReportInv, Next, reports' # reports, reports # <<>>
               PROVE  time + 1 >= Last(reports) + 2 * ReportGap
    BY DEF vars, report
  <2>1. Loop
    BY StepOfReport DEF LostToKnx, report
  <2>2. MayReport(sentAt')
    BY <2>1 DEF Loop, LoopLostMessage, report
  <2>3. Last(reports) \in Nat /\ Last(reports) <= time /\ time \in Nat
        /\ lostSent /\ lostSentAt = Millis(Last(reports))
    BY DEF Last, ReportInv
  <2>4. (Millis(time) - Millis(Last(reports))) % Wrap >= ReportGap
    BY <2>2, <2>3 DEF MayReport, Since, Now
  <2> QED BY <2>3, <2>4, SinceIsBounded, ReportAssumption
<1> QED BY <1>1, ReportInvariant, PTL DEF Spec, ReportsSpaced

-----------------------------------------------------------------------------
(* Pauses.                                                                 *)

(* Of two moments less than the range of millis() apart, the difference of *)
(* the values shown tells the distance.                                    *)
LEMMA ShownDifference ==
  ASSUME NEW a \in Nat, NEW b \in Nat, a - b < Wrap, b - a <= Wrap
  PROVE  ((a % Wrap) - (b % Wrap)) % Wrap =
           IF a >= b THEN a - b ELSE IF b - a = Wrap THEN 0 ELSE a - b + Wrap
<1> DEFINE p == a \div Wrap  r == a % Wrap  q == b \div Wrap  s == b % Wrap
<1>0. Wrap \in Nat /\ Wrap > 0
  BY TimeAssumption
<1>1. a = Wrap * p + r /\ r \in 0 .. Wrap - 1 /\ p \in Int
  BY <1>0
<1>2. b = Wrap * q + s /\ s \in 0 .. Wrap - 1 /\ q \in Int
  BY <1>0
<1> HIDE DEF p, r, q, s
<1> DEFINE k == p - q
<1>3. a - b = Wrap * k + (r - s) /\ k \in Int
  BY <1>1, <1>2, <1>0
<1>4. (r - s) % Wrap = IF r - s >= 0 THEN r - s ELSE r - s + Wrap
  BY <1>0, <1>1, <1>2, ModSmall
<1> HIDE DEF k
<1>5. /\ k >= 2 => Wrap * k >= 2 * Wrap
      /\ k = 1 => Wrap * k = Wrap
      /\ k = 0 => Wrap * k = 0
      /\ k = -1 => Wrap * k = -Wrap
      /\ k <= -2 => Wrap * k <= -2 * Wrap
  BY <1>0, <1>3
<1>6. k \in {-1, 0, 1}
  BY <1>0, <1>1, <1>2, <1>3, <1>5
<1>7. (r - s) % Wrap =
        IF a >= b THEN a - b ELSE IF b - a = Wrap THEN 0 ELSE a - b + Wrap
  BY <1>0, <1>1, <1>2, <1>3, <1>4, <1>5, <1>6
<1> QED BY <1>7 DEF r, s

(* Less than half the range apart, the signed comparison is right.         *)
LEMMA BeforeIs ==
  ASSUME NEW a \in Nat, NEW b \in Nat,
         a - b < Wrap - Wrap \div 2, b - a <= Wrap \div 2
  PROVE  /\ Before(a % Wrap, b % Wrap) <=> a < b
         /\ a % Wrap = b % Wrap => a = b
<1> DEFINE h == Wrap \div 2
           d == ((a % Wrap) - (b % Wrap)) % Wrap
<1>1. Wrap \in Nat /\ Wrap > 0 /\ h \in Nat /\ 2 * h <= Wrap /\ a % Wrap \in Nat
  BY TimeAssumption
<1>2. a - b < Wrap - h /\ b - a <= h
  OBVIOUS
<1>3. Before(a % Wrap, b % Wrap) <=> d >= Wrap - h
  BY DEF Before
<1>4. a % Wrap = b % Wrap => d = 0
  <2>1. ((a % Wrap) - (a % Wrap)) % Wrap = 0
    BY <1>1, ModSmall
  <2> QED BY <2>1
<1> HIDE DEF h
<1>5. d = IF a >= b THEN a - b ELSE IF b - a = Wrap THEN 0 ELSE a - b + Wrap
  <2>1. a - b < Wrap /\ b - a <= Wrap
    BY <1>1, <1>2
  <2> QED BY <2>1, ShownDifference
<1> HIDE DEF d
<1> QED BY <1>1, <1>2, <1>3, <1>4, <1>5

(* Adding to a wrapped number wraps the sum.                               *)
LEMMA AddShown ==
  ASSUME NEW a \in Nat, NEW n \in Nat
  PROVE  ((a % Wrap) + n) % Wrap = (a + n) % Wrap
<1> DEFINE p == a \div Wrap  r == a % Wrap
           q == (r + n) \div Wrap  s == (r + n) % Wrap
           u == (a + n) \div Wrap  v == (a + n) % Wrap
<1>0. Wrap \in Nat /\ Wrap > 0
  BY TimeAssumption
<1>1. a = Wrap * p + r /\ r \in 0 .. Wrap - 1 /\ p \in Int
  BY <1>0
<1>2. r + n = Wrap * q + s /\ s \in 0 .. Wrap - 1 /\ q \in Int
  <2>1. r \in Nat BY <1>1, <1>0
  <2> HIDE DEF r
  <2> QED BY <1>0, <2>1
<1>3. a + n = Wrap * u + v /\ v \in 0 .. Wrap - 1 /\ u \in Int
  BY <1>0
<1> HIDE DEF p, r, q, s, u, v
<1> DEFINE k == u - p - q
<1>4. s - v = Wrap * k /\ k \in Int
  BY <1>0, <1>1, <1>2, <1>3
<1> HIDE DEF k
<1>5. k >= 1 => Wrap * k >= Wrap
  BY <1>0, <1>4
<1>6. k <= -1 => Wrap * k <= -Wrap
  BY <1>0, <1>4
<1>7. k = 0
  BY <1>0, <1>2, <1>3, <1>4, <1>5, <1>6
<1>8. s = v
  BY <1>0, <1>2, <1>3, <1>4, <1>7
<1> QED BY <1>8 DEF r, s, v

(* While a pause is on, loop() looks at it before half the range of        *)
(* millis() has passed since its wait times: 24 days.                      *)
LoopLooks == busy => time + 2 * MaxWait + 1 < quiet + Wrap

(* The moments, in whole milliseconds, that busyEnd and resumeAt stand for *)
(* are those of the last wait time to end and of the random pause after    *)
(* it.                                                                     *)
PauseOf(end, resume) ==
  /\ busyEnd = end % Wrap /\ resumeAt = resume % Wrap
  /\ 2 * end <= quiet /\ quiet <= 2 * end + 1
  /\ end <= resume /\ resume <= end + CountMax * RandomUnit
  /\ end <= time \div 2 + MaxWait

PauseInv ==
  /\ time \in Nat /\ quiet \in Nat
  /\ busy \in BOOLEAN /\ busyCount \in 0 .. CountMax
  /\ ~busy => quiet <= 2 * (time \div 2) + 1
  /\ busy => \E end, resume \in Nat : PauseOf(end, resume)

(* What is assumed of the wait times.                                      *)
LEMMA LongestPause ==
  /\ Wrap \in Nat /\ Wrap > 0 /\ Wrap \div 2 \in Nat
  /\ 2 * (Wrap \div 2) <= Wrap /\ Wrap <= 2 * (Wrap \div 2) + 1
  /\ MaxWait \in Nat /\ RandomUnit \in Nat /\ CountMax \in Nat
  /\ CountMax * RandomUnit \in Nat
  /\ MaxWait + CountMax * RandomUnit <= Wrap \div 2
<1>1. CountMax * RandomUnit \in Nat
  BY BusyAssumption
<1> QED BY <1>1, TimeAssumption, BusyAssumption, PauseAssumption

(* The code sees that the pause is over when it is.                        *)
LEMMA PausedIs ==
  ASSUME PauseInv, LoopLooks, busy, NEW end \in Nat, NEW resume \in Nat,
         PauseOf(end, resume)
  PROVE  Paused <=> time \div 2 < resume
<1> DEFINE now == time \div 2
           h == Wrap \div 2
           most == CountMax * RandomUnit
<1>1. time \in Nat /\ now \in Nat /\ 2 * now <= time /\ time <= 2 * now + 1 /\ quiet \in Nat
  BY DEF PauseInv
<1>2. /\ Wrap \in Nat /\ Wrap > 0 /\ h \in Nat /\ 2 * h <= Wrap /\ Wrap <= 2 * h + 1
      /\ MaxWait \in Nat /\ most \in Nat /\ MaxWait + most <= h
  BY LongestPause
<1>3. /\ 2 * end <= quiet /\ quiet <= 2 * end + 1 /\ end <= resume
      /\ resume <= end + most /\ end <= now + MaxWait
      /\ resumeAt = resume % Wrap
  BY DEF PauseOf
<1>4. time + 2 * MaxWait + 1 < quiet + Wrap
  BY DEF LoopLooks
<1>5. Paused <=> Before(now % Wrap, resume % Wrap)
  BY <1>3 DEF Paused, Now, Millis
<1> HIDE DEF now, h, most
<1>6. now - resume < Wrap - h /\ resume - now <= h
  BY <1>1, <1>2, <1>3, <1>4
<1>7. Before(now % Wrap, resume % Wrap) <=> now < resume
  BY <1>1, <1>6, BeforeIs DEF h
<1> QED BY <1>5, <1>7 DEF now

(* Whole milliseconds do not run back.                                     *)
LEMMA MillisecondsPass ==
  ASSUME NEW t \in Nat, NEW u \in {t, t + 1}
  PROVE  /\ u \in Nat /\ t \div 2 \in Nat /\ u \div 2 \in Nat
         /\ t \div 2 <= u \div 2
<1>1. u \in Nat /\ t <= u
  OBVIOUS
<1>2. t \div 2 \in Nat /\ 2 * (t \div 2) <= t
  OBVIOUS
<1>3. u \div 2 \in Nat /\ u <= 2 * (u \div 2) + 1
  BY <1>1
<1> QED BY <1>1, <1>2, <1>3

(* A pause that lasts: its moments are the same, and time does not run     *)
(* back.                                                                   *)
LEMMA PauseLasts ==
  ASSUME PauseInv, busy, busy', busyCount' \in 0 .. CountMax,
         UNCHANGED <<busyEnd, resumeAt, quiet>>, time' \in {time, time + 1}
  PROVE  PauseInv'
<1>1. PICK end \in Nat, resume \in Nat : PauseOf(end, resume)
  BY DEF PauseInv
<1>2. time' \in Nat /\ time \div 2 \in Nat /\ time' \div 2 \in Nat
      /\ time \div 2 <= time' \div 2 /\ quiet' \in Nat
  BY MillisecondsPass DEF PauseInv
<1>3. end <= time' \div 2 + MaxWait
  <2> DEFINE now == time \div 2  then == time' \div 2
  <2>1. end <= now + MaxWait /\ MaxWait \in Nat
    BY <1>1, LongestPause DEF PauseOf
  <2>2. now \in Nat /\ then \in Nat /\ now <= then
    BY <1>2
  <2> HIDE DEF now, then
  <2>3. end <= then + MaxWait
    BY <2>1, <2>2
  <2> QED BY <2>3 DEF then
<1>4. PauseOf(end, resume)'
  BY <1>1, <1>3 DEF PauseOf
<1>5. busy' = TRUE
  BY DEF PauseInv
<1> QED BY <1>2, <1>4, <1>5 DEF PauseInv

(* No pause is on.                                                         *)
LEMMA NoPauseLasts ==
  ASSUME PauseInv, ~busy, busy' = FALSE, busyCount' \in 0 .. CountMax,
         quiet' = quiet, time' \in {time, time + 1}
  PROVE  PauseInv'
<1>1. time' \in Nat /\ time \div 2 \in Nat /\ time' \div 2 \in Nat
      /\ time \div 2 <= time' \div 2 /\ quiet \in Nat
      /\ quiet <= 2 * (time \div 2) + 1
  BY MillisecondsPass DEF PauseInv
<1>2. quiet' <= 2 * (time' \div 2) + 1
  <2> DEFINE now == time \div 2  then == time' \div 2
  <2>1. now \in Nat /\ then \in Nat /\ now <= then /\ quiet <= 2 * now + 1
    BY <1>1
  <2> HIDE DEF now, then
  <2>2. quiet <= 2 * then + 1
    BY <1>1, <2>1
  <2> QED BY <2>2 DEF then
<1> QED BY <1>1, <1>2 DEF PauseInv

(* loopRoutingQueue takes the flag back once the pause is over.            *)
LEMMA QueueKeepsPause ==
  ASSUME PauseInv, LoopLooks, NEW waiting, LoopRoutingQueue(waiting), time' = time
  PROVE  PauseInv'
<1>1. /\ busy' = Paused
      /\ UNCHANGED <<busyEnd, resumeAt, quiet>>
      /\ busyCount' = busyCount \/ (busyCount > 0 /\ busyCount' = busyCount - 1)
  BY DEF LoopRoutingQueue, CountDecays
<1>2. busyCount' \in 0 .. CountMax
  BY <1>1, LongestPause DEF PauseInv
<1>3. CASE ~busy
  <2>1. busy' = FALSE
    BY <1>1, <1>3 DEF Paused
  <2> QED BY <1>1, <1>2, <1>3, <2>1, NoPauseLasts
<1>4. CASE busy /\ Paused
  BY <1>1, <1>2, <1>4, PauseLasts
<1>5. CASE busy /\ ~Paused
  <2>1. PICK end \in Nat, resume \in Nat : PauseOf(end, resume)
    BY <1>5 DEF PauseInv
  <2>2. ~(time \div 2 < resume)
    BY <1>5, <2>1, PausedIs
  <2>3. time \in Nat /\ time \div 2 \in Nat /\ quiet \in Nat
    BY DEF PauseInv
  <2>4. quiet <= 2 * end + 1 /\ end <= resume
    BY <2>1 DEF PauseOf
  <2>5. quiet <= 2 * (time \div 2) + 1
    BY <2>2, <2>3, <2>4
  <2>6. busy' = FALSE
    BY <1>1, <1>5
  <2> QED BY <1>1, <1>2, <2>3, <2>5, <2>6 DEF PauseInv
<1> QED BY <1>3, <1>4, <1>5

(* A ROUTING_BUSY: of the waits that overlap the longest counts.           *)
LEMMA BusyKeepsPause ==
  ASSUME PauseInv, LoopLooks, NEW wait \in WaitTimes, RoutingBusy(wait)
  PROVE  PauseInv'
<1> DEFINE now == time \div 2
           h == Wrap \div 2
           most == CountMax * RandomUnit
           new == now + Held(wait)
           over == time + 2 * Held(wait)
<1>1. /\ time \in Nat /\ now \in Nat /\ 2 * now <= time /\ time <= 2 * now + 1
      /\ quiet \in Nat
  BY DEF PauseInv
<1>2. /\ Wrap \in Nat /\ Wrap > 0 /\ h \in Nat /\ 2 * h <= Wrap /\ Wrap <= 2 * h + 1
      /\ MaxWait \in Nat /\ most \in Nat /\ MaxWait + most <= h
      /\ RandomUnit \in Nat /\ CountMax \in Nat
  BY LongestPause
<1>3. Held(wait) \in 0 .. MaxWait
  BY <1>2, BusyAssumption DEF Held
<1>4. /\ busy' = TRUE /\ time' = time
      /\ busyEnd' = WaitEnd((Now + Held(wait)) % Wrap)
      /\ quiet' = IF over > quiet THEN over ELSE quiet
  BY DEF RoutingBusy
<1>5. busyCount' \in 0 .. CountMax
  <2>1. busyCount \in 0 .. CountMax BY DEF PauseInv
  <2>2. busyCount' = busyCount \/ (busyCount < CountMax /\ busyCount' = busyCount + 1)
    BY <2>1, <1>2 DEF RoutingBusy, CountsApart
  <2> QED BY <1>2, <2>1, <2>2
<1>6. PICK pick \in 0 .. busyCount' * RandomUnit : resumeAt' = (busyEnd' + pick) % Wrap
  BY DEF RoutingBusy
<1>7. pick \in 0 .. most /\ pick \in Nat
  <2> DEFINE n == busyCount'
  <2>1. n \in Nat /\ n <= CountMax
    BY <1>2, <1>5
  <2>2. pick \in 0 .. n * RandomUnit
    BY <1>6
  <2> HIDE DEF n
  <2>3. n * RandomUnit <= CountMax * RandomUnit /\ n * RandomUnit \in Nat
    BY <1>2, <2>1
  <2> QED BY <1>2, <2>2, <2>3
<1>8. (Now + Held(wait)) % Wrap = new % Wrap
  BY <1>1, <1>3, AddShown DEF Now, Millis
<1> HIDE DEF h, most
<1>9. /\ new \in Nat /\ over \in Nat /\ new <= now + MaxWait
      /\ 2 * new <= over /\ over <= 2 * new + 1
  BY <1>1, <1>2, <1>3
<1> HIDE DEF new, over
<1>10. \E end \in Nat : /\ busyEnd' = end % Wrap
                        /\ 2 * end <= quiet' /\ quiet' <= 2 * end + 1
                        /\ end <= now + MaxWait
  <2>1. CASE ~busy
    <3>1. quiet <= 2 * now + 1 /\ now <= new
      BY <2>1, <1>1, <1>3 DEF PauseInv, new
    <3>2. busyEnd' = new % Wrap
      BY <2>1, <1>4, <1>8 DEF WaitEnd
    <3>3. 2 * new <= quiet' /\ quiet' <= 2 * new + 1
      BY <1>1, <1>4, <1>9, <3>1
    <3> QED BY <1>9, <3>2, <3>3
  <2>2. CASE busy
    <3>1. PICK old \in Nat, resume \in Nat : PauseOf(old, resume)
      BY <2>2 DEF PauseInv
    <3>2. /\ busyEnd = old % Wrap /\ 2 * old <= quiet /\ quiet <= 2 * old + 1
          /\ old <= now + MaxWait
      BY <3>1 DEF PauseOf
    <3>3. time + 2 * MaxWait + 1 < quiet + Wrap
      BY <2>2 DEF LoopLooks
    <3>4. now <= new
      BY <1>1, <1>3 DEF new
    <3> HIDE DEF now
    <3>5. new - old < Wrap - h /\ old - new <= h
      BY <1>1, <1>2, <1>9, <3>2, <3>3, <3>4
    <3>6. /\ Before(new % Wrap, old % Wrap) <=> new < old
          /\ new % Wrap = old % Wrap => new = old
      BY <1>9, <3>5, BeforeIs DEF h
    <3>7. busyEnd' = IF new % Wrap # old % Wrap /\ ~Before(new % Wrap, old % Wrap)
                       THEN new % Wrap ELSE old % Wrap
      BY <1>4, <1>8, <2>2, <3>2 DEF WaitEnd
    <3>8. CASE new <= old
      <4>1. busyEnd' = old % Wrap
        BY <1>9, <3>6, <3>7, <3>8
      <4>2. 2 * old <= quiet' /\ quiet' <= 2 * old + 1
        BY <1>1, <1>4, <1>9, <3>2, <3>8
      <4> QED BY <4>1, <4>2, <3>2
    <3>9. CASE old < new
      <4>1. busyEnd' = new % Wrap
        BY <1>9, <3>6, <3>7, <3>9
      <4>2. 2 * new <= quiet' /\ quiet' <= 2 * new + 1
        BY <1>1, <1>4, <1>9, <3>2, <3>9
      <4> QED BY <4>1, <4>2, <1>9
    <3> QED BY <1>9, <3>8, <3>9
  <2> QED BY <2>1, <2>2
<1>11. PICK end \in Nat : /\ busyEnd' = end % Wrap
                          /\ 2 * end <= quiet' /\ quiet' <= 2 * end + 1
                          /\ end <= now + MaxWait
  BY <1>10
<1>12. resumeAt' = (end + pick) % Wrap
  BY <1>6, <1>7, <1>11, AddShown
<1>13. end + pick \in Nat /\ end <= end + pick /\ end + pick <= end + most
  BY <1>2, <1>7
<1>14. PauseOf(end, end + pick)'
  BY <1>4, <1>11, <1>12, <1>13 DEF PauseOf, most, now
<1>15. quiet' \in Nat
  BY <1>1, <1>4, <1>9
<1> QED BY <1>1, <1>4, <1>5, <1>13, <1>14, <1>15 DEF PauseInv

(* The pauses are where the stamps say they are, as long as loop() looks   *)
(* in time.                                                                *)
LEMMA NextKeepsPause == PauseInv /\ LoopLooks /\ [Next]_vars => PauseInv'
<1> SUFFICES ASSUME PauseInv, LoopLooks, [Next]_vars PROVE PauseInv'
  OBVIOUS
<1>1. CASE Loop
  BY <1>1, QueueKeepsPause DEF Loop
<1>2. CASE SendFrame
  BY <1>2, QueueKeepsPause DEF SendFrame
<1>3. CASE \E wait \in WaitTimes : RoutingBusy(wait)
  BY <1>3, BusyKeepsPause
<1>4. CASE UNCHANGED pause /\ time' \in {time, time + 1}
  <2>1. UNCHANGED <<busy, busyCount, busyEnd, resumeAt, quiet>>
    BY <1>4 DEF pause
  <2>2. busy \in BOOLEAN /\ busyCount' \in 0 .. CountMax
    BY <2>1 DEF PauseInv
  <2> QED BY <1>4, <2>1, <2>2, PauseLasts, NoPauseLasts
<1>5. CASE LostToKnx \/ (\E joined \in BOOLEAN : Rejoin(joined)) \/ Program \/ Tick
  BY <1>4, <1>5 DEF LostToKnx, Rejoin, Program, Tick
<1>6. CASE UNCHANGED vars
  BY <1>4, <1>6 DEF vars
<1> QED BY <1>1, <1>2, <1>3, <1>5, <1>6 DEF Next

(* A pause ends: it is never longer than the wait times of the             *)
(* ROUTING_BUSYs that caused it and their random part, which are seconds,  *)
(* as long as loop() looks at it within half the range of millis(), which  *)
(* is days.  An older one would be on again (loopRoutingQueue).            *)
THEOREM PausesEnd == Spec /\ []LoopLooks => []PauseEnds
<1>1. Init => PauseInv
  <2> SUFFICES ASSUME Init PROVE PauseInv
    OBVIOUS
  <2>1. time \in Nat /\ time \div 2 \in Nat
    BY TimeAssumption DEF Init
  <2>2. 0 <= 2 * (time \div 2) + 1
    BY <2>1
  <2>3. /\ busy = FALSE /\ quiet = 0
        /\ busyCount \in 0 .. CountMax
    BY BusyAssumption DEF Init
  <2> HIDE DEF Init
  <2>4. quiet \in Nat /\ busy \in BOOLEAN /\ quiet <= 2 * (time \div 2) + 1
    BY <2>2, <2>3
  <2> QED BY <2>1, <2>3, <2>4, Zenon DEF PauseInv
<1>2. PauseInv /\ LoopLooks /\ [Next]_vars => PauseInv'
  BY NextKeepsPause
<1>3. PauseInv /\ LoopLooks => PauseEnds
  <2> SUFFICES ASSUME PauseInv, LoopLooks, Paused
               PROVE  time <= quiet + 2 * CountMax * RandomUnit
    BY DEF PauseEnds
  <2>1. busy
    BY DEF Paused
  <2>2. PICK end \in Nat, resume \in Nat : PauseOf(end, resume)
    BY <2>1 DEF PauseInv
  <2>3. time \div 2 < resume
    BY <2>1, <2>2, PausedIs
  <2> DEFINE most == CountMax * RandomUnit
  <2>4. resume <= end + most /\ 2 * end <= quiet /\ most \in Nat
    BY <2>2, LongestPause DEF PauseOf
  <2>5. 2 * CountMax * RandomUnit = 2 * most
    BY LongestPause
  <2>6. time \in Nat /\ time <= 2 * (time \div 2) + 1 /\ time \div 2 \in Nat /\ quiet \in Nat
    BY DEF PauseInv
  <2> HIDE DEF most
  <2> QED BY <2>3, <2>4, <2>5, <2>6
<1> QED BY <1>1, <1>2, <1>3, PTL DEF Spec

=============================================================================
