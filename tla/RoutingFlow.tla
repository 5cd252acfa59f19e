---------------------------- MODULE RoutingFlow -----------------------------
(***************************************************************************)
(* Flow control of KNXnet/IP routing (IpDataLinkLayer::sendFrame,          *)
(* loopRoutingQueue, loopLostMessage, the RoutingBusy case of              *)
(* loopHandleDatagram, enabled).                                           *)
(*                                                                         *)
(* Telegrams for the IP side wait in a queue of bounded depth and go out   *)
(* some milliseconds apart, a bounded number in any second, and not while  *)
(* another router is busy.  Telegrams lost on their way to the TP side are *)
(* summed up and reported to the other routers.                            *)
(*                                                                         *)
(* Time is real time in half milliseconds; the code sees millis(), which   *)
(* is whole milliseconds and wraps.  The main loop calls loop() at any     *)
(* time.  The queue is its length: telegrams are alike here.               *)
(***************************************************************************)
EXTENDS Integers, Sequences

CONSTANTS
  Wrap,          \* 2^32, the range of millis()
  QueueDepth,    \* RoutingQueueDepth
  Gap,           \* 5 ms between two ROUTING_INDICATIONs
  PerSecond,     \* 50 ROUTING_INDICATIONs ...
  Second,        \* ... in any 1000 ms
  MaxWait,       \* the longest wait time of a ROUTING_BUSY, 100 ms
  WaitTimes,     \* wait times received
  RandomUnit,    \* 50 ms of random pause for each ROUTING_BUSY counted
  BusySpacing,   \* 10 ms between ROUTING_BUSYs counted apart
  CountMax,      \* 255
  QuietUnit,     \* 100 ms without one for each counted, before N falls
  DecayGap,      \* N falls every 5 ms
  ReportGap,     \* 1000 ms between two reports of lost telegrams
  ReportMax,     \* 0xFFFF telegrams in one report
  CounterWrap,   \* 2^32, the range of the loss counter
  Start,         \* real times the device may start at
  MaxTime,       \* bound: real time
  MaxBusy,       \* bound: ROUTING_BUSYs received
  MaxLoss,       \* bound: telegrams lost and not yet reported
  MaxRejoin      \* bound: how often the endpoint is reopened

ASSUME TimeAssumption ==
  /\ Wrap \in Nat \ {0}
  /\ Gap \in Nat /\ Second \in Nat /\ PerSecond \in Nat \ {0}
  /\ Start \subseteq Nat /\ MaxTime \in Nat
ASSUME QueueAssumption == QueueDepth \in Nat
ASSUME BusyAssumption ==
  /\ WaitTimes \subseteq Nat
  /\ MaxWait \in Nat /\ RandomUnit \in Nat /\ BusySpacing \in Nat
  /\ CountMax \in Nat /\ QuietUnit \in Nat /\ DecayGap \in Nat
(* The longest pause is within half the range of millis().                 *)
ASSUME PauseAssumption == MaxWait + CountMax * RandomUnit <= Wrap \div 2
(* Fewer telegrams wait to be reported than the counter counts.            *)
ASSUME ReportAssumption ==
  /\ ReportGap \in Nat /\ ReportMax \in Nat \ {0}
  /\ MaxLoss \in Nat /\ CounterWrap \in Nat /\ MaxLoss < CounterWrap

VARIABLES
  time,          \* real time
  enabled,       \* _enabled
  programmed,    \* routingActive()
  queued,        \* _routingQueueCount
  sentAt,        \* _routingSentAt, oldest first; its last is _routingLastSentAt
  busy,          \* _routingBusy
  busyEnd,       \* _routingBusyEnd
  resumeAt,      \* _routingResumeAt
  busyCount,     \* _routingBusyCount
  busyLastAt,    \* _routingBusyLastAt
  busyDecAt,     \* _routingBusyDecAt
  lost,          \* KnxIpCounters::_lostToKnx
  lostReported,  \* _lostReported
  lostSent,      \* _lostSent
  lostSentAt,    \* _lostSentAt
  sends,         \* history: real times of the last PerSecond indications
  quiet,         \* history: real time at which the wait times are over
  reports,       \* history: real time of the last report, if there is one
  losses,        \* history: telegrams lost while routing, not yet reported
  unrouted,      \* history: telegrams lost while not, not yet forgiven
  busies, rejoins \* counts of what the bounds limit

pace == <<queued, sentAt, sends>>
pause == <<busy, busyEnd, resumeAt, busyCount, busyLastAt, busyDecAt, quiet>>
report == <<lost, lostReported, lostSent, lostSentAt, reports, losses, unrouted>>
link == <<enabled, programmed>>
bounds == <<busies, rejoins>>
vars == <<time, link, pace, pause, report, bounds>>

-----------------------------------------------------------------------------
Millis(t) == (t \div 2) % Wrap
Now == Millis(time)

Since(stamp) == (Now - stamp) % Wrap

(* Fault: stamps are compared as they are.                                 *)
BugBefore(a, b) == a < b

(* (int32_t)(a - b) < 0 *)
Before(a, b) == (a - b) % Wrap >= Wrap - Wrap \div 2

Last(s) == s[Len(s)]

LastOnes(s) == IF Len(s) > PerSecond THEN Tail(s) ELSE s

GapOver(stamps) == stamps # <<>> => Since(Last(stamps)) >= Gap + 1

(* Fault: so is the second.                                                *)
BugSecondOver == Len(sentAt) = PerSecond => Since(sentAt[1]) >= Second

SecondOver == Len(sentAt) = PerSecond => Since(sentAt[1]) >= Second + 1

(* N falls once it was quiet long enough.                                  *)
CountDecays ==
  /\ busyCount > 0
  /\ Since(busyLastAt) >= busyCount * QuietUnit
  /\ Since(busyDecAt) >= DecayGap

Paused == busy /\ Before(Now, resumeAt)

MaySend(waiting) == waiting > 0 /\ ~Paused /\ GapOver(sentAt) /\ SecondOver

(* Whether the IP stack takes the datagram changes counters only.          *)
LoopRoutingQueue(waiting) ==
  /\ IF CountDecays
       THEN busyCount' = busyCount - 1 /\ busyDecAt' = Now
       ELSE UNCHANGED <<busyCount, busyDecAt>>
  /\ busy' = Paused
  /\ IF MaySend(waiting)
       THEN /\ queued' = waiting - 1
            /\ sentAt' = LastOnes(Append(sentAt, Now))
            /\ sends' = LastOnes(Append(sends, time))
       ELSE /\ queued' = waiting
            /\ UNCHANGED <<sentAt, sends>>
  /\ UNCHANGED <<busyEnd, resumeAt, busyLastAt, quiet>>

Pending == (lost - lostReported) % CounterWrap

(* Fault: a report accounts for all that is pending, not for what it says. *)
BugReported(count) == lost

Reported(count) == (lostReported + count) % CounterWrap

MayReport(stamps) ==
  Pending > 0 /\ (lostSent => Since(lostSentAt) >= ReportGap) /\ GapOver(stamps)

(* What a report of count telegrams says is lost: those lost while routing *)
(* first, so that it tells of others only if it has to.                    *)
Tells(count) ==
  LET others == IF count > losses THEN count - losses ELSE 0
  IN  losses' = losses - (count - others) /\ unrouted' = unrouted - others

(* What is pending while the device is not programmed is forgiven.  A      *)
(* report the IP stack refuses is tried again a second later.              *)
LoopLostMessage(stamps) ==
  \/ /\ ~programmed
     /\ lostReported' = lost /\ losses' = 0 /\ unrouted' = 0
     /\ UNCHANGED <<lost, lostSent, lostSentAt, reports>>
  \/ /\ programmed /\ ~MayReport(stamps)
     /\ UNCHANGED report
  \/ /\ programmed /\ MayReport(stamps)
     /\ lostSent' = TRUE /\ lostSentAt' = Now /\ reports' = <<time>>
     /\ \/ LET count == IF Pending > ReportMax THEN ReportMax ELSE Pending
           IN  lostReported' = Reported(count) /\ Tells(count)
        \/ UNCHANGED <<lostReported, losses, unrouted>>
     /\ UNCHANGED lost

(* IpDataLinkLayer::loop *)
Loop ==
  /\ enabled
  /\ LoopRoutingQueue(queued)
  /\ LoopLostMessage(sentAt')
  /\ UNCHANGED <<time, link, bounds>>

(* A frame for the IP side.  Not routing, it is confirmed and dropped; the *)
(* endpoint closed or the queue full, it is lost.                          *)
SendFrame ==
  /\ programmed /\ enabled /\ queued < QueueDepth
  /\ LoopRoutingQueue(queued + 1)
  /\ UNCHANGED <<time, link, report, bounds>>

(* The end of the wait, or that of an earlier one if it is later.          *)
WaitEnd(end) ==
  IF ~busy \/ (end # busyEnd /\ ~Before(end, busyEnd)) THEN end ELSE busyEnd

Held(wait) == IF wait > MaxWait THEN MaxWait ELSE wait

CountsApart == (busyCount = 0 \/ Since(busyLastAt) >= BusySpacing) /\ busyCount < CountMax

RoutingBusy(wait) ==
  /\ enabled /\ busies < MaxBusy
  /\ busyCount' = busyCount + (IF CountsApart THEN 1 ELSE 0)
  /\ busyLastAt' = Now
  /\ busyEnd' = WaitEnd((Now + Held(wait)) % Wrap)
  /\ busy' = TRUE
  /\ \E pick \in 0 .. busyCount' * RandomUnit : resumeAt' = (busyEnd' + pick) % Wrap
  /\ quiet' = LET over == time + 2 * Held(wait) IN IF over > quiet THEN over ELSE quiet
  /\ busies' = busies + 1
  /\ UNCHANGED <<time, link, pace, busyDecAt, report, rejoins>>

Routes == enabled /\ programmed

(* KnxIpCounters::lostToKnx, whether the device routes or not.             *)
LostToKnx ==
  /\ losses + unrouted < MaxLoss
  /\ lost' = (lost + 1) % CounterWrap
  /\ IF Routes THEN losses' = losses + 1 /\ UNCHANGED unrouted
               ELSE unrouted' = unrouted + 1 /\ UNCHANGED losses
  /\ UNCHANGED <<time, link, pace, pause, lostReported, lostSent, lostSentAt,
                 reports, busies, rejoins>>

(* knxRejoinRouting in main.cpp: enabled(false), which empties the queue,  *)
(* and enabled(true), which fails when the group cannot be joined.         *)
Rejoin(joined) ==
  /\ rejoins < MaxRejoin
  /\ enabled' = joined
  /\ queued' = 0
  /\ rejoins' = rejoins + 1
  /\ UNCHANGED <<time, programmed, sentAt, sends, pause, report, busies>>

(* The configuration tool writes the individual address of the device.     *)
Program ==
  /\ ~programmed
  /\ programmed' = TRUE
  /\ UNCHANGED <<time, enabled, pace, pause, report, bounds>>

Tick ==
  /\ time < MaxTime
  /\ time' = time + 1
  /\ UNCHANGED <<link, pace, pause, report, bounds>>

Init ==
  /\ time \in Start
  /\ enabled = TRUE /\ programmed \in BOOLEAN
  /\ queued = 0 /\ sentAt = <<>> /\ sends = <<>>
  /\ busy = FALSE /\ busyEnd = 0 /\ resumeAt = 0
  /\ busyCount = 0 /\ busyLastAt = 0 /\ busyDecAt = 0 /\ quiet = 0
  /\ lost = 0 /\ lostReported = 0 /\ lostSent = FALSE /\ lostSentAt = 0
  /\ reports = <<>> /\ losses = 0 /\ unrouted = 0
  /\ busies = 0 /\ rejoins = 0

Next ==
  \/ Loop
  \/ SendFrame
  \/ \E wait \in WaitTimes : RoutingBusy(wait)
  \/ LostToKnx
  \/ \E joined \in BOOLEAN : Rejoin(joined)
  \/ Program
  \/ Tick

Spec == Init /\ [][Next]_vars

-----------------------------------------------------------------------------
(* Properties.                                                             *)

Sending == sends' # sends

(* Every variable keeps its type; queue, ring and N keep to their bounds.  *)
TypeOK ==
  /\ time \in Nat /\ {enabled, programmed, busy, lostSent} \subseteq BOOLEAN
  /\ queued \in 0 .. QueueDepth
  /\ sentAt \in Seq(0 .. Wrap - 1) /\ Len(sentAt) <= PerSecond
  /\ sends \in Seq(Nat) /\ Len(sends) = Len(sentAt)
  /\ {busyEnd, resumeAt, busyLastAt, busyDecAt, lostSentAt} \subseteq 0 .. Wrap - 1
  /\ busyCount \in 0 .. CountMax /\ quiet \in Nat
  /\ {lost, lostReported} \subseteq 0 .. CounterWrap - 1
  /\ reports \in Seq(Nat) /\ {losses, unrouted} \subseteq Nat

(* Two ROUTING_INDICATIONs are Gap milliseconds of real time apart,        *)
(* although millis() shows the distance of two moments up to a millisecond *)
(* too long, and wraps.                                                    *)
GapKept == [][Sending /\ sends # <<>> => time >= Last(sends) + 2 * Gap]_vars

(* No second of real time sees more than PerSecond of them.                *)
RateKept ==
  [][Sending /\ Len(sends) = PerSecond => time >= sends[1] + 2 * Second]_vars

(* A pause ends: it is never longer than the wait times and the random     *)
(* part of the ROUTING_BUSYs that caused it.                               *)
PauseEnds == Paused => time <= quiet + 2 * CountMax * RandomUnit

(* What the reports of loopLostMessage say adds up, across the wrap of the *)
(* counter and the limit of one report: what waits to be reported are the  *)
(* telegrams lost while routing and not yet reported, and those lost while *)
(* not routing that no loop has forgiven yet.  These are reported as well  *)
(* if the device routes before the next loop, which a comment denies.      *)
LossesReported == losses + unrouted = Pending

(* Reports are ReportGap apart, to the millisecond of millis().            *)
ReportsSpaced ==
  [][reports' # reports /\ reports # <<>> => time + 1 >= Last(reports) + 2 * ReportGap]_vars

=============================================================================
