# ip4knx in TLA+

ip4knx is the firmware of a KNXnet/IP gateway: an ESP32 between a KNX TP line,
reached through an NCN5130 transceiver, and an IP network. It is a tunnel
server with ten connections, a KNXnet/IP router, and a KNX device of its own.
The modules here model the parts of it in which order, loss, time and shared
resources matter, TLC checks them on small instances, and TLAPS proves the
central results for every value of the parameters.

Paths below are short: `knx/` is `src/tul-knx-gateway/lib/knx/src/knx/`,
`TPUart/` is `src/tul-knx-gateway/lib/TPUart/src/TPUart/`, `main.cpp` is
`src/tul-knx-gateway/src/main.cpp`. `PROJECT.json` maps every definition to
the lines it models.

## 1. The system

### How it runs

Two threads share the KNX state. The main loop (`main.cpp`, `loop()`) runs the
stack: `Bau091A::loop` calls the loops of the layers, the IP data link layer
takes datagrams off its socket and looks at its timers, and
`TPUart::DataLinkLayer::process` serves the transceiver. The UART task receives
the octets of the transceiver, takes frames apart and acknowledges them on the
bus within bit times. They meet in the transmitter's state, in the ring of
received frames, in a few flags (`rxLock`, `txLock`) and in the copy of the
tunnel addresses that are acknowledged on the bus. Web server and update tasks
run beside them and reach the KNX state through flags.

```
 clients --UDP--> IpDataLinkLayer --> CemiServer --> DataLinkLayer (TP)
    ^               |   ^    | routing                 |        ^
    |               |   |    v                         v        |
    +-- queues <----+   +- NetworkLayerCoupler <--> TpUartDataLinkLayer
                               |                       |        ^
                        TransportLayer          Transmitter   ring
                               |                       v        |
                        ApplicationLayer             chip --> UART task
```

### Components

| component | state | operations | with whom |
|---|---|---|---|
| tunnel delivery (`knx/ip_data_link_layer.cpp`, `knx_ip_tunnel_connection.*`) | per connection a queue, the request on the wire, its repeats, a send counter; one octet budget | queue a frame, give up a group telegram, send, repeat, acknowledge, close | `CemiServer` above, UDP below |
| tunnel server (same, `ip_parameter_object.cpp`) | slots, channel ids, heartbeat stamps, pool, reservations, defended addresses | connect, connection state, disconnect, heartbeat timeout, refresh | clients, configuration tool, UART task |
| tunnel uplink and cEMI server (same, `cemi_server.cpp`, `data_link_layer.cpp`) | receive counter per connection | take a request, answer management, send a telegram, confirm it, indicate it | clients, TP transmit path |
| routing (`ip_data_link_layer.cpp`, `knx_ip_counters.h`) | queue, last fifty send times, pause, busy count, loss counter | send paced, hold on ROUTING_BUSY, report losses, rejoin | other routers |
| TP transmit (`TPUart/*`, `tpuart_data_link_layer.cpp`) | queue, frame in flight, dropped frames, ring, receiver state, reset flags | send, echo, confirm, watchdogs, reset | chip, main loop, UART task |
| TP receive (`TPUart/Receiver.cpp`, `RepetitionFilter.cpp`, `Transmitter.cpp`) | search buffer, parked acknowledge, register read, filter | acknowledge, filter, read registers, monitor | chip |
| transport layer (`knx/transport_layer.cpp`) | one connection: state, sequence numbers, saved frames, two timers | events E0 to E26, actions A0 to A15, loop | network and application layer |
| network layer coupler (`knx/network_layer_coupler.cpp`, `bau091A.cpp`) | coupler type, arrival slots | route by topology and modes, hop count, answer side; acknowledge | both data link layers |
| router object, tables, properties, memory (`knx/table_object.cpp`, `memory.cpp`) | load states, table data, parameters; flash and its copy in RAM; save timers | load events, property and memory writes, scheduled and timed saves, boot | configuration tool |
| application layer, security | pending responses | services | transport layer |
| `Bau091A`, `BauSystemB` | pending basic restart | wires the layers, calls the loops, restarts | all |
| `main.cpp` | interface in use, access point, update state, pending restart and reset, unconfirmed firmware | select interface, rejoin, update, reset, confirm, recover the transceiver | platform |
| ESP32 platform | sockets, flash, UART driver | I/O | - |

### What is hard, and what makes each part correct

* Delivery: the network loses, repeats and reorders while frames are given up
  for lack of room. A frame is delivered once and in order or counted as lost;
  an acknowledge is believed for the request it was meant for and no other; the
  octet budget leaks nothing.
* Server: clients crash, answers are lost, configuration changes under open
  connections. Ids and addresses of open connections differ, what is reserved
  stays reserved, slots come back.
* Uplink: a repeated request must not run twice, and the confirmation of a
  telegram comes much later and finds its client by an address that may have
  changed hands.
* Routing: real-time limits kept with a clock that is coarse and wraps.
* TP transmit: two threads, a chip that restarts by itself, echoes that are
  told by their header alone. A frame is confirmed, once and truthfully, or
  lost in one of few known ways.
* Transport layer: timers against late acknowledges, four-bit numbers, a saved
  request that may outlive its connection, an application with its own idea of
  the connection. A request is taken once, an acknowledged one was taken, no
  wait is for ever.
* Coupler: two threads judge one telegram by different code, the configuration
  may change between them, and a table of few slots decides the way of an
  answer.
* Configuration: load state and table data are stored by different paths,
  saves are held off and spaced, and six kinds of restart come in between, some
  with other firmware. What counts as loaded is whole, a change is saved in
  time, a reset is not undone.

`PROJECT.json` lists these as hazards, each at its line, with the properties
that cover it, or why none does yet.

## 2. Modules

| module | what it is |
|---|---|
| `TunnelDelivery` | queues, send counter, repeats and acks of the channels; client and network as environment |
| `TunnelContract` | what a client is promised: the abstract specification `TunnelDelivery` implements |
| `TunnelServer` | slots, channel ids, addresses, reservations, heartbeats |
| `TunnelUplink` | requests of the clients, telegrams to the line, confirmations, indications, answers |
| `RoutingFlow` | pacing of routing, busy, lost messages |
| `TpTransmit` | main loop, UART task and chip: frames sent and confirmed |
| `LineContract` | what the stack is promised of frames and confirmations: the abstract specification `TpTransmit` implements |
| `TpLink` | main loop, UART task and chip: resets, register reads, configuration, a receiver out of step |
| `TpDriver` | the state of the driver that `TpTransmit` and `TpLink` share |
| `TpAgreement` | what host and chip of `TpLink` agree on, apart so that the theorem can name it |
| `TransportLayer` | the connection state machine as functions on its state |
| `TransportLine` | the layer with a configuration tool, another device and a lossy line |
| `Coupler` | routing, arrivals and the acknowledge on one changing configuration |
| `Configuration` | load states, memory, saves, restarts, reset, firmware |
| `TunnelDelivery_proofs`, `TunnelServer_proofs`, `TunnelUplink_proofs`, `RoutingFlow_proofs`, `TpTransmit_proofs`, `TransportLine_proofs`, `Coupler_proofs`, `Configuration_proofs` | theorems |
| `MC*` | instances for TLC, with their `.cfg` files |

The modules meet at stated interfaces. `TunnelUplink` puts what a client is
sent into an inbox; that it arrives in this order, if the channel stays open,
is `TunnelContract`. It takes from `TunnelServer` that addresses of open tunnels
differ (its `Connect` picks an address nobody holds), and from `TpTransmit`
that the line answers every frame once, which is `LineContract` unless the chip
restarts by itself (section 5). `TunnelServer` leaves what a connection carries to the other
two. `Coupler` takes the open tunnels as a set of addresses that changes at any
time. `TransportLine` sees the network layer as a line; the side an answer
takes is `Coupler`'s. A restart ends all of them: `Configuration` has what is
left of the device afterwards. The main loop runs the handlers one after the other, so a handler is one
step everywhere but in `TpTransmit` and `TpLink`, where the UART task runs in
between.

### TunnelDelivery

`tun[c]` is the `KnxIpTunnelConnection` of slot c: `TxQueue` as a set of frames
stamped in the order they were offered, `TxOnWire`, `TxSeq` (octet 8 of the
datagram at the head), `TxRepeats`, `SequenceCounter_S`. `QueuedBytes` is the
static budget. The counters `StatAcks` and `StatDrops` hold the stamps they
count. `FrameQueued` and `FrameLost` are `sendFrameToTunnel` with its evictions
(`dropQueuedGroupTelegram`) and the `sendTunnelHead` at its end; `AckTimeout` is
`loopTunnelTimers` with `resendOrCloseTunnel`; `AckReceived` and
`NegativeAckReceived` are `loopHandleAck`, again with `sendTunnelHead`;
`CloseTunnel` is every other way to `TxClear` and `Reset`. `net` is a set: a
datagram in it may be delivered often, late and out of order until it vanishes.
One assumption bounds that: a datagram does not outlive `SeqMod - 2` newer
requests of its channel (254 in the code, each of which took a round trip);
without it no one-octet counter can work. Channel ids differ (`TunnelServer`), so
datagrams of an earlier channel on the slot are dropped at `Connect`.

### TunnelServer

`slots[i]` is the part of the connection the server decides by; `own`, `pool` and
`res` are the device's address, PID_ADDITIONAL_INDIVIDUAL_ADDRESSES and the
reservations; `defended` is the copy the UART task reads. The four disjuncts of
`ConnectRequest` are the branches of `loopHandleConnectRequest`: a free reserved
slot, a take-over (option 2), an unreserved slot (option 3 included), a refusal.
All of them renew a pool that is not current, as the handler does before it
looks. `TunnelAddress`, what a connection gets, and `DefendedPool`, what the UART task
defends, both start from `CurrentPool`; which of its addresses they use is worked
out apart, as in the code.
`heard` is a ghost: the client has its connect response and is alive.
`Sends` says who may send for a channel: its client while it lives, and any
other host that remembers the id from an earlier connection.

### TunnelUplink

A session is one connection from its CONNECT_REQUEST on. `RequestRepeated`,
`RequestExecuted` and `RequestDiscarded` are the three ways through
`loopHandleTunnelingRequest` and `loopHandleDeviceConfigurationRequest`; the ack is
sent and the request executed in one step, as in the handler. `Execute` is
`CemiServer::frameReceived` and `DataLinkLayer::dataRequestFromTunnel`: local
management is answered, a telegram to the device itself is confirmed before the
local stack runs, any other is indicated to the other tunnels and queued for
the line or refused and confirmed. `LineAnswers` is `dataConReceived`.

### TransportLayer and TransportLine

A handler of the transport layer calls actions, the actions call the network
layer and the application, and the application may answer in the same call. So
`TransportLayer` has no actions: its state `t` is a record, each event and each
action (named as in the code, A1 to A13, E0 to E25 in comments) a function on
it, and `DataIndividualIndication`, `ConnectConfirm`, `LayerLoop` and
`RestartRequest` are whole handlers. `t.sent` and `t.passed` collect what a handler
gives to the network layer and to the application. `connectedTsap` is the
application layer's. `TransportLine` makes one step of each handler call; the
main loop hands up frames, then runs `loop`, then the application, so a pass is
not interrupted by `AskRestart`. The tool is the protocol's other end: it numbers,
repeats, gives up, crashes and comes back; the line loses and repeats. The other
device only connects; one that sent data to a connection that is not its own
would be a stranger to the same branches.

### Coupler

`FrameReceived` is the way of a frame through `routeDataIndividual`,
`dataIndication` and `broadcastIndication` with `sendMsgHopCount`; `IsAckRequired` is
`Bau091A::isAckRequired`, which the UART task calls (`TpReceive`) before the main
loop takes the frame out of the ring (`TpProcess`). Both read address, modes and
tunnels, which the actions `WriteAddress`, `WriteLcConfig`, `WriteGrpConfig` and
`TunnelChanges` rewrite in between. `arrivals` and `arrivalNext` are the ring of
`noteArrival`. `echo` is a frame another coupler hands back: how telegrams
circle. The filter table is absent: with 0x2200 octets it does not fit the
memory of 1024, so it is never loaded, and `configured()` of this device never
becomes true after a restart (`knx/bau091A.cpp:265`).

### Configuration

`ram` is what the properties hold, the load state and the data of the
application program's table (the EEPROM emulation in RAM) and the three stamps
of `Memory`; `flash` is what the last commit left. `LoadEvent` is the load state
machine of a static table, `LoadControl` the property write that carries it,
`MemoryWrite` the write of table data. `ReadMemory` is a boot: an image of another
layout is not read, one of another version is read with its table unloaded and
filled. `Boot` starts an image, `Restart` lets the boot loader choose it. The
restarts are `RestartRequest` (A_Restart, saved), `Loop` with `BasicRestartDue`
(M_Reset.req, saved when pending), `Loop` with `RebootDue` (web interface, not
saved; erased for a reset), `UpdateInstalled` (not saved) and `PowerLoss`.
A handler of the web server sets `pendingReboot` before `rebootTime`; the loop in
between restarts at once (`WebReboot`). `late` is a ghost: how long a restart has
been about to lose something.

### RoutingFlow

`time` is real time in half milliseconds, `Now` what `millis()` shows of it. Every
stamp of the code is kept as the code keeps it, modulo `Wrap`; ghosts keep the
real times. `Loop` is `loopRoutingQueue` and then `loopLostMessage`; `SendFrame` is
`sendFrame` with the `loopRoutingQueue` at its end; `RoutingBusy` the case of
`loopHandleDatagram`; `Rejoin` is `knxRejoinRouting` in `main.cpp`. Telegrams lost are
counted by two ghosts, `losses` for those met while the device routes and
`unrouted` for those met while it is not programmed or its endpoint is closed. A
report says a number only; `Tells` takes it for losses of the first kind as far as
there are any.

### TpTransmit

`pc` says where the main loop is in `DataLinkLayer::process` or `reset()`; each
value is a point at which the UART task may run. `UartTask` takes one token off
the serial line: an echo, a confirmation, a state answer, a foreign frame,
U_Reset.ind, a damaged octet; the six disjuncts are what the receiver makes of
it. It does not run while the main loop holds `rxLock`, which over
`handleReset()` is the value `clear` of `pc`. The chip takes a frame given from its
start while it is free, echoes each attempt, confirms once, restarts on
request, and loses and regains its supply by itself. `lost` is a ghost: the
frames whose confirmation was lost between chip and ring. Frames are group
telegrams; a frame to an individual address the device acknowledges itself is
counted as delivered by that acknowledge (`tpuart_data_link_layer.cpp:278`).

`LineContract` is what is left of this for the stack. A frame is accepted or
refused (`sendFrame` with its negative confirmation), waits, is given to the line
in order and one at a time, and is confirmed; the frame at the head or all may be
given up. A confirmation is of a frame that does not wait any more, positive only
if the line acknowledged the frame, and the first of its frame, or the second to
a negative one after the chip restarted by itself. Threads, ring, echoes and
flags are gone: `Waiting` is the queue behind the frame being written, and
`atLine` the frame the chip has.

### TpLink

The same two threads and the same chip, seen from the receiver. Octets are grouped
into tokens: head, body and CRC of a frame, U_Reset.ind, U_Configure.ind, a
state answer, a register answer, a damaged octet. `rx` is what the search buffer
holds, `invalid` is `_invalid`. `Receive` is one octet: `consumeInternalRegisterByte` first
(`Claims`), then `pushSearchBuffer` (`Decode`), whose parts are a frame
(`FramePart`), a control byte (`Indication`), the sweep of a receiver out of step
(`Sweep`) and octets that can be taken for anything (`Garbage`). `pc` is the place in
`process()`; `handleReset` is two steps, since the UART task runs between the flag
and `applyConfiguration`. `RequestInternalRegister` is the read `main.cpp` asks for;
`recent` is the quiet time before it. `missed` is a ghost: an indication was swept
away, invented from damaged octets, or claimed by a read armed before the chip
restarted (`early`); a reset that forgets everything received clears it.

## 3. What TLC checks

The longest run takes two minutes on two cores. The sizes are small because the code's
numbers are; what matters is that a counter wraps, a queue fills and a second
actor exists.

| run | instance | result |
|---|---|---|
| `delivery` | one channel, queue of 2 and 3 octets, counter modulo 3, 4 frames; or two channels, one budget of 3 octets, at most 2 datagrams at a time (`MaxShared`) | frames are conserved, acks believed are true, essential frames are kept, the budget is the octets queued, every request on the wire is settled, `TunnelContract` is implemented |
| `server_config` | two slots, two hosts, own address, pool and reservations rewritten, ids modulo 4 | no two connections share an id or an address, new addresses are defended |
| `server_live` | two slots, one reserved under each option, a client behind an address translation, heartbeat limit 2 | reservations hold, abandoned slots come back |
| `uplink_line` | a management client or tunnel with 3 requests against a tunnel with 1, counter modulo 3, line queue of 1, at most 2 datagrams at a time | once and in order, acks true, confirmations accounted, the answer after the confirmation |
| `routing_pace` | clock of 32 ms, gap 1 ms, 2 per 4 ms, queue of 2, 2 busies, at most 2 losses unreported, a loss counter of 3 values, the endpoint closed and opened again, 4 ms around the wrap | rate, pause; what is left to report is what was lost while routing, and what was lost otherwise and not forgiven |
| `tp_line` | two frames with one header, queue, ring and serial line of 2, one loss of supply, one damaged octet | accounted, once unless the chip restarts, lost to a full ring only, `LineContract` is implemented |
| `tp_live` | one frame, all queues of 1 | the frame is confirmed, or its confirmation was lost on the way |
| `tp_link` | 2 tokens on the serial line, 3 requests to the chip, one loss of supply, one damaged octet or broken frame | host and chip agree on the CRC, a deaf host recovers |
| `transport_line` | a tool with 2 connections and 2 requests, another device that connects, numbers modulo 3, 1 repeat, 2 frames on the way in each direction, 1 connection of the device's own | taken once and in order, acks true, answers once, application and layer agree, saved requests end with their connection, no wait for ever |
| `coupler_line` | a device on this line, one on another, a tunnel; line coupler, backbone coupler and factory address; 3 settings of the line, 2 of the groups; 7 telegrams; ring of 2, 3 writes, 2 passes of a frame | acks and routing agree, answers go back, hop counts run out |
| `config_life` | 3 images (another version, another layout), 2 updates, 2 values, the whole download, all restarts, save spacing of 2 steps over a clock of 4 | a loaded table is whole, saves are in time, a reset sticks |
| `tp_twice` | as `tp_line` | a violation, section 5 |

Why the bounds are enough. In `TunnelDelivery`, modulo 3 is the least that tells
previous, expected and next apart; four frames wrap it while the third is
queued. Eviction by count and by octets both happen with lengths 1 and 2. The
safety results are proved without the bounds. In `TunnelServer` two slots are
the fewest with one reserved and one not, and the conflicts are between two
connections; four ids wrap past one in use. In `TunnelUplink` the first session's
address passes to the second while its telegram is queued; that a request whose
octet was used before is told from its predecessor is left to the proof. In `RoutingFlow` the
clock wraps in the middle of the run, so every difference is taken across the
wrap as well, and the loss counter wraps several times. In `TpTransmit` two frames with one header are the case the
echo test cannot tell apart, and a ring of two fills with an echo and a foreign
frame; order and repetition on the line are between two frames, and the theorem
has any number. In `TpLink` one damaged octet puts the receiver out of step, and one loss of
supply makes the U_Reset.ind it sweeps away; the watchdogs repeat this without
end. In `TransportLine` modulo 3 again tells previous, expected and next apart,
and two connections let frames of the first meet the second. In `Coupler` a ring
of 2 overflows with three partners. In `Configuration` the clock wraps between any
two saves that are two spacings apart; a second update finds what a
rolled-back first one stored. Time in `config_life` is as short as it can be:
quiet is over a step after the last change, new firmware is confirmed a step
after its start, and the two delays before a restart differ.

Names of the bounds: `MaxOffered`, `MaxNet`, `MaxRequests`, `MaxLine`, `MaxLate`,
`MaxTime`, `MaxBusy`, `MaxLoss`, `MaxRejoin`, `UartMax`, `MaxDowns`, `MaxNoise`, `AskMax`, `MaxShared`,
`MaxApdus`, `MaxConnects`, `MaxRestarts`, `MaxPasses`, `MaxWrites`, `MaxUpdates`. Runs
whose counts are bounded this way stop when they are used up; these say
CHECK_DEADLOCK FALSE, and the runs of `TunnelDelivery`, `TunnelServer`,
`Coupler`, `TpLink` and `Configuration` do check for deadlock. Symmetry is used in safety runs only.

Each property has a mutant in `PROJECT.json`: a fault in one mapped definition
(named `Bug...` in the modules) under which the same run finds it violated.

### Fairness

* `delivery`: weak fairness of `AckTimeout`. The main loop calls
  `loopTunnelTimers` on every pass and the clock moves on. Of the client and the
  network nothing is assumed.
* `server_live`: weak fairness of time and of `HeartbeatTimeout`, for the same
  reason; configuration settled, since rewriting it for ever can keep any slot
  busy.
* `transport_line`: weak fairness of the layer's loop and of time. Nothing is
  assumed of the tool and the line.
* `tp_live`: weak fairness of the main loop and of the UART task, which has the
  higher priority. Strong fairness of writing the frame, of the timeouts and of
  the chip finishing what it does: they are enabled again and again as the main
  loop passes them, and each is a matter of time the model does not count. That
  the chip gets its supply back is not assumed.
* `tp_link`: weak fairness of the main loop and of the UART task. Strong fairness
  of the line carrying frames and of the chip serving requests between two of
  them, and of the two watchdogs: they look on every pass, and their 20 s and
  10 s are over long before the condition they wait for ends by itself.

## 4. What TLAPS proves

All for any values of the constants that meet the assumptions stated with
them. The bounds are constants like the others.

* `TunnelDelivery_proofs`: type correctness, `FramesConserved`, `AckedWasDelivered`,
  `DroppedWasNeverDelivered`, `DeliveredInOrder`, `NoStalledQueue`,
  `EssentialFramesKept`, `BytesAccounted`, and the refinement `ImplementsContract`.
  None of these is inductive: that an ack is believed only
  for an accepted request depends on where the client's counter can be. The
  inductive invariant `IInv` adds that the client has accepted every started
  request or all but the last, that the octets are the true numbers modulo
  `SeqMod`, that stamps in the queue lie after those started, and that every
  datagram on its way carries a true number within `SeqMod - 2` of the newest.
  From the last, equal octets mean equal numbers (`ModUnique`), and an ack that
  matches the head is the head's. For the refinement `CarryInv` adds what outlives
  a channel: of requests still on their way, one the client has passed carries a
  frame it has, and all it waits for carry the same one. One lemma per action
  names the step of the contract it is.
  `BytesAccounted` has an invariant of its own (`BytesInv`) and needs that there are
  finitely many channels (`ConnsAssumption`; the code has an array). The sum over
  the channels is a fold over a set. It is told from the fold by its equations,
  and that two sums differ by the one channel a step changes follows without
  induction: of the finite sets for which it fails a smallest one would have a
  smaller one for which it fails too.
* `TunnelServer_proofs`: type correctness, `ConnectionsDiffer`, `NewAddressIsDefended`
  and, with a settled configuration, `ReservedSlotsKept`. Every step keeps what
  identifies the connection of a slot, frees it, or puts one new connection on
  one slot (`OneSlot`). There are more channel ids than slots, so the search for an
  id ends (pigeonhole), and the octet that is counted on never stands at its last
  value. `DefendedAgrees`: with nothing written since the refresh, the defended
  addresses are those of the pool a connect uses, which making the pool anew does
  not change. `ReservationsHeld` says more than `ReservedSlotsKept`: also while the reserved
  slot is taken no other tunnel has its address.
* `TunnelUplink_proofs`: type correctness, `TakenInOrder`, `AckedWasTaken`,
  `ConFromPredecessor`, `NoEcho`, `ManagementApart`, `ConAccounted`,
  `AnswerAfterCon`. The invariant has five parts.
  `ConnInv`: open sessions have different addresses, and sessions open in order.
  `CountInv`: the server has executed what the client had acknowledged, or one
  more, and its octet is that number's. `NetInv`: a datagram is at most `MaxLate`
  requests old, so a late copy of an executed request does not have the octet
  of the next one.
  `FrameInv` and `MessageInv`: a frame in the line carries the address its session
  had, and what is in an inbox came from where it says.
  The confirmations have a second invariant, `AInv`. `PastInv`: nothing is on its way
  for a telegram not yet taken, so the next one finds its number unused.
  `TraceInv`: of each number there is at most one telegram in the line or one
  confirmation in the inbox, not both, and an answer stands behind it.
  `SettledInv`: of a number taken there is one of the three.
* `RoutingFlow_proofs`: `GapKept`, `RateKept`, `ReportsSpaced`, `LossesReported`,
  `PauseEnds`. The invariant ties every stamp to the real time it was taken at. A difference of
  two `millis()` values is, modulo the wrap, at most the real difference rounded
  up, so one more millisecond than the limit makes the limit true: that is why
  the code compares with 6 and 1001. Waiting longer than a wrap only makes the
  code wait again. For the losses it is assumed that fewer wait to be reported at
  any time than the counter counts (`ReportAssumption`).
  `PauseEnds` is proved of the behaviours in which `loop()` looks at a pause before
  half the range of `millis()`, 24 days, is over (`LoopLooks`): later the code takes the
  end of an old pause for one to come, and the property is false. `PauseInv` says
  which moments `busyEnd` and `resumeAt` stand for. The longest pause, 100 ms and
  255 times 50 ms, has to be shorter than that half (`PauseAssumption`), as it is by
  far.
* `TpTransmit_proofs`: type correctness, `RxReadsLiveFrame`, `Accounted`,
  `ConIsTrue`, `OneConWithoutRestart`, `ConLostToFullRingOnly`, and the refinement
  `ImplementsLineContract`. `LiveInv`: while a
  frame is in flight there is one, but for the step between the two writes of
  `Transmitter::reset`. `PlacesInv`: a frame taken is in one of six places, or its
  confirmation was lost. For the truth of a confirmation `TrueInv` follows it back
  over the serial line: a positive one is of an acknowledged frame, and the echoes
  before it leave the receiver with its own echo or none, so it is not taken for
  another frame's. Until the chip restarts by itself, `ChipInv` holds: between a
  reset by the host and the end of its wait nothing is in flight (`ResetInv`),
  otherwise the chip has, and speaks of, the frame in flight only (`FlightInv`).
  With it no frame is in two places at once (`OnceInv`), so none is confirmed
  twice. Without damaged octets too the host never resets the chip, and the echo
  is held until the confirmation comes (`CalmInv`): what is left to lose one is
  a full ring.
  For the refinement this is not enough, as the contract holds through restarts of
  the chip. There a frame can be in two places: the host counts it among the
  dropped while the chip still has it. `TwiceInv` keeps the two sides apart. The host
  has a frame in one place (`HostOnce`), and on its way over the line and back it is
  in one place (`LineOnce`), also not in flight once the ring confirms it. So each
  side confirms it once: as long as both may, it is not confirmed, and as long as
  the line may, it has at most the negative confirmation of the host (`DueInv`).
  That the line gets each frame once and in order needs that the chip takes the
  frame being written, and only while it has none (`GivenInv`). With `TrueInv` a
  positive confirmation is of an acknowledged frame. One lemma per action names the
  step of `LineContract` it is.
  The same module proves `ConfigurationAgrees` of `TpLink`, the other half of the same
  driver (`AgreementOnCrc`). `TpLink` is an instance there, and what both modules
  name alike is one object of the program; no fact about the one specification is
  used for the other. The invariant, `LinkInv`, looks at what is on its way: once the
  announcements on the serial line have arrived, the host believes what the chip
  does, unless it is to be reset (`Believes`); a read that is pending, and not from
  before a restart, has its answer in front of any U_Configure.ind (`AnswerFirst`),
  since on a quiet line only reads are on their way to the chip. A token received,
  said or asked for is one lemma on sequences each.
* `TransportLine_proofs`: type correctness, `ApplicationAgrees`,
  `SavedEndsWithConnection`, `TakenInOrder`, `AckedWasTaken`, `AnswersOnce`. The
  handlers are functions, so the first invariant is a predicate on the layer's
  record (`Sound`): types, the agreement with the application, and that nothing is
  saved while the layer is connecting. One lemma per action and event says it is
  preserved and what may have been closed; the steps of `TransportLine` follow
  from them. A second lemma for each handler says what it does to the connection
  with the tool: nothing, end it, acknowledge once more, take a request, see its
  answer acknowledged, repeat, send what was saved, open (`Arrives`, `Passes`).
  The invariants of the lines need no more of the device. `LineInv` holds in any
  connection: the requests on the line have numbers that do not fall, one with
  the number taken last has the octet before the expected one, so it is not taken
  again (`OrderInv`); behind the T_Connect of the present connection is its first
  request only (`ConnectInv`). `TakenInOrder` follows. The other two hold in a
  fresh connection, by `Core`: as long as its T_Connect can arrive again nothing
  was sent (`FreshCore`); until the pending request is taken its octet is the
  expected one and no acknowledge on the line has it (`RequestCore`); the
  answers on the line are repetitions, or the one the device waits with, which
  the tool does not have, and the device goes on to the next only with an
  acknowledge that the tool sent for it (`AnswerCore`).
* `Coupler_proofs`: type correctness, `HopsRunOut`, `AckedIsTaken`,
  `CarriedIsAcked`, `AnswersGoBack`, and that no partner has two entries. The
  invariant ties the ring to the ghosts: an entry that fewer than `Slots` newer
  partners followed is there, with the side its partner was heard on.
* `Configuration_proofs`: type correctness, `LoadedIsComplete`, `SavedInTime`,
  `ResetSticks`. `DownloadInv`: while the tool is between its steps the table is
  not loaded, and the flash holds a whole table or none that counts as loaded.
  `FreshInv`: after a reset no save is pending. `LateInv`: what a restart would lose
  is scheduled, and has waited no longer than the oldest change; with a save
  due, only the last save or a wrap that looks like it holds it back.

Only model-checked: liveness (`RequestSettled`, `AbandonedSlotFreed`,
`EventuallyConfirmed`, `WaitEnds`, `DeafEnds`), since fairness and ENABLED are beyond the
prover. Every safety property of the passing runs is a theorem, `PauseEnds` under
the hypothesis above.
Only proved, and
implied for TLC by what it checks or too weak to spend a run on: `DeliveredInOrder`
(part of the contract), `DroppedWasNeverDelivered`, `NoStalledQueue`, `GapKept`,
`ReportsSpaced`, `NoEcho`, `ManagementApart`, `OneEntryEach`, `ConIsTrue` (a guard of
`LineContract`).

## 5. Findings

* `tp_twice`. The chip restarts by itself after `handleReset()` of a pass has run;
  the frame this pass writes is taken by the chip, dropped and confirmed
  negatively in the next pass, and confirmed again by its L_DATA_CON. That this is
  the worst that comes of it, two confirmations and the first of them negative, is
  part of `LineContract`.

Other places where the code and its comments part, without a run of their own:

* "Losses while the device does not route are not reported, then or later"
  (`knx/ip_data_link_layer.cpp:177`). They may be: `loopLostMessage` forgives what it
  finds while the device is not programmed, and it is called from `loop` only,
  behind the return for a closed endpoint (745). If routing begins before the next
  call, the losses are in the next report. In `RoutingFlow` this is `LostToKnx` while
  not `programmed`, `Program`, `Loop`: the address is written in the pass after the
  loss. Likewise a loss of an unprogrammed device whose endpoint is closed until
  it is programmed, and any loss while the endpoint of a programmed device is
  closed. `LossesReported` counts these apart (`unrouted`): nothing but them is
  reported beyond what was lost while routing.
* A comment in `loopLostMessage` says no report goes within 5 ms of an
  indication (`knx/ip_data_link_layer.cpp:197`). The report waits for the last
  indication, but `loopRoutingQueue` does not wait for the last report.
* Under option 2 the open connection on the reserved slot is closed once its
  address is usable; if another tunnel holds that address (from before the
  reservation, or by a pool with the address twice) the request is then refused.
  The comment at `knx/ip_data_link_layer.cpp:1319` says this does not happen.
* "A change is at most a minute late on flash" (`knx/memory.cpp:646`). When
  `millis()` minus the last save wraps, 49 days after it, a change that waits then
  waits up to a minute more (`SinceWrap`). Table data written without a load
  control schedule no save at all (`knx/memory.cpp:377`).
* "so a save scheduled in between cannot write it back" (`main.cpp:391`): true, but
  a restart of another kind in the two seconds before the wipe forgets the
  request for it.
* A telegram out of sequence that arrives while the layer is connecting is
  answered with a disconnect but leaves it connecting without a timer (E6,
  `knx/transport_layer.cpp:92`); the confirm of the connect, or the next event,
  ends that. The comment on E20 (345) explains why no connection should stay without one.
* "To the open tunnel that sent the frame" (`knx/ip_data_link_layer.cpp:307`): a
  confirmation goes to the tunnel that holds the source address when it comes. If
  the one that sent the frame is closed by then, that may be a later connection.
  `ConFromPredecessor` states how far this can reach.
* `reset()` disarms a pending register read, so that it does not claim the chip's
  next octet (`TPUart/DataLinkLayer.cpp:81`); nothing else disarms it. When the chip restarts by itself, a read armed before
  stays armed past `handleReset()` and claims the U_Configure.ind: the host then runs
  without CRC while the chip sends it. The comment at 708 protects from reads armed
  afterwards. `ConfigurationAgrees` exempts this (`early`).

Behaviour the models show and no property rules out, because no document
promises otherwise:

* `reset()` empties the ring before it takes `rxLock` (`TPUart/DataLinkLayer.cpp:88`),
  so a confirmation pushed in between is lost with the ring.
* A pause ends in time only if the main loop looks at it within half the range of
  `millis()`: `LoopLooks`, the hypothesis of the theorem on `PauseEnds`. While the
  endpoint is closed it does not look.
* A T_Connect that meets a connection still open with the same partner leaves
  its numbers (E0), so a first request with the number before the expected one is
  acknowledged and not taken; `AckedWasTaken` exempts it by `fresh`. A request
  saved while one is unacknowledged is overwritten by the next, and sent in a new
  connection when one is closed and the next opened between two loops.
* The restart of another device opens a connection and never sends the restart:
  `nextRestartState` is not called in the loop of a coupler.
* With PHYS_FRAME_LOCK a telegram is acknowledged that is not carried; groups are
  acknowledged while the device is unprogrammed. A second telegram of a partner
  does not make its entry in the ring younger.
* An update that is rolled back loses the configuration if its firmware had
  another layout and saved; an update that ends, and a restart from the web
  interface, lose up to a minute of changes (`main.cpp:809`, `main.cpp:2469`).

## 6. Not modelled

* Layout of datagrams, frames and properties; statistics and log output.
* TP receive but for `TpLink`: acknowledge bits and their bus window, and the bus
  monitor. Planned below. The filter of repetitions is not: with this mask version
  a frame it marks is passed on all the same (`tpuart_data_link_layer.cpp:253`), so
  it touches statistics only.
* The filter table and dynamic tables: this device loads neither. `alloc`, `free`
  and the lists of free memory are unreachable in it.
* The states of an online update (checked, downloading, failed) as the web page
  shows them: a check that ends late overwrites the state of an installation
  (`main.cpp:685`), which touches the display only; that two installations do not
  write at once is the `Update` library's. An update started before the running
  firmware is confirmed is left out of `Configuration`: it overwrites the firmware
  to fall back on.
* Application layer: encoding and decoding with little state (its idea of the
  connection is in `TransportLayer`). Security: not compiled. RF, USB, other
  devices and platforms, and their data types: not compiled, or not used; they
  are more than half of the repository's lines.
* Wi-Fi, Ethernet, web pages, access point: I/O and libraries outside the
  repository; the rejoin they cause is an action of `RoutingFlow`, the restarts
  are in `Configuration`.
* Requests that a connection's cEMI server drops without confirmation or answer
  (`knx/cemi_server.cpp:163` to 200, 481): malformed L_Data, property requests that
  are too short, function properties, M_Reset.req over a tunnel. In `TunnelUplink`
  every request taken is confirmed or answered; its properties are about these.
* In `TpLink`, `applyConfiguration` where `setOwnAddress` calls it
  (`TPUart/DataLinkLayer.cpp:1177`): it asks the chip for what it was asked before.
* The tunnel uplink is partial: unsolicited M_PropInfo.ind and the copies of
  tunnelled telegrams for routing are left out.

## 7. Plan

Done: delivery and TP transmit with their contracts, server, uplink, routing, TP link;
transport layer, coupler, configuration; proofs of their safety properties.

Next:

1. `TpReceive`: the parked acknowledge and its bus window.
2. Composition of uplink and delivery, so that confirmations travel through the
   queue of their client; of `Coupler` and `TransportLine`, so that an answer can
   take the wrong side.
3. The states of an online update beside the restarts of `Configuration`.
