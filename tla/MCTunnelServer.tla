--------------------------- MODULE MCTunnelServer ---------------------------
(***************************************************************************)
(* Two slots and two client hosts.  The device is 1.1.10 or                *)
(* 1.1.241; the pools are: none, the legacy one, one with a gap at its     *)
(* start, one with an entry twice, one of another line.                    *)
(***************************************************************************)
EXTENDS TunnelServer, TLC

CONSTANTS hA, hB

MCHosts == {hA, hB}

(* Both hosts connect, hB also through an address translation.             *)
MCRequests ==
  {[src |-> hA, ip |-> hA, type |-> "tunnel"],
   [src |-> hB, ip |-> hB, type |-> "tunnel"],
   [src |-> hB, ip |-> hA, type |-> "tunnel"],
   [src |-> hB, ip |-> hB, type |-> "config"]}

PlainRequests == {r \in MCRequests : r.src = r.ip}

L == 17 * 256       \* line 1.1
MCOwn == {L + 10, L + 241}
OneOwn == {L + 10}

PoolOf(devices) == [i \in Slot |-> L + devices[i + 1]]

MCPools ==
  {Empty, PoolOf(<<1, 2, 3>>), PoolOf(<<50, 51, 52>>), PoolOf(<<50, 50, 10>>),
   [i \in Slot |-> IF i = 0 THEN 0 ELSE L + 241 + i],
   [i \in Slot |-> 18 * 256 + 60 + i]}
OnePool == {Empty}

(* Slot 0 reserved for hA.                                                 *)
ReserveFirst(option) ==
  [i \in Slot |-> [active |-> i = 0, option |-> option, ip |-> hA]]
MCReservations == {Empty} \union {ReserveFirst(option) : option \in 0 .. 3}
FewReservations == {Empty, ReserveFirst(2)}

=============================================================================
