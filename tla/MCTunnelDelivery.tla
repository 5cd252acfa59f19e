-------------------------- MODULE MCTunnelDelivery --------------------------
(***************************************************************************)
(* TunnelDelivery on two small instances, of which the initial state picks *)
(* one: a channel alone with frames of one octet, enough of them for the   *)
(* sequence counter to wrap, or two tunnels that draw on one budget with a *)
(* frame each, of one octet or two.                                        *)
(***************************************************************************)
EXTENDS TunnelDelivery, TLC

CONSTANTS
  c1, c2,
  MaxShared   \* bound: frames offered to a channel that is not alone

VARIABLE alone

Bounded ==
  \A c \in Conns :
    IF alone
      THEN /\ c = c1 \/ ~tun'[c].open
           /\ \A f \in tun'[c].TxQueue : f.len = 1
      ELSE tun'[c].offered <= MaxShared /\ ~tun'[c].IsConfig

MCInit == Init /\ alone \in BOOLEAN

MCNext == Next /\ Bounded /\ UNCHANGED alone

MCSpec == MCInit /\ [][MCNext]_<<vars, alone>> /\ Fairness

=============================================================================
