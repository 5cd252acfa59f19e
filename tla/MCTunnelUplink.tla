--------------------------- MODULE MCTunnelUplink ---------------------------
(***************************************************************************)
(* TunnelUplink with two sessions.  The client of the first asks for       *)
(* device management and sends to this device, to its own address and to   *)
(* the other one; the client of the second sends a group telegram.         *)
(***************************************************************************)
EXTENDS TunnelUplink, TLC

CONSTANT MaxNet   \* bound: different datagrams on their way at a time

MCRequests == [s \in Sessions |-> IF s = 1 THEN 3 ELSE 1]
MCServices ==
  [s \in Sessions |->
     IF s = 1 THEN {"management", "self"} \union Addresses ELSE {"group"}]

AddressSymmetry == Permutations(Addresses)
NetBound == Cardinality(net) <= MaxNet

=============================================================================
