----------------------------- MODULE MCCoupler ------------------------------
(***************************************************************************)
(* Coupler with two devices, one of them on another line, and a tunnel.    *)
(***************************************************************************)
EXTENDS Coupler

LineAddress == <<1, 1, 0>>
BackboneAddress == <<1, 0, 0>>
Near == <<1, 1, 5>>
Far == <<1, 2, 5>>
Tunnel == <<1, 1, 250>>

MCOwn == {Factory, LineAddress, BackboneAddress}
MCPartners == {Near, Far, Tunnel}
MCTunnels == {Tunnel}
MCLc == {DefaultLc, [DefaultLc EXCEPT !.phys = "lock"],
         [DefaultLc EXCEPT !.phys = "unlock", !.groupIackRout = FALSE]}
MCGrp == {DefaultGrp, [low |-> "unlock", high |-> "lock"]}
MCTelegrams ==
  {New("individual", p, LineAddress, 0) : p \in MCPartners}
  \union {New("individual", Near, Far, 3), New("individual", Far, Tunnel, 7),
          New("group", Near, 1, 3), New("group", Far, 2, 1), New("broadcast", Near, 0, 7)}

=============================================================================
