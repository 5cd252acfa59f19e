-------------------------- MODULE MCTransportLine ---------------------------
(***************************************************************************)
(* TransportLine with one tool and one other device.                       *)
(***************************************************************************)
EXTENDS TransportLine

BothPartners == {1, 2}

=============================================================================
