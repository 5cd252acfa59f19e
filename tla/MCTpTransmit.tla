---------------------------- MODULE MCTpTransmit ----------------------------
(***************************************************************************)
(* TpTransmit with one frame, or with two that have one header and so      *)
(* cannot be told apart by their echoes.                                   *)
(***************************************************************************)
EXTENDS TpTransmit, TLC

CONSTANTS f1, f2

OneFrame == {f1}
TwoFrames == {f1, f2}
OneHeader == [f \in Frame |-> 0]

Symmetry == Permutations(TwoFrames)

=============================================================================
