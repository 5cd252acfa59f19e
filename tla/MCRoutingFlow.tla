--------------------------- MODULE MCRoutingFlow ----------------------------
(***************************************************************************)
(* RoutingFlow with a millis() of 32 values that wraps early in the run.   *)
(***************************************************************************)
EXTENDS RoutingFlow

(* Shortly before millis() wraps.                                          *)
MCStart == {2 * Wrap - 5}

=============================================================================
