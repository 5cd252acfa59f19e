------------------------------ MODULE TpDriver ------------------------------
(***************************************************************************)
(* The state of the TP driver that its two models share (TPUart::          *)
(* DataLinkLayer and Receiver, with the transceiver chip): TpTransmit, the *)
(* way of a frame onto the line, and TpLink, the link to the chip.         *)
(***************************************************************************)
VARIABLES
  pc,           \* where the main loop is
  uReset,       \* _uReset: the chip indicated a reset
  connected,    \* _bcuState is BCU_CONNECTED, not BCU_DISCONNECTED
  invalid,      \* Receiver._invalid
  uart,         \* octets from the chip not yet received
  up,           \* the chip has its supply
  downs, noises \* counts of what MaxDowns and MaxNoise bound

=============================================================================
