----------------------------- MODULE TpAgreement -----------------------------
(***************************************************************************)
(* What host and transceiver chip have to agree on, whether frames carry a *)
(* CRC, and the state of the link that says when (TPUart::DataLinkLayer).  *)
(* TpLink says how this state changes.                                     *)
(***************************************************************************)
EXTENDS TpDriver

VARIABLES
  hostCrc,      \* _modeExtendedCRC
  asked,        \* requests the chip has not yet served
  chipCrc,      \* the chip sends frames with their CRC
  missed        \* history: indications lost or invented on the way

(* No reset and no configuration is under way.                             *)
Settled ==
  /\ up /\ ~uReset /\ pc \notin {"configure", "resetLock"}
  /\ \A i \in DOMAIN asked : asked[i] \notin {"reset", "configure"}
  /\ \A i \in DOMAIN uart : uart[i] \notin {"reset", "conf"}

(* Host and chip agree on the CRC once a restart is dealt with, unless an  *)
(* indication was lost to a receiver out of step or to a read from before  *)
(* the chip restarted: no other read takes one (quietForRegisterAccess,    *)
(* applyConfiguration, reset, consumeInternalRegisterByte).                *)
ConfigurationAgrees == Settled /\ ~missed => hostCrc = chipCrc

=============================================================================
