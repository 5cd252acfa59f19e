------------------------------- MODULE TpLink -------------------------------
(***************************************************************************)
(* The link to the transceiver chip (TPUart::DataLinkLayer, Receiver):     *)
(* that host and chip agree whether frames carry a CRC.                    *)
(*                                                                         *)
(* The chip starts without CRC and says U_Reset.ind; the host then asks    *)
(* for the CRC and believes it is on from the chip's U_Configure.ind.      *)
(* Where they disagree the host waits for octets that do not come (deaf:   *)
(* every frame fails), or meets two octets too many after every frame.     *)
(*                                                                         *)
(* Two things can take one of these indications away: a receiver out of    *)
(* step sweeps octets until a frame completes, and a register read claims  *)
(* the next octet, since a register answer has no marker.                  *)
(*                                                                         *)
(* pc says how far the main loop is; the UART task takes octets between    *)
(* any two of its steps.  Octets are grouped into tokens: the head of a    *)
(* frame, its body and its CRC, the chip's answers and indications.        *)
(* Transmission is the subject of TpTransmit; here an echo is a frame.     *)
(***************************************************************************)
EXTENDS TpAgreement, Naturals, Sequences, SequencesExt

CONSTANTS
  UartMax,   \* bound: tokens from the chip on the serial line
  AskMax,    \* bound: requests it has not yet served
  MaxDowns,  \* bound: how often the chip loses its supply
  MaxNoise   \* bound: damaged octets and frames broken off

ASSUME BoundAssumption == {UartMax, AskMax, MaxDowns, MaxNoise} \subseteq Nat

VARIABLES
  regPending,   \* _regReadPending
  recent,       \* within TPUART_REGREAD_QUIET_MS of _lastHostRequestAt
  early,        \* history: the read was armed before the chip restarted
  rx,           \* what the search buffer holds
  feeding       \* how much of a frame the chip has passed on

link == <<connected, uReset, hostCrc>>
reading == <<regPending, recent, early>>
receiver == <<rx, invalid>>
chip == <<up, chipCrc, feeding>>
bounds == <<downs, noises>>
vars == <<pc, link, reading, receiver, uart, asked, chip, missed, bounds>>

(* What the host asks is lost while the chip has no supply.                *)
Ask(requests) ==
  /\ Len(asked) + Len(requests) <= AskMax
  /\ asked' = IF up THEN asked \o requests ELSE asked

Served == \A i \in DOMAIN asked : asked[i] = "read"

-----------------------------------------------------------------------------
(* Receiving, in the UART task (and in the main loop's pass).              *)

Next1 == Head(uart)

(* A complete frame, with nothing received after it: in step again.        *)
Complete ==
  /\ rx' = "idle"
  /\ invalid' = (invalid /\ Tail(uart) # <<>>)
  /\ UNCHANGED <<uReset, hostCrc, missed>>

(* processSearchBufferInvalid: what the search buffer holds is swept away  *)
(* with the octet after it, up to one that can start a frame.              *)
Sweep ==
  /\ invalid' = TRUE
  /\ rx' \in IF Next1 = "head" THEN {"idle", "frame"} ELSE {"idle"}
  /\ missed' = (missed \/ Next1 \in {"reset", "conf"})
  /\ UNCHANGED <<uReset, hostCrc>>

(* Octets from the middle of a frame, or damaged ones, look like anything: *)
(* the start of a frame, nothing known, or one of the chip's indications.  *)
(* Out of step, indications are not looked at.                             *)
Garbage ==
  /\ \/ rx' = "frame" /\ UNCHANGED <<invalid, uReset, hostCrc>>
     \/ invalid' = TRUE /\ UNCHANGED <<rx, uReset, hostCrc>>
     \/ ~invalid /\ uReset' = TRUE /\ hostCrc' = FALSE /\ UNCHANGED receiver
     \/ ~invalid /\ hostCrc' \in BOOLEAN /\ UNCHANGED <<receiver, uReset>>
  /\ missed' = (missed \/ uReset' # uReset \/ hostCrc' # hostCrc)

(* processControlBytes: receivedReset, receivedConfiguration, ...          *)
Indication ==
  /\ rx = "idle" /\ ~invalid
  /\ \/ Next1 = "reset" /\ uReset' = TRUE /\ hostCrc' = FALSE /\ UNCHANGED invalid
     \/ Next1 = "conf" /\ hostCrc' = TRUE /\ UNCHANGED <<uReset, invalid>>
     \/ Next1 = "state" /\ UNCHANGED <<uReset, hostCrc, invalid>>
     \* the answer to a register read given up
     \/ Next1 = "reg" /\ invalid' = TRUE /\ UNCHANGED <<uReset, hostCrc>>
  /\ UNCHANGED <<rx, missed>>

(* processSearchBufferFrame.                                               *)
FramePart ==
  \/ /\ Next1 = "head" /\ rx = "idle"
     /\ rx' = "frame"
     /\ UNCHANGED <<invalid, uReset, hostCrc, missed>>
  \/ /\ Next1 = "body" /\ rx = "frame" /\ hostCrc
     /\ rx' = "crc"
     /\ UNCHANGED <<invalid, uReset, hostCrc, missed>>
  \/ Next1 = "body" /\ rx = "frame" /\ ~hostCrc /\ Complete
  \/ Next1 = "crc" /\ rx = "crc" /\ Complete

Expected ==
  \/ Next1 = "head" /\ rx = "idle"
  \/ Next1 = "body" /\ rx = "frame"
  \/ Next1 = "crc" /\ rx = "crc"

(* pushSearchBuffer, for octets no register read claims.                   *)
Decode ==
  \/ FramePart
  \/ Indication
  \/ ~Expected /\ (rx # "idle" \/ (invalid /\ Next1 \in {"reset", "conf", "state", "reg"})) /\ Sweep
  \/ rx = "idle" /\ Next1 \in {"body", "crc", "noise"} /\ Garbage

(* consumeInternalRegisterByte: any octet but U_Reset.ind is the answer to *)
(* a pending read.  More than one line error, and it is none.              *)
Claims == regPending /\ Next1 # "reset"

(* The rest of a token an octet of which was claimed.                      *)
Rest ==
  IF Next1 \in {"head", "body", "crc"}
    THEN Garbage
    ELSE /\ missed' = (missed \/ (Next1 = "conf" /\ early))
         /\ UNCHANGED <<receiver, uReset, hostCrc>>

Receive ==
  /\ uart # <<>>
  /\ \/ Claims /\ Rest
     \/ (~Claims \/ Next1 = "noise") /\ Decode
  /\ regPending' = (regPending /\ ~Claims)
  /\ uart' = Tail(uart)
  /\ UNCHANGED <<pc, connected, recent, early, asked, chip, bounds>>

-----------------------------------------------------------------------------
(* A pass of DataLinkLayer::process.                                       *)

BeginPass ==
  /\ pc = "idle"
  /\ pc' = "pass"
  /\ connected' = (connected \/ uart # <<>>)
  /\ UNCHANGED <<uReset, hostCrc, reading, receiver, uart, asked,
                 chip, missed, bounds>>

(* A read is given up after 50 ms; a chip that answers does so before.     *)
ReadTimeout ==
  /\ pc = "pass" /\ regPending
  /\ ~Contains(asked, "read") /\ ~Contains(uart, "reg")
  /\ regPending' = FALSE
  /\ UNCHANGED <<pc, link, recent, early, receiver, uart, asked, chip, missed, bounds>>

(* The state is asked for every second, out of step only when the link is  *)
(* down.                                                                   *)
RequestState ==
  /\ pc = "pass"
  /\ ~invalid \/ ~connected
  /\ asked = <<>> /\ ~Contains(uart, "state")
  /\ Ask(<<"state">>)
  /\ recent' = TRUE
  /\ UNCHANGED <<pc, link, regPending, early, receiver, uart, chip, missed, bounds>>

(* handleReset: the flag first, ...                                        *)
HandleReset ==
  /\ pc = "pass"
  /\ IF uReset
       THEN uReset' = FALSE /\ connected' = TRUE /\ pc' = "configure"
       ELSE pc' = "rest" /\ UNCHANGED <<uReset, connected>>
  /\ UNCHANGED <<hostCrc, reading, receiver, uart, asked, chip, missed, bounds>>

(* Fault: the requests are not stamped.                                    *)
BugApplyConfiguration ==
  /\ pc = "configure"
  /\ Ask(<<"configure", "state">>)
  /\ pc' = "rest"
  /\ UNCHANGED <<link, reading, receiver, uart, chip, missed, bounds>>

(* ... then applyConfiguration and requestState.                           *)
ApplyConfiguration ==
  /\ pc = "configure"
  /\ Ask(<<"configure", "state">>)
  /\ recent' = TRUE
  /\ pc' = "rest"
  /\ UNCHANGED <<link, regPending, early, receiver, uart, chip, missed, bounds>>

(* 30 s without an octet.                                                  *)
Disconnect ==
  /\ pc = "rest" /\ connected
  /\ uart = <<>> /\ (~up \/ invalid)
  /\ connected' = FALSE
  /\ UNCHANGED <<pc, uReset, hostCrc, reading, receiver, uart,
                 asked, chip, missed, bounds>>

EndPass ==
  /\ pc = "rest"
  /\ pc' = "idle"
  /\ UNCHANGED <<link, reading, receiver, uart, asked, chip, missed, bounds>>

(* DataLinkLayer::reset disarms a pending read first.  (The seconds before *)
(* it are enough for the chip to have served the last reset and the        *)
(* configuration.)                                                         *)
StartReset ==
  /\ ~Contains(asked, "reset") /\ ~Contains(asked, "configure")
  /\ pc' = "resetLock"
  /\ regPending' = FALSE
  /\ UNCHANGED <<link, recent, early, receiver, uart, asked, chip, missed, bounds>>

(* Fault: the watchdog looks after links that are down.                    *)
BugDesyncWatchdog == pc = "rest" /\ ~connected /\ invalid /\ StartReset

(* processWatchdog: 20 s out of step.                                      *)
DesyncWatchdog == pc = "rest" /\ connected /\ invalid /\ StartReset

(* The loop of main.cpp, every 10 s while disconnected.                    *)
BcuRecovery == pc = "idle" /\ ~connected /\ StartReset

(* Under rxLock it forgets everything received and asks for a restart.     *)
ResetLocked ==
  /\ pc = "resetLock"
  /\ Ask(<<"reset">>)
  /\ connected' = TRUE /\ uReset' = FALSE
  /\ hostCrc' = FALSE
  /\ recent' = TRUE
  /\ rx' = "idle" /\ invalid' = FALSE /\ uart' = <<>>
  /\ missed' = FALSE
  /\ pc' = "idle"
  /\ UNCHANGED <<regPending, early, chip, bounds>>

(* requestInternalRegister, from the loop of main.cpp, on a quiet line.    *)
RequestInternalRegister ==
  /\ pc = "idle"
  /\ connected /\ ~regPending /\ ~Contains(asked, "read")
  /\ rx = "idle" /\ uart = <<>> /\ ~recent
  /\ Ask(<<"read">>)
  /\ regPending' = TRUE /\ early' = FALSE
  /\ UNCHANGED <<pc, link, recent, receiver, uart, chip, missed, bounds>>

(* 25 ms are over: the chip has answered what it was asked.                *)
QuietAgain ==
  /\ recent
  /\ Served
  /\ recent' = FALSE
  /\ UNCHANGED <<pc, link, regPending, early, receiver, uart, asked, chip, missed, bounds>>

-----------------------------------------------------------------------------
(* External: the chip and the line.                                        *)

Says(token) == Len(uart) < UartMax /\ uart' = Append(uart, token)
ChipOnly == UNCHANGED <<pc, link, reading, receiver, missed>>

(* It serves what it is asked between two frames.                          *)
ChipServes ==
  /\ asked # <<>> /\ feeding = "none"
  /\ asked' = Tail(asked)
  /\ Says(CASE Head(asked) = "reset" -> "reset"
            [] Head(asked) = "configure" -> "conf"
            [] Head(asked) = "state" -> "state"
            [] Head(asked) = "read" -> "reg")
  /\ chipCrc' = IF Head(asked) = "reset" THEN FALSE
                ELSE chipCrc \/ Head(asked) = "configure"
  /\ ChipOnly /\ UNCHANGED <<up, feeding, bounds>>

ChipFeeds ==
  /\ up
  /\ \/ feeding = "none" /\ feeding' = "head" /\ Says("head")
     \/ feeding = "head" /\ feeding' = (IF chipCrc THEN "body" ELSE "none") /\ Says("body")
     \/ feeding = "body" /\ feeding' = "none" /\ Says("crc")
  /\ ChipOnly /\ UNCHANGED <<asked, up, chipCrc, bounds>>

(* A frame is broken off, an octet damaged.                                *)
Noise ==
  /\ up /\ noises < MaxNoise
  /\ noises' = noises + 1
  /\ \/ feeding # "none" /\ feeding' = "none" /\ UNCHANGED uart
     \/ Says("noise") /\ UNCHANGED feeding
  /\ ChipOnly /\ UNCHANGED <<asked, up, chipCrc, downs>>

(* The bus loses its voltage, ...                                          *)
ChipDown ==
  /\ up /\ downs < MaxDowns
  /\ up' = FALSE /\ feeding' = "none" /\ asked' = <<>>
  /\ downs' = downs + 1
  /\ ChipOnly /\ UNCHANGED <<uart, chipCrc, noises>>

(* ... and has it again.                                                   *)
ChipUp ==
  /\ ~up /\ Says("reset")
  /\ up' = TRUE /\ chipCrc' = FALSE
  /\ early' = regPending
  /\ UNCHANGED <<pc, link, regPending, recent, receiver, asked, feeding, missed, bounds>>

-----------------------------------------------------------------------------
(* The handshake of begin() is done.                                       *)
Init ==
  /\ pc = "idle" /\ connected = TRUE /\ uReset = TRUE
  /\ hostCrc = FALSE /\ regPending = FALSE /\ recent = TRUE /\ early = FALSE
  /\ rx = "idle" /\ invalid = FALSE
  /\ uart = <<>> /\ asked = <<>>
  /\ up = TRUE /\ chipCrc = FALSE /\ feeding = "none"
  /\ missed = FALSE /\ downs = 0 /\ noises = 0

MainLoop ==
  \/ BeginPass \/ HandleReset \/ ApplyConfiguration \/ EndPass \/ ResetLocked

Next ==
  \/ Receive
  \/ MainLoop
  \/ ReadTimeout \/ RequestState \/ Disconnect
  \/ DesyncWatchdog \/ BcuRecovery
  \/ RequestInternalRegister \/ QuietAgain
  \/ ChipServes \/ ChipFeeds \/ Noise \/ ChipDown \/ ChipUp

(* The main loop goes on, the UART task takes what comes, the line carries *)
(* frames, the chip serves requests between them, and time passes for the  *)
(* watchdogs, each of which looks on every pass.                           *)
Fairness ==
  /\ WF_vars(MainLoop) /\ WF_vars(Receive) /\ SF_vars(ChipFeeds)
  /\ SF_vars(ChipServes) /\ SF_vars(DesyncWatchdog) /\ SF_vars(BcuRecovery)

Spec == Init /\ [][Next]_vars
FairSpec == Spec /\ Fairness

-----------------------------------------------------------------------------
(* Properties.                                                             *)

(* ConfigurationAgrees is in TpAgreement.                                 *)

Deaf == hostCrc /\ ~chipCrc /\ up

(* A host that waits for a CRC its chip does not send, so that no frame is *)
(* ever complete, gets out of it while the line carries frames, whichever  *)
(* indications were lost ("deaf and mute until a reboot", processWatchdog).*)
DeafEnds == Deaf ~> ~Deaf

=============================================================================
