---------------------------- MODULE Configuration ---------------------------
(***************************************************************************)
(* The stored configuration of the device and everything that restarts it: *)
(* Memory with the application program's table (TableObject), the restarts *)
(* of the KNX side (A_Restart, M_Reset.req), those of the gateway's web    *)
(* interface, the end of an online update, crashes and lost power.         *)
(*                                                                         *)
(* Properties and load state live in RAM; the table's data are written     *)
(* into the RAM copy of the flash (EEPROM emulation).  Both reach the      *)
(* flash in one commit, Memory::writeMemory.  The other table of the       *)
(* device, the router's filter table, does not fit the memory and is never *)
(* loaded; the application program's does.                                 *)
(*                                                                         *)
(* Timers count steps of time.  The main loop passes many times in a step, *)
(* so time goes on only when a pass has nothing due.  (The timers of the   *)
(* code keep clear of the value 0, which means off; at the one millisecond *)
(* of a wrap this makes a save early.)                                     *)
(***************************************************************************)
EXTENDS Integers

CONSTANTS
  Values, Default,  \* what the properties hold, and hold in a new device
  Images, First,    \* firmware images, and the one the device came with
  NoImage,
  Layout, Version,  \* of the records each image stores (layoutFingerprint)
  Quiet,            \* 5000 ms without a change
  MinSaveInterval,  \* kMinSaveIntervalMs: 60000
  Wrap,             \* values of millis()
  RestartDelay,     \* 200 ms from M_Reset.req to the restart
  RebootDelay,      \* 2000 ms from a web request to the restart
  Verify,           \* 30000 ms until new firmware is confirmed
  MaxUpdates        \* bound: online updates

ASSUME ValueAssumption == Default \in Values
ASSUME ImageAssumption ==
  /\ First \in Images /\ NoImage \notin Images
  /\ Layout \in [Images -> Nat \ {0}] /\ Version \in [Images -> Nat]
ASSUME TimeAssumption ==
  /\ Quiet \in Nat /\ MinSaveInterval \in Nat /\ Wrap \in Nat
  /\ Quiet < MinSaveInterval /\ MinSaveInterval < Wrap
  /\ RestartDelay \in Nat /\ RebootDelay \in Nat /\ Verify \in Nat
ASSUME UpdateAssumption == MaxUpdates \in Nat

VARIABLES
  ram,          \* configuration in RAM and Memory's timers
  flash,        \* the committed image
  image,        \* the running firmware
  fallback,     \* the firmware before it, while it is not confirmed
  uptime,       \* since the start, up to Verify
  basicRestart, \* _basicRestartAt
  reboot,       \* rebootTime, with pendingReboot
  reset,        \* knxConfigResetPending
  step,         \* the tool's place in a download
  updates,      \* bound: updates so far
  late,         \* history: how long RAM has held what a restart would lose
  fresh         \* history: nothing was written since the restart of a reset

memory == <<ram, flash>>
firmware == <<image, fallback, uptime>>
restarts == <<basicRestart, reboot, reset>>
vars == <<ram, flash, image, fallback, uptime, basicRestart, reboot, reset,
          step, updates, late, fresh>>

Off == -1          \* a timer that does not run; no timed save yet
LoadState == {"Unloaded", "Loading", "Loaded", "Error"}
LoadEvents == {"Noop", "StartLoading", "LoadCompleted", "Additional", "Unload", "Undefined"}
Data == {"erased", "partial", "complete"}

Ram ==
  [value : Values,
   state : LoadState,
   data : Data,                              \* of the table, in the RAM copy
   saveTimeout : Off .. Quiet + 1,
   firstPendingChange : Off .. MinSaveInterval,
   lastSave : Off .. Wrap - 1]

Flash ==
  [layout : Nat, version : Nat, value : Values, state : LoadState, data : Data]

(* What EEPROM.write(i, 0xFF) leaves: the layout of no image.              *)
Erased ==
  [layout |-> 0, version |-> 0, value |-> Default, state |-> "Unloaded", data |-> "erased"]

-----------------------------------------------------------------------------
(* Memory and TableObject.                                                 *)

(* Fault: every change is the first.                                       *)
BugScheduleSave(c) == [c EXCEPT !.firstPendingChange = 0, !.saveTimeout = 0]

ScheduleSave(c) ==
  [c EXCEPT !.firstPendingChange = IF c.saveTimeout = Off THEN 0 ELSE @,
            !.saveTimeout = 0]

(* loadEvent.  A static table takes no allocation (additionalLoadControls),*)
(* and has its memory when it is completed (allocTableStatic).             *)
LoadEvent(state, event) ==
  CASE event = "Noop" -> state
    [] event = "Unload" -> "Unloaded"
    [] event = "StartLoading" -> IF state \in {"Unloaded", "Loaded"} THEN "Loading" ELSE state
    [] event = "LoadCompleted" -> IF state = "Loading" THEN "Loaded" ELSE state
    [] event = "Additional" -> IF state \in {"Loading", "Loaded"} THEN "Error" ELSE state
    [] event = "Undefined" -> "Error"

(* The table's state is a property like any other: a write that is         *)
(* accepted schedules a save, also one that changes nothing.               *)
LoadControl(c, event) == ScheduleSave([c EXCEPT !.state = LoadEvent(@, event)])

(* A memory write holds a pending save off; it schedules none.             *)
MemoryWrite(c, data) ==
  [c EXCEPT !.data = data, !.saveTimeout = IF @ = Off THEN Off ELSE 0]

(* Memory::writeMemory, run by firmware i.                                 *)
Stored(c, i) ==
  [layout |-> Layout[i], version |-> Version[i],
   value |-> c.value, state |-> c.state, data |-> c.data]

NewRam(value, state, data) ==
  [value |-> value, state |-> state, data |-> data,
   saveTimeout |-> Off, firstPendingChange |-> Off, lastSave |-> Off]

(* Fault: the tables of another version keep their state.                  *)
BugReadMemory(f, i) ==
  CASE f.layout # Layout[i] -> NewRam(Default, "Unloaded", f.data)
    [] f.layout = Layout[i] /\ f.version = Version[i] -> NewRam(f.value, f.state, f.data)
    [] f.layout = Layout[i] /\ f.version # Version[i] ->
         ScheduleSave(NewRam(f.value, f.state, "erased"))

(* Memory::readMemory, run by firmware i: all of an image of its own       *)
(* layout; with another version the table is unloaded and filled; of an    *)
(* image with another layout, nothing.                                     *)
ReadMemory(f, i) ==
  CASE f.layout # Layout[i] -> NewRam(Default, "Unloaded", f.data)
    [] f.layout = Layout[i] /\ f.version = Version[i] -> NewRam(f.value, f.state, f.data)
    [] f.layout = Layout[i] /\ f.version # Version[i] ->
         LET c == NewRam(f.value, "Unloaded", "erased")
         IN  IF f.state = "Unloaded" THEN c ELSE ScheduleSave(c)

(* Memory::loop.                                                           *)
SaveDue(c) ==
  /\ c.saveTimeout # Off
  /\ c.saveTimeout > Quiet \/ c.firstPendingChange >= MinSaveInterval
  /\ c.lastSave = Off \/ c.lastSave >= MinSaveInterval

Saved(c) ==
  IF SaveDue(c)
    THEN [c EXCEPT !.saveTimeout = Off, !.firstPendingChange = Off, !.lastSave = 0]
    ELSE c

FlashSaved == IF SaveDue(ram) THEN Stored(ram, image) ELSE flash

-----------------------------------------------------------------------------
(* Restarts.                                                               *)

(* A restart now would lose a change.                                      *)
WouldLose(c, f, i) ==
  LET boot == ReadMemory(f, i)
  IN  \/ c.value # boot.value \/ c.state # boot.state
      \/ c.state = "Loaded" /\ c.data # boot.data

Lateness == late' = IF WouldLose(ram', flash', image') THEN late ELSE 0

(* The device starts firmware i on flash f.                                *)
Boot(f, i, back) ==
  /\ flash' = f /\ ram' = ReadMemory(f, i)
  /\ image' = i /\ fallback' = back /\ uptime' = 0
  /\ basicRestart' = Off /\ reboot' = Off /\ reset' = FALSE
  /\ step' = 0 /\ late' = 0

(* External: the boot loader reverts firmware that is not confirmed.       *)
Restart(f, back) == Boot(f, IF back = NoImage THEN image ELSE back, NoImage)

(* restartRequestIndication; a master reset resets nothing.                *)
RestartRequest ==
  /\ Restart(Stored(ram, image), fallback)
  /\ fresh' = FALSE
  /\ UNCHANGED updates

(* Power is lost, or the firmware crashes.                                 *)
PowerLoss ==
  /\ Restart(flash, fallback)
  /\ UNCHANGED <<updates, fresh>>

(* The task of an online update is done: it restarts the device where it   *)
(* stands.  (An update before the running firmware is confirmed is left    *)
(* out: it overwrites the firmware to fall back on.)                       *)
UpdateInstalled(i) ==
  /\ fallback = NoImage /\ i # image /\ updates < MaxUpdates
  /\ Boot(flash, i, image)
  /\ updates' = updates + 1
  /\ UNCHANGED fresh

-----------------------------------------------------------------------------
(* Requests.                                                               *)

Unrestarted == UNCHANGED <<image, fallback, uptime, basicRestart, reboot, reset, updates>>

(* An address or a property is written.                                    *)
PropertyWrite(v) ==
  /\ ram' = ScheduleSave([ram EXCEPT !.value = v])
  /\ fresh' = FALSE
  /\ UNCHANGED <<flash, step>> /\ Unrestarted
  /\ Lateness

(* External: the configuration tool downloads the application program:     *)
(* unload, start, write the data, complete, from the start as often as it  *)
(* likes.                                                                  *)
Download ==
  /\ \/ ram' = LoadControl(ram, "Unload") /\ step' = 1
     \/ step = 1 /\ ram' = LoadControl(ram, "StartLoading") /\ step' = 2
     \/ step = 2 /\ ram' = MemoryWrite(ram, "partial") /\ step' = 3
     \/ step = 3 /\ ram' = MemoryWrite(ram, "complete") /\ step' = 4
     \/ step = 4 /\ ram' = LoadControl(ram, "LoadCompleted") /\ step' = 0
  /\ fresh' = FALSE
  /\ UNCHANGED flash /\ Unrestarted
  /\ Lateness

(* Another client writes a load control.                                   *)
OtherLoadControl(event) ==
  /\ ram' = LoadControl(ram, event)
  /\ fresh' = FALSE
  /\ UNCHANGED <<flash, step>> /\ Unrestarted
  /\ Lateness

(* M_Reset.req.                                                            *)
BasicRestartSoon ==
  /\ basicRestart' = 0
  /\ UNCHANGED <<ram, flash, image, fallback, uptime, reboot, reset, step, updates, late, fresh>>

(* A handler of the web server, in a task of its own, asks for a restart.  *)
(* pendingReboot is set before rebootTime, and the loop may run in between.*)
WebReboot ==
  /\ reboot' \in {0, RebootDelay + 1}
  /\ UNCHANGED <<ram, flash, image, fallback, uptime, basicRestart, step, updates, late, fresh>>

PendReboot == WebReboot /\ UNCHANGED reset
KnxReset == WebReboot /\ reset' = TRUE

-----------------------------------------------------------------------------
(* A pass of the main loop: Memory::loop and the basic restart, then the   *)
(* rollback gate, then the restart of the web interface.                   *)

BasicRestartDue == basicRestart # Off /\ basicRestart >= RestartDelay
RebootDue == reboot # Off /\ reboot > RebootDelay

Confirmed == IF uptime > Verify THEN NoImage ELSE fallback

FlashBasicRestart == IF Saved(ram).saveTimeout # Off THEN Stored(ram, image) ELSE FlashSaved

(* Fault: what is pending is saved before the restart of a reset.          *)
BugFlashReboot ==
  CASE reset /\ ram.saveTimeout # Off -> Stored(ram, image)
    [] reset /\ ram.saveTimeout = Off -> Erased
    [] ~reset -> FlashSaved

FlashReboot == IF reset THEN Erased ELSE FlashSaved

Idle ==
  ~SaveDue(ram) /\ ~BasicRestartDue /\ ~RebootDue /\ Confirmed = fallback

Loop ==
  /\ ~Idle
  /\ \/ /\ BasicRestartDue
        /\ Restart(FlashBasicRestart, fallback)
        /\ fresh' = (fresh /\ FlashBasicRestart = flash)
     \/ /\ ~BasicRestartDue /\ RebootDue
        /\ Restart(FlashReboot, Confirmed)
        /\ fresh' = (reset \/ (fresh /\ FlashSaved = flash))
     \/ /\ ~BasicRestartDue /\ ~RebootDue
        /\ ram' = Saved(ram) /\ flash' = FlashSaved
        /\ fallback' = Confirmed
        /\ UNCHANGED <<image, uptime, basicRestart, reboot, reset, step, fresh>>
        /\ Lateness
  /\ UNCHANGED updates

Age(timer, limit) == IF timer = Off \/ timer >= limit THEN timer ELSE timer + 1

Tick ==
  /\ Idle
  /\ ram' = [ram EXCEPT !.saveTimeout = Age(@, Quiet + 1),
                        !.firstPendingChange = Age(@, MinSaveInterval),
                        !.lastSave = IF @ = Off THEN Off ELSE (@ + 1) % Wrap]
  /\ uptime' = Age(uptime, Verify + 1)
  /\ basicRestart' = Age(basicRestart, RestartDelay)
  /\ reboot' = Age(reboot, RebootDelay + 1)
  /\ late' = IF WouldLose(ram, flash, image) THEN late + 1 ELSE 0
  /\ UNCHANGED <<flash, image, fallback, reset, step, updates, fresh>>

-----------------------------------------------------------------------------
Init ==
  /\ flash = Erased /\ image = First /\ fallback = NoImage
  /\ ram = ReadMemory(Erased, First)
  /\ uptime = 0 /\ basicRestart = Off /\ reboot = Off /\ reset = FALSE
  /\ step = 0 /\ updates = 0 /\ late = 0 /\ fresh = FALSE

Next ==
  \/ RestartRequest \/ PowerLoss \/ BasicRestartSoon \/ PendReboot \/ KnxReset
  \/ \E i \in Images : UpdateInstalled(i)
  \/ \E v \in Values : PropertyWrite(v)
  \/ Download
  \/ \E event \in {"Noop", "Additional", "Undefined"} : OtherLoadControl(event)
  \/ Loop \/ Tick

Spec == Init /\ [][Next]_vars

-----------------------------------------------------------------------------
TypeOK ==
  /\ ram \in Ram /\ flash \in Flash
  /\ image \in Images /\ fallback \in Images \union {NoImage}
  /\ uptime \in 0 .. Verify + 1
  /\ basicRestart \in Off .. RestartDelay
  /\ reboot \in Off .. RebootDelay + 1
  /\ reset \in BOOLEAN
  /\ step \in 0 .. 4
  /\ updates \in 0 .. MaxUpdates
  /\ late \in Nat
  /\ fresh \in BOOLEAN

(* An application program that counts as loaded has the data of a whole    *)
(* download, whatever restarts came between its steps, whichever firmware  *)
(* came up and whatever it found on the flash (writeMemory, readMemory).   *)
LoadedIsComplete == ram.state = "Loaded" => ram.data = "complete"

(* "A change is at most a minute late on flash", however often changes     *)
(* follow each other and although saves are a minute apart.  Only the wrap *)
(* of millis() makes it later, because the last save then looks recent: by *)
(* the time since the wrap, a minute at most.  Data that are written to a  *)
(* table without loading it are no change here: nothing schedules a save.  *)
SinceWrap == IF ram.lastSave \in 0 .. MinSaveInterval THEN ram.lastSave ELSE 0
SavedInTime == late <= MinSaveInterval + SinceWrap

(* A device that restarts for a reset comes up unprogrammed and stays so   *)
(* through further restarts, whatever was changed before, and nothing that *)
(* was scheduled is written back.                                          *)
ResetSticks ==
  fresh => ram.value = Default /\ ram.state = "Unloaded" /\ flash.layout = 0

=============================================================================
