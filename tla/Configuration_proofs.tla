------------------------ MODULE Configuration_proofs ------------------------
(***************************************************************************)
(* Configuration keeps its type, a loaded program is complete, a reset     *)
(* device stays reset, and a change is saved in time: for all firmware     *)
(* images and all lengths of the timers.                                   *)
(***************************************************************************)
EXTENDS Configuration, TLAPS

-----------------------------------------------------------------------------
(* The inductive invariant.                                                *)

(* While the tool downloads, the program is not loaded; before it completes*)
(* the download the data are there.                                        *)
DownloadInv ==
  /\ flash.state = "Loaded" => flash.data = "complete"
  /\ step # 0 => ram.state # "Loaded"
  /\ step = 4 => ram.data = "complete"

(* After a reset nothing waits to be saved.                                *)
FreshInv == fresh => ram.saveTimeout = Off

(* What a restart would lose waits to be saved, and has waited no longer   *)
(* than the oldest change.                                                 *)
LateInv ==
  /\ WouldLose(ram, flash, image) => ram.saveTimeout # Off
  /\ late # 0 => WouldLose(ram, flash, image)
  /\ ram.saveTimeout # Off =>
       ram.firstPendingChange = MinSaveInterval \/ late <= ram.firstPendingChange

IInv ==
  /\ TypeOK
  /\ DownloadInv /\ LoadedIsComplete
  /\ FreshInv /\ ResetSticks
  /\ LateInv /\ SavedInTime

-----------------------------------------------------------------------------
(* The operators of Memory.                                                *)

LEMMA ScheduleSaveTyped ==
  ASSUME NEW c \in Ram
  PROVE  /\ ScheduleSave(c) \in Ram
         /\ ScheduleSave(c).value = c.value /\ ScheduleSave(c).state = c.state
         /\ ScheduleSave(c).data = c.data /\ ScheduleSave(c).lastSave = c.lastSave
         /\ ScheduleSave(c).saveTimeout = 0
         /\ ScheduleSave(c).firstPendingChange =
              IF c.saveTimeout = Off THEN 0 ELSE c.firstPendingChange
<1>1. 0 \in Off .. Quiet + 1 /\ 0 \in Off .. MinSaveInterval
  BY TimeAssumption DEF Off
<1> DEFINE p == IF c.saveTimeout = Off THEN 0 ELSE c.firstPendingChange
<1>2. p \in Off .. MinSaveInterval
  BY <1>1 DEF Ram
<1>3. ScheduleSave(c) = [c EXCEPT !.firstPendingChange = p, !.saveTimeout = 0]
  BY DEF ScheduleSave
<1> HIDE DEF p
<1>4. [c EXCEPT !.firstPendingChange = p, !.saveTimeout = 0] \in Ram
  BY <1>1, <1>2 DEF Ram
<1>5. /\ [c EXCEPT !.firstPendingChange = p, !.saveTimeout = 0].firstPendingChange = p
      /\ [c EXCEPT !.firstPendingChange = p, !.saveTimeout = 0].saveTimeout = 0
      /\ [c EXCEPT !.firstPendingChange = p, !.saveTimeout = 0].value = c.value
      /\ [c EXCEPT !.firstPendingChange = p, !.saveTimeout = 0].state = c.state
      /\ [c EXCEPT !.firstPendingChange = p, !.saveTimeout = 0].data = c.data
      /\ [c EXCEPT !.firstPendingChange = p, !.saveTimeout = 0].lastSave = c.lastSave
  BY DEF Ram
<1> QED
  BY <1>3, <1>4, <1>5 DEF p

LEMMA LoadEventTyped ==
  ASSUME NEW s \in LoadState, NEW event \in LoadEvents
  PROVE  /\ LoadEvent(s, event) \in LoadState
         /\ LoadEvent(s, event) = "Loaded" => s = "Loaded" \/ event = "LoadCompleted"
         /\ event \in {"Unload", "StartLoading"} => LoadEvent(s, event) # "Loaded"
BY DEF LoadEvent, LoadState, LoadEvents

LEMMA LoadControlTyped ==
  ASSUME NEW c \in Ram, NEW event \in LoadEvents
  PROVE  /\ LoadControl(c, event) \in Ram
         /\ LoadControl(c, event).value = c.value
         /\ LoadControl(c, event).state = LoadEvent(c.state, event)
         /\ LoadControl(c, event).data = c.data
         /\ LoadControl(c, event).lastSave = c.lastSave
         /\ LoadControl(c, event).saveTimeout = 0
         /\ LoadControl(c, event).firstPendingChange =
              IF c.saveTimeout = Off THEN 0 ELSE c.firstPendingChange
<1> DEFINE d == [c EXCEPT !.state = LoadEvent(@, event)]
<1>1. LoadEvent(c.state, event) \in LoadState
  BY LoadEventTyped DEF Ram
<1>2. /\ d \in Ram /\ d.value = c.value /\ d.state = LoadEvent(c.state, event)
      /\ d.data = c.data /\ d.lastSave = c.lastSave /\ d.saveTimeout = c.saveTimeout
      /\ d.firstPendingChange = c.firstPendingChange
  BY <1>1 DEF Ram
<1>3. LoadControl(c, event) = ScheduleSave(d)
  BY DEF LoadControl
<1> HIDE DEF d
<1> QED
  BY <1>2, <1>3, ScheduleSaveTyped

LEMMA MemoryWriteTyped ==
  ASSUME NEW c \in Ram, NEW data \in Data
  PROVE  /\ MemoryWrite(c, data) \in Ram
         /\ MemoryWrite(c, data).value = c.value /\ MemoryWrite(c, data).state = c.state
         /\ MemoryWrite(c, data).data = data /\ MemoryWrite(c, data).lastSave = c.lastSave
         /\ (MemoryWrite(c, data).saveTimeout = Off) = (c.saveTimeout = Off)
         /\ MemoryWrite(c, data).firstPendingChange = c.firstPendingChange
<1> DEFINE t == IF c.saveTimeout = Off THEN Off ELSE 0
<1>1. t \in Off .. Quiet + 1 /\ (t = Off) = (c.saveTimeout = Off)
  BY TimeAssumption DEF Off
<1>2. MemoryWrite(c, data) = [c EXCEPT !.data = data, !.saveTimeout = t]
  BY DEF MemoryWrite
<1> HIDE DEF t
<1>3. [c EXCEPT !.data = data, !.saveTimeout = t] \in Ram
  BY <1>1 DEF Ram
<1>4. /\ [c EXCEPT !.data = data, !.saveTimeout = t].data = data
      /\ [c EXCEPT !.data = data, !.saveTimeout = t].saveTimeout = t
      /\ [c EXCEPT !.data = data, !.saveTimeout = t].value = c.value
      /\ [c EXCEPT !.data = data, !.saveTimeout = t].state = c.state
      /\ [c EXCEPT !.data = data, !.saveTimeout = t].lastSave = c.lastSave
      /\ [c EXCEPT !.data = data, !.saveTimeout = t].firstPendingChange = c.firstPendingChange
  BY DEF Ram
<1> QED
  BY <1>1, <1>2, <1>3, <1>4

LEMMA StoredTyped ==
  ASSUME NEW c \in Ram, NEW i \in Images
  PROVE  /\ Stored(c, i) \in Flash
         /\ Stored(c, i).state = c.state /\ Stored(c, i).data = c.data
BY ImageAssumption DEF Stored, Ram, Flash

LEMMA NewRamTyped ==
  ASSUME NEW v \in Values, NEW s \in LoadState, NEW data \in Data
  PROVE  /\ NewRam(v, s, data) \in Ram
         /\ NewRam(v, s, data).value = v /\ NewRam(v, s, data).state = s
         /\ NewRam(v, s, data).data = data /\ NewRam(v, s, data).saveTimeout = Off
         /\ NewRam(v, s, data).lastSave = Off
BY TimeAssumption DEF NewRam, Ram, Off

(* What a boot reads is of this image's layout or nothing, and loaded only *)
(* when the flash holds it loaded.                                         *)
LEMMA ReadMemoryTyped ==
  ASSUME NEW f \in Flash, NEW i \in Images
  PROVE  /\ ReadMemory(f, i) \in Ram
         /\ ReadMemory(f, i).state = "Loaded" => f.state = "Loaded" /\ ReadMemory(f, i).data = f.data
         /\ f.layout # Layout[i] =>
              /\ ReadMemory(f, i).value = Default /\ ReadMemory(f, i).state = "Unloaded"
              /\ ReadMemory(f, i).saveTimeout = Off
         /\ ReadMemory(f, i).saveTimeout # Off => ReadMemory(f, i).firstPendingChange # Off
         /\ ReadMemory(f, i).lastSave = Off
<1>0. "Unloaded" \in LoadState /\ "erased" \in Data /\ Default \in Values
      /\ f.value \in Values /\ f.state \in LoadState /\ f.data \in Data
  BY ValueAssumption DEF LoadState, Data, Flash
<1>1. CASE f.layout # Layout[i]
  <2>1. ReadMemory(f, i) = NewRam(Default, "Unloaded", f.data)
    BY <1>1 DEF ReadMemory
  <2> QED
    BY <1>0, <1>1, <2>1, NewRamTyped
<1>2. CASE f.layout = Layout[i] /\ f.version = Version[i]
  <2>1. ReadMemory(f, i) = NewRam(f.value, f.state, f.data)
    BY <1>2 DEF ReadMemory
  <2> QED
    BY <1>0, <1>2, <2>1, NewRamTyped
<1>3. CASE f.layout = Layout[i] /\ f.version # Version[i]
  <2> DEFINE c == NewRam(f.value, "Unloaded", "erased")
  <2>1. ReadMemory(f, i) = IF f.state = "Unloaded" THEN c ELSE ScheduleSave(c)
    BY <1>3 DEF ReadMemory
  <2>2. c \in Ram /\ c.state = "Unloaded" /\ c.saveTimeout = Off /\ c.lastSave = Off
    BY <1>0, NewRamTyped
  <2> HIDE DEF c
  <2> QED
    BY <1>3, <2>1, <2>2, ScheduleSaveTyped DEF Off
<1> QED
  BY <1>1, <1>2, <1>3

(* What was just saved or read is not lost by a restart.                   *)
LEMMA NothingLostAfterSave ==
  ASSUME NEW c \in Ram, NEW d \in Ram, NEW i \in Images,
         d.value = c.value, d.state = c.state, d.data = c.data
  PROVE  ~WouldLose(d, Stored(c, i), i)
<1>1. ReadMemory(Stored(c, i), i) = NewRam(c.value, c.state, c.data)
  BY DEF ReadMemory, Stored
<1> QED
  BY <1>1 DEF WouldLose, NewRam

LEMMA NothingLostByBoot ==
  ASSUME NEW f \in Flash, NEW i \in Images
  PROVE  ~WouldLose(ReadMemory(f, i), f, i)
BY DEF WouldLose

LEMMA SavedTyped ==
  ASSUME NEW c \in Ram
  PROVE  /\ Saved(c) \in Ram
         /\ Saved(c).value = c.value /\ Saved(c).state = c.state /\ Saved(c).data = c.data
         /\ SaveDue(c) => Saved(c).saveTimeout = Off /\ c.saveTimeout # Off
         /\ ~SaveDue(c) => Saved(c) = c
<1>1. CASE ~SaveDue(c)
  BY <1>1 DEF Saved
<1>2. CASE SaveDue(c)
  <2> DEFINE d == [c EXCEPT !.saveTimeout = Off, !.firstPendingChange = Off, !.lastSave = 0]
  <2>1. Saved(c) = d
    BY <1>2 DEF Saved
  <2>2. Off \in Off .. Quiet + 1 /\ Off \in Off .. MinSaveInterval /\ 0 \in Off .. Wrap - 1
    BY TimeAssumption DEF Off
  <2>3. d \in Ram
    BY <2>2 DEF Ram
  <2>4. /\ d.value = c.value /\ d.state = c.state /\ d.data = c.data
        /\ d.saveTimeout = Off
    BY DEF Ram
  <2>5. c.saveTimeout # Off
    BY <1>2 DEF SaveDue
  <2> HIDE DEF d
  <2> QED
    BY <1>2, <2>1, <2>3, <2>4, <2>5
<1> QED
  BY <1>1, <1>2

LEMMA ErasedTyped ==
  Erased \in Flash /\ Erased.state = "Unloaded" /\ Erased.layout = 0
BY ValueAssumption DEF Erased, Flash, LoadState, Data

-----------------------------------------------------------------------------
(* The steps.                                                              *)

(* A boot from a flash that holds a whole program or none, as long as it   *)
(* does not claim that a programmed flash is that of a reset.              *)
LEMMA BootSound ==
  ASSUME IInv, NEW f \in Flash, NEW i \in Images, NEW back \in Images \union {NoImage},
         f.state = "Loaded" => f.data = "complete",
         Boot(f, i, back), updates' \in 0 .. MaxUpdates,
         fresh' \in BOOLEAN, fresh' => f.layout = 0
  PROVE  IInv'
<1> DEFINE r == ReadMemory(f, i)
<1>1. /\ r \in Ram
      /\ r.state = "Loaded" => f.state = "Loaded" /\ r.data = f.data
      /\ f.layout # Layout[i] =>
           r.value = Default /\ r.state = "Unloaded" /\ r.saveTimeout = Off
      /\ r.saveTimeout # Off => r.firstPendingChange # Off
      /\ r.lastSave = Off
  BY ReadMemoryTyped
<1>2. Layout[i] # 0
  BY ImageAssumption
<1>3. ~WouldLose(r, f, i)
  BY NothingLostByBoot
<1>4. /\ ram' = r /\ flash' = f /\ image' = i /\ fallback' = back /\ uptime' = 0
      /\ basicRestart' = Off /\ reboot' = Off /\ reset' = FALSE /\ step' = 0 /\ late' = 0
  BY DEF Boot
<1> HIDE DEF r
<1>5. TypeOK'
  <2>1. /\ 0 \in 0 .. Verify + 1 /\ 0 \in 0 .. 4 /\ 0 \in Nat
        /\ Off \in Off .. RestartDelay /\ Off \in Off .. RebootDelay + 1
    BY TimeAssumption DEF Off
  <2> QED
    BY <1>1, <1>4, <2>1 DEF TypeOK
<1>6. DownloadInv' /\ LoadedIsComplete'
  BY <1>1, <1>4 DEF DownloadInv, LoadedIsComplete
<1>7. FreshInv' /\ ResetSticks'
  BY <1>1, <1>2, <1>4 DEF FreshInv, ResetSticks
<1>8. ~WouldLose(ram', flash', image')
  BY <1>3, <1>4
<1>9. LateInv'
  <2>1. r.saveTimeout # Off => 0 <= r.firstPendingChange
    BY <1>1 DEF Ram, Off
  <2> QED
    BY <1>4, <1>8, <2>1 DEF LateInv
<1>10. SavedInTime'
  BY <1>1, <1>4, TimeAssumption DEF SavedInTime, SinceWrap, Ram, Off
<1> QED
  BY <1>5, <1>6, <1>7, <1>9, <1>10 DEF IInv

(* The image to start is that of the running firmware or the one before.   *)
LEMMA RestartSound ==
  ASSUME IInv, NEW f \in Flash, NEW back \in Images \union {NoImage},
         f.state = "Loaded" => f.data = "complete",
         Restart(f, back), updates' = updates,
         fresh' \in BOOLEAN, fresh' => f.layout = 0
  PROVE  IInv'
<1> DEFINE i == IF back = NoImage THEN image ELSE back
<1>1. i \in Images /\ updates' \in 0 .. MaxUpdates /\ NoImage \in Images \union {NoImage}
  BY DEF IInv, TypeOK
<1>2. Boot(f, i, NoImage)
  BY DEF Restart
<1> HIDE DEF i
<1> QED
  BY <1>1, <1>2, BootSound

(* A request that leaves the flash alone: what it changes is scheduled, or *)
(* is nothing a restart would lose.                                        *)
LEMMA WriteSound ==
  ASSUME IInv, ram' \in Ram, UNCHANGED flash, Unrestarted, Lateness,
         fresh' = FALSE, step' \in 0 .. 4, DownloadInv', LoadedIsComplete',
         ram'.lastSave = ram.lastSave,
         \/ /\ ram'.saveTimeout = 0
            /\ ram'.firstPendingChange =
                 IF ram.saveTimeout = Off THEN 0 ELSE ram.firstPendingChange
         \/ /\ (ram'.saveTimeout = Off) = (ram.saveTimeout = Off)
            /\ ram'.firstPendingChange = ram.firstPendingChange
            /\ WouldLose(ram', flash, image) => WouldLose(ram, flash, image)
  PROVE  IInv'
<1>1. /\ flash' = flash /\ image' = image /\ fallback' = fallback /\ uptime' = uptime
      /\ basicRestart' = basicRestart /\ reboot' = reboot /\ reset' = reset
      /\ updates' = updates
  BY DEF Unrestarted
<1>2. late' = IF WouldLose(ram', flash, image) THEN late ELSE 0
  BY <1>1 DEF Lateness
<1>3. TypeOK /\ LateInv /\ SavedInTime
  BY DEF IInv
<1>4. late \in Nat /\ late' \in Nat /\ late' <= late
  BY <1>2, <1>3 DEF TypeOK
<1>5. TypeOK'
  BY <1>1, <1>3, <1>4 DEF TypeOK
<1>6. FreshInv' /\ ResetSticks'
  BY DEF FreshInv, ResetSticks
<1>7. SavedInTime'
  <2>1. SinceWrap' = SinceWrap
    BY DEF SinceWrap
  <2>2. SinceWrap \in Nat
    BY <1>3, TimeAssumption DEF SinceWrap, TypeOK, Ram
  <2> QED
    BY <1>3, <1>4, <2>1, <2>2, TimeAssumption DEF SavedInTime
<1>8. LateInv'
  <2>1. /\ WouldLose(ram, flash, image) => ram.saveTimeout # Off
        /\ late # 0 => WouldLose(ram, flash, image)
        /\ ram.saveTimeout # Off =>
             ram.firstPendingChange = MinSaveInterval \/ late <= ram.firstPendingChange
    BY <1>3 DEF LateInv
  <2>2. late' # 0 => WouldLose(ram', flash, image)
    BY <1>2
  <2>3. WouldLose(ram', flash', image') = WouldLose(ram', flash, image)
    BY <1>1
  <2>4. 0 # Off
    BY DEF Off
  <2>5. WouldLose(ram', flash, image) => ram'.saveTimeout # Off
    BY <2>1, <2>4
  <2>6. ram.firstPendingChange \in Int
    BY <1>3 DEF TypeOK, Ram, Off
  <2>7. ram'.saveTimeout # Off =>
          ram'.firstPendingChange = MinSaveInterval \/ late' <= ram'.firstPendingChange
    <3>1. CASE ram.saveTimeout = Off
      BY <3>1, <1>4, <2>1, <2>6
    <3>2. CASE ram.saveTimeout # Off
      BY <3>2, <1>4, <2>1, <2>6
    <3> QED
      BY <3>1, <3>2
  <2> QED
    BY <2>2, <2>3, <2>5, <2>7 DEF LateInv
<1> QED
  BY <1>5, <1>6, <1>7, <1>8 DEF IInv

LEMMA InitSound == Init => IInv
<1> SUFFICES ASSUME Init PROVE IInv
  OBVIOUS
<1> DEFINE r == ReadMemory(Erased, First)
<1>1. /\ r \in Ram /\ r.value = Default /\ r.state = "Unloaded"
      /\ r.saveTimeout = Off /\ r.lastSave = Off
  <2>1. Layout[First] # 0 /\ First \in Images
    BY ImageAssumption
  <2> QED
    BY <2>1, ErasedTyped, ReadMemoryTyped
<1>2. ~WouldLose(r, Erased, First)
  BY NothingLostByBoot, ErasedTyped, ImageAssumption
<1>3. /\ ram = r /\ flash = Erased /\ image = First /\ fallback = NoImage /\ uptime = 0
      /\ basicRestart = Off /\ reboot = Off /\ reset = FALSE /\ step = 0 /\ updates = 0
      /\ late = 0 /\ fresh = FALSE
  BY DEF Init
<1> HIDE DEF r
<1>4. TypeOK
  <2>1. /\ 0 \in 0 .. Verify + 1 /\ 0 \in 0 .. 4 /\ 0 \in Nat /\ 0 \in 0 .. MaxUpdates
        /\ Off \in Off .. RestartDelay /\ Off \in Off .. RebootDelay + 1
    BY TimeAssumption, UpdateAssumption DEF Off
  <2> QED
    BY <1>1, <1>3, <2>1, ErasedTyped, ImageAssumption DEF TypeOK
<1>5. DownloadInv /\ LoadedIsComplete /\ FreshInv /\ ResetSticks
  BY <1>1, <1>3, ErasedTyped DEF DownloadInv, LoadedIsComplete, FreshInv, ResetSticks
<1>6. LateInv /\ SavedInTime
  BY <1>1, <1>2, <1>3, TimeAssumption DEF LateInv, SavedInTime, SinceWrap, Off
<1> QED
  BY <1>4, <1>5, <1>6 DEF IInv

(* While nothing was written since a reset, nothing is saved.              *)
LEMMA FreshSavesNothing ==
  ASSUME IInv, fresh
  PROVE  ~SaveDue(ram) /\ FlashSaved = flash /\ FlashBasicRestart = flash
<1>1. ram.saveTimeout = Off
  BY DEF IInv, FreshInv
<1>2. ~SaveDue(ram)
  BY <1>1 DEF SaveDue
<1> QED
  BY <1>1, <1>2 DEF FlashSaved, FlashBasicRestart, Saved

(* Whatever is on the flash after a pass holds a whole program or none.    *)
LEMMA FlashWhole ==
  ASSUME IInv
  PROVE  \A f \in {flash, Stored(ram, image), FlashSaved, FlashBasicRestart} :
           f \in Flash /\ (f.state = "Loaded" => f.data = "complete")
<1>1. ram \in Ram /\ flash \in Flash /\ image \in Images
  BY DEF IInv, TypeOK
<1>2. /\ flash.state = "Loaded" => flash.data = "complete"
      /\ ram.state = "Loaded" => ram.data = "complete"
  BY DEF IInv, DownloadInv, LoadedIsComplete
<1>3. FlashSaved \in {flash, Stored(ram, image)}
  BY DEF FlashSaved
<1>4. FlashBasicRestart \in {flash, Stored(ram, image)}
  BY <1>3 DEF FlashBasicRestart
<1> QED
  BY <1>1, <1>2, <1>3, <1>4, StoredTyped

LEMMA RestartSteps ==
  ASSUME IInv, RestartRequest \/ PowerLoss \/ \E i \in Images : UpdateInstalled(i)
  PROVE  IInv'
<1>0. TypeOK /\ ResetSticks
  BY DEF IInv
<1>1. CASE RestartRequest
  BY <1>0, <1>1, FlashWhole, RestartSound DEF RestartRequest, TypeOK
<1>2. CASE PowerLoss
  BY <1>0, <1>2, FlashWhole, RestartSound DEF PowerLoss, TypeOK, ResetSticks
<1>3. ASSUME NEW i \in Images, UpdateInstalled(i) PROVE IInv'
  <2>1. Boot(flash, i, image) /\ updates < MaxUpdates /\ updates' = updates + 1 /\ fresh' = fresh
    BY <1>3 DEF UpdateInstalled
  <2>2. updates' \in 0 .. MaxUpdates
    BY <1>0, <2>1, UpdateAssumption DEF TypeOK
  <2>3. image \in Images \union {NoImage} /\ fresh \in BOOLEAN /\ (fresh => flash.layout = 0)
    BY <1>0 DEF TypeOK, ResetSticks
  <2> QED
    BY <2>1, <2>2, <2>3, FlashWhole, BootSound
<1> QED
  BY <1>1, <1>2, <1>3

LEMMA PropertyWriteSound ==
  ASSUME IInv, NEW v \in Values, PropertyWrite(v)
  PROVE  IInv'
<1> DEFINE c == [ram EXCEPT !.value = v]
<1>1. /\ ram' = ScheduleSave(c) /\ fresh' = FALSE /\ flash' = flash /\ step' = step
      /\ Unrestarted /\ Lateness
  BY DEF PropertyWrite
<1>2. ram \in Ram /\ step \in 0 .. 4
  BY DEF IInv, TypeOK
<1>3. /\ c \in Ram /\ c.state = ram.state /\ c.data = ram.data /\ c.lastSave = ram.lastSave
      /\ c.saveTimeout = ram.saveTimeout /\ c.firstPendingChange = ram.firstPendingChange
  BY <1>2 DEF Ram
<1> HIDE DEF c
<1>4. /\ ram' \in Ram /\ ram'.state = ram.state /\ ram'.data = ram.data
      /\ ram'.lastSave = ram.lastSave /\ ram'.saveTimeout = 0
      /\ ram'.firstPendingChange = IF ram.saveTimeout = Off THEN 0 ELSE ram.firstPendingChange
  BY <1>1, <1>3, ScheduleSaveTyped
<1>5. DownloadInv' /\ LoadedIsComplete'
  BY <1>1, <1>4 DEF IInv, DownloadInv, LoadedIsComplete
<1> QED
  BY <1>1, <1>2, <1>4, <1>5, WriteSound

(* A load control on its own, or as a step of the download.                *)
LEMMA LoadControlSound ==
  ASSUME IInv, NEW event \in LoadEvents, ram' = LoadControl(ram, event),
         UNCHANGED flash, Unrestarted, Lateness, fresh' = FALSE, step' \in 0 .. 4,
         event = "LoadCompleted" => step = 4 /\ step' = 0,
         event \notin {"Unload", "StartLoading", "LoadCompleted"} => step' = step,
         step' # 4 \/ step' = step
  PROVE  IInv'
<1>1. ram \in Ram /\ ram.state \in LoadState
  BY DEF IInv, TypeOK, Ram
<1>2. /\ ram' \in Ram /\ ram'.state = LoadEvent(ram.state, event) /\ ram'.data = ram.data
      /\ ram'.lastSave = ram.lastSave /\ ram'.saveTimeout = 0
      /\ ram'.firstPendingChange = IF ram.saveTimeout = Off THEN 0 ELSE ram.firstPendingChange
  BY <1>1, LoadControlTyped
<1>3. /\ LoadEvent(ram.state, event) = "Loaded" => ram.state = "Loaded" \/ event = "LoadCompleted"
      /\ event \in {"Unload", "StartLoading"} => LoadEvent(ram.state, event) # "Loaded"
  BY <1>1, LoadEventTyped
<1>4. DownloadInv' /\ LoadedIsComplete'
  BY <1>2, <1>3 DEF IInv, DownloadInv, LoadedIsComplete
<1> QED
  BY <1>2, <1>4, WriteSound

LEMMA MemoryWriteSound ==
  ASSUME IInv, NEW data \in Data, ram' = MemoryWrite(ram, data),
         UNCHANGED flash, Unrestarted, Lateness, fresh' = FALSE,
         step # 0, step' \in {3, 4}, step' = 4 => data = "complete"
  PROVE  IInv'
<1>1. ram \in Ram /\ ram.state # "Loaded"
  BY DEF IInv, TypeOK, DownloadInv
<1>2. /\ ram' \in Ram /\ ram'.value = ram.value /\ ram'.state = ram.state /\ ram'.data = data
      /\ ram'.lastSave = ram.lastSave
      /\ (ram'.saveTimeout = Off) = (ram.saveTimeout = Off)
      /\ ram'.firstPendingChange = ram.firstPendingChange
  BY <1>1, MemoryWriteTyped
<1>3. DownloadInv' /\ LoadedIsComplete'
  BY <1>1, <1>2 DEF IInv, DownloadInv, LoadedIsComplete
<1>4. WouldLose(ram', flash, image) => WouldLose(ram, flash, image)
  BY <1>1, <1>2 DEF WouldLose
<1>5. step' \in 0 .. 4
  OBVIOUS
<1> QED
  BY <1>2, <1>3, <1>4, <1>5, WriteSound

LEMMA DownloadSound ==
  ASSUME IInv, Download
  PROVE  IInv'
<1>1. fresh' = FALSE /\ flash' = flash /\ Unrestarted /\ Lateness
  BY DEF Download
<1>2. /\ "Unload" \in LoadEvents /\ "StartLoading" \in LoadEvents /\ "LoadCompleted" \in LoadEvents
      /\ "partial" \in Data /\ "complete" \in Data
  BY DEF LoadEvents, Data
<1>3. CASE ram' = LoadControl(ram, "Unload") /\ step' = 1
  <2>1. step' \in 0 .. 4 /\ step' # 4
    BY <1>3
  <2>2. "Unload" = "LoadCompleted" => step = 4 /\ step' = 0
    BY <1>3
  <2>3. "Unload" \notin {"Unload", "StartLoading", "LoadCompleted"} => step' = step
    OBVIOUS
  <2> QED
    BY <1>1, <1>2, <1>3, <2>1, <2>2, <2>3, LoadControlSound
<1>4. CASE step = 1 /\ ram' = LoadControl(ram, "StartLoading") /\ step' = 2
  <2>1. step' \in 0 .. 4 /\ step' # 4
    BY <1>4
  <2>2. "StartLoading" = "LoadCompleted" => step = 4 /\ step' = 0
    BY <1>4
  <2>3. "StartLoading" \notin {"Unload", "StartLoading", "LoadCompleted"} => step' = step
    OBVIOUS
  <2> QED
    BY <1>1, <1>2, <1>4, <2>1, <2>2, <2>3, LoadControlSound
<1>5. CASE step = 2 /\ ram' = MemoryWrite(ram, "partial") /\ step' = 3
  <2>1. step # 0 /\ step' \in {3, 4}
    BY <1>5
  <2>2. step' = 4 => "partial" = "complete"
    BY <1>5
  <2> QED
    BY <1>1, <1>2, <1>5, <2>1, <2>2, MemoryWriteSound
<1>6. CASE step = 3 /\ ram' = MemoryWrite(ram, "complete") /\ step' = 4
  <2>1. step # 0 /\ step' \in {3, 4}
    BY <1>6
  <2>2. step' = 4 => "complete" = "complete"
    BY <1>6
  <2> QED
    BY <1>1, <1>2, <1>6, <2>1, <2>2, MemoryWriteSound
<1>7. CASE step = 4 /\ ram' = LoadControl(ram, "LoadCompleted") /\ step' = 0
  <2>1. step' \in 0 .. 4 /\ step' # 4
    BY <1>7
  <2>2. "LoadCompleted" = "LoadCompleted" => step = 4 /\ step' = 0
    BY <1>7
  <2>3. "LoadCompleted" \notin {"Unload", "StartLoading", "LoadCompleted"} => step' = step
    OBVIOUS
  <2> QED
    BY <1>1, <1>2, <1>7, <2>1, <2>2, <2>3, LoadControlSound
<1> QED
  BY <1>3, <1>4, <1>5, <1>6, <1>7 DEF Download

LEMMA OtherLoadControlSound ==
  ASSUME IInv, NEW event \in {"Noop", "Additional", "Undefined"}, OtherLoadControl(event)
  PROVE  IInv'
<1>1. /\ ram' = LoadControl(ram, event) /\ fresh' = FALSE /\ flash' = flash /\ step' = step
      /\ Unrestarted /\ Lateness
  BY DEF OtherLoadControl
<1>2. event \in LoadEvents /\ event \notin {"Unload", "StartLoading", "LoadCompleted"}
  BY DEF LoadEvents
<1>3. step \in 0 .. 4
  BY DEF IInv, TypeOK
<1> QED
  BY <1>1, <1>2, <1>3, LoadControlSound

(* What asks for a restart touches nothing the invariant is about.         *)
LEMMA RequestedSound ==
  ASSUME IInv, BasicRestartSoon \/ PendReboot \/ KnxReset
  PROVE  IInv'
<1>1. UNCHANGED <<ram, flash, image, fallback, uptime, step, updates, late, fresh>>
  BY DEF BasicRestartSoon, PendReboot, KnxReset, WebReboot
<1>2. TypeOK
  BY DEF IInv
<1>3. TypeOK'
  <2>1. basicRestart' \in Off .. RestartDelay
    BY <1>2, TimeAssumption DEF BasicRestartSoon, PendReboot, KnxReset, WebReboot, TypeOK, Off
  <2>2. reboot' \in Off .. RebootDelay + 1
    BY <1>2, TimeAssumption DEF BasicRestartSoon, PendReboot, KnxReset, WebReboot, TypeOK, Off
  <2>3. reset' \in BOOLEAN
    BY <1>2 DEF BasicRestartSoon, PendReboot, KnxReset, WebReboot, TypeOK
  <2> QED
    BY <1>1, <1>2, <2>1, <2>2, <2>3 DEF TypeOK
<1>4. (DownloadInv /\ LoadedIsComplete /\ FreshInv /\ ResetSticks)'
  BY <1>1 DEF IInv, DownloadInv, LoadedIsComplete, FreshInv, ResetSticks
<1>5. (LateInv /\ SavedInTime)'
  BY <1>1 DEF IInv, LateInv, SavedInTime, SinceWrap
<1> QED
  BY <1>3, <1>4, <1>5 DEF IInv

(* A pass of the main loop.                                                *)
LEMMA LoopSound ==
  ASSUME IInv, Loop
  PROVE  IInv'
<1>0. /\ TypeOK /\ updates' = updates
      /\ ram \in Ram /\ image \in Images /\ fallback \in Images \union {NoImage}
      /\ fresh \in BOOLEAN /\ reset \in BOOLEAN
  BY DEF IInv, TypeOK, Loop
<1>1. fresh => flash.layout = 0
  BY DEF IInv, ResetSticks
<1>2. Confirmed \in Images \union {NoImage}
  BY <1>0 DEF Confirmed
<1>3. CASE /\ Restart(FlashBasicRestart, fallback)
           /\ fresh' = (fresh /\ FlashBasicRestart = flash)
  BY <1>0, <1>1, <1>3, FlashWhole, RestartSound
<1>4. CASE /\ Restart(FlashReboot, Confirmed)
           /\ fresh' = (reset \/ (fresh /\ FlashSaved = flash))
  <2>1. FlashReboot = IF reset THEN Erased ELSE FlashSaved
    BY DEF FlashReboot
  <2>2. FlashReboot \in Flash /\ (FlashReboot.state = "Loaded" => FlashReboot.data = "complete")
    BY <2>1, FlashWhole, ErasedTyped
  <2>3. fresh' => FlashReboot.layout = 0
    BY <1>1, <1>4, <2>1, ErasedTyped
  <2>4. fresh' \in BOOLEAN
    BY <1>0, <1>4
  <2> QED
    BY <1>0, <1>2, <1>4, <2>2, <2>3, <2>4, RestartSound
<1>5. CASE /\ ram' = Saved(ram) /\ flash' = FlashSaved /\ fallback' = Confirmed /\ Lateness
           /\ UNCHANGED <<image, uptime, basicRestart, reboot, reset, step, fresh>>
  <2>1. CASE ~SaveDue(ram)
    <3>1. ram' = ram /\ flash' = flash
      BY <1>5, <2>1 DEF Saved, FlashSaved
    <3>2. late' = late
      BY <1>5, <3>1 DEF Lateness, IInv, LateInv
    <3>3. TypeOK'
      BY <1>0, <1>2, <1>5, <3>1, <3>2 DEF TypeOK
    <3>4. (DownloadInv /\ LoadedIsComplete /\ FreshInv /\ ResetSticks)'
      BY <1>5, <3>1 DEF IInv, DownloadInv, LoadedIsComplete, FreshInv, ResetSticks
    <3>5. (LateInv /\ SavedInTime)'
      BY <1>5, <3>1, <3>2 DEF IInv, LateInv, SavedInTime, SinceWrap
    <3> QED
      BY <3>3, <3>4, <3>5 DEF IInv
  <2>2. CASE SaveDue(ram)
    <3>1. /\ ram' \in Ram /\ ram'.value = ram.value /\ ram'.state = ram.state
          /\ ram'.data = ram.data /\ ram'.saveTimeout = Off
      BY <1>0, <1>5, <2>2, SavedTyped
    <3>2. flash' = Stored(ram, image) /\ flash' \in Flash
          /\ flash'.state = ram.state /\ flash'.data = ram.data
      BY <1>0, <1>5, <2>2, StoredTyped DEF FlashSaved
    <3>3. ~WouldLose(ram', flash', image')
      BY <1>0, <1>5, <3>1, <3>2, NothingLostAfterSave
    <3>4. ~fresh
      BY <2>2, FreshSavesNothing
    <3>5. late' = 0
      BY <1>5, <3>3 DEF Lateness
    <3>6. TypeOK'
      BY <1>0, <1>2, <1>5, <3>1, <3>2, <3>5 DEF TypeOK
    <3>7. (DownloadInv /\ LoadedIsComplete)'
      BY <1>5, <3>1, <3>2 DEF IInv, DownloadInv, LoadedIsComplete
    <3>8. (FreshInv /\ ResetSticks)'
      BY <1>5, <3>4 DEF FreshInv, ResetSticks
    <3>9. LateInv'
      BY <3>1, <3>3, <3>5 DEF LateInv
    <3>10. SavedInTime'
      BY <3>1, <3>5, TimeAssumption DEF SavedInTime, SinceWrap, Ram, Off
    <3> QED
      BY <3>6, <3>7, <3>8, <3>9, <3>10 DEF IInv
  <2> QED
    BY <2>1, <2>2
<1> QED
  BY <1>3, <1>4, <1>5 DEF Loop

(* What is unsaved when time goes on is not yet due, or is held back by    *)
(* the last save, or by what looks like it since the wrap.                 *)
LEMMA TickSound ==
  ASSUME IInv, Tick
  PROVE  IInv'
<1> DEFINE t == Age(ram.saveTimeout, Quiet + 1)
           p == Age(ram.firstPendingChange, MinSaveInterval)
           l == IF ram.lastSave = Off THEN Off ELSE (ram.lastSave + 1) % Wrap
<1>0. TypeOK /\ LateInv /\ SavedInTime /\ ram \in Ram
  BY DEF IInv, TypeOK
<1>1. /\ ram.saveTimeout \in Off .. Quiet + 1 /\ ram.firstPendingChange \in Off .. MinSaveInterval
      /\ ram.lastSave \in Off .. Wrap - 1
  BY <1>0 DEF Ram
<1>2. /\ t \in Off .. Quiet + 1 /\ (t = Off) = (ram.saveTimeout = Off)
  BY <1>1, TimeAssumption DEF Age, Off
<1>3. p \in Off .. MinSaveInterval
  BY <1>1, TimeAssumption DEF Age, Off
<1>4. l \in Off .. Wrap - 1
  BY <1>1, TimeAssumption DEF Off
<1>5. ram' = [ram EXCEPT !.saveTimeout = t, !.firstPendingChange = p, !.lastSave = l]
  BY DEF Tick
<1>6. /\ ~SaveDue(ram)
      /\ late' = IF WouldLose(ram, flash, image) THEN late + 1 ELSE 0
      /\ uptime' = Age(uptime, Verify + 1) /\ basicRestart' = Age(basicRestart, RestartDelay)
      /\ reboot' = Age(reboot, RebootDelay + 1)
      /\ UNCHANGED <<flash, image, fallback, reset, step, updates, fresh>>
  BY DEF Tick, Idle
<1>7. p = IF ram.firstPendingChange = Off \/ ram.firstPendingChange >= MinSaveInterval
            THEN ram.firstPendingChange ELSE ram.firstPendingChange + 1
  BY DEF Age
<1> HIDE DEF t, p
<1>8. /\ ram' \in Ram /\ ram'.value = ram.value /\ ram'.state = ram.state
      /\ ram'.data = ram.data /\ ram'.saveTimeout = t /\ ram'.firstPendingChange = p
      /\ ram'.lastSave = l
  BY <1>0, <1>2, <1>3, <1>4, <1>5 DEF Ram
<1>9. WouldLose(ram', flash', image') <=> WouldLose(ram, flash, image)
  BY <1>6, <1>8 DEF WouldLose
<1>10. TypeOK'
  <2>1. uptime' \in 0 .. Verify + 1
    BY <1>0, <1>6, TimeAssumption DEF TypeOK, Age, Off
  <2>2. basicRestart' \in Off .. RestartDelay
    BY <1>0, <1>6, TimeAssumption DEF TypeOK, Age, Off
  <2>3. reboot' \in Off .. RebootDelay + 1
    BY <1>0, <1>6, TimeAssumption DEF TypeOK, Age, Off
  <2>4. late' \in Nat
    BY <1>0, <1>6 DEF TypeOK
  <2> QED
    BY <1>0, <1>6, <1>8, <2>1, <2>2, <2>3, <2>4 DEF TypeOK
<1>11. (DownloadInv /\ LoadedIsComplete)'
  BY <1>6, <1>8 DEF IInv, DownloadInv, LoadedIsComplete
<1>12. (FreshInv /\ ResetSticks)'
  BY <1>2, <1>6, <1>8 DEF IInv, FreshInv, ResetSticks
<1>13. ram.saveTimeout # Off =>
         ram.firstPendingChange = MinSaveInterval \/ late <= ram.firstPendingChange
  BY <1>0 DEF LateInv
<1>14. late \in Nat
  BY <1>0 DEF TypeOK
<1>15. LateInv'
  <2>1. WouldLose(ram', flash', image') => ram'.saveTimeout # Off
    BY <1>0, <1>2, <1>8, <1>9 DEF LateInv
  <2>2. late' # 0 => WouldLose(ram', flash', image')
    BY <1>6, <1>9
  <2>3. ram.saveTimeout # Off => p = MinSaveInterval \/ late + 1 <= p
    BY <1>1, <1>7, <1>13, <1>14, TimeAssumption DEF Off
  <2>4. ram'.saveTimeout # Off => p = MinSaveInterval \/ late' <= p
    <3>1. late' <= late + 1 /\ late' \in Nat
      BY <1>6, <1>14
    <3> QED
      BY <1>2, <1>3, <1>8, <1>14, <2>3, <3>1, TimeAssumption DEF Off
  <2> QED
    BY <1>8, <2>1, <2>2, <2>4 DEF LateInv
<1>16. SavedInTime'
  <2>1. \E n \in Nat : SinceWrap' = n
    BY <1>8, <1>4, TimeAssumption DEF SinceWrap, Off
  <2>2. CASE ~WouldLose(ram, flash, image)
    <3>1. late' = 0
      BY <1>6, <2>2
    <3> QED
      BY <2>1, <3>1, TimeAssumption DEF SavedInTime
  <2>3. CASE WouldLose(ram, flash, image) /\ ram.firstPendingChange < MinSaveInterval
    <3>1. late <= ram.firstPendingChange
      BY <1>0, <1>13, <2>3, <1>1, TimeAssumption DEF LateInv, Off
    <3>2. late' = late + 1
      BY <1>6, <2>3
    <3>3. ram.firstPendingChange \in Int /\ ram.firstPendingChange < MinSaveInterval
      BY <1>1, <2>3 DEF Off
    <3>4. late' <= MinSaveInterval
      BY <1>14, <3>1, <3>2, <3>3, TimeAssumption
    <3> QED
      BY <1>14, <2>1, <3>2, <3>4, TimeAssumption DEF SavedInTime
  <2>4. CASE WouldLose(ram, flash, image) /\ ram.firstPendingChange >= MinSaveInterval
    <3>1. ram.lastSave # Off /\ ram.lastSave < MinSaveInterval
      <4>1. ram.saveTimeout # Off
        BY <1>0, <2>4 DEF LateInv
      <4>2. ~(ram.lastSave = Off \/ ram.lastSave >= MinSaveInterval)
        BY <1>6, <2>4, <4>1 DEF SaveDue
      <4> QED
        BY <1>1, <4>2, TimeAssumption DEF Off
    <3>2. ram.lastSave \in 0 .. MinSaveInterval /\ l = ram.lastSave + 1 /\ l \in 0 .. MinSaveInterval
      <4>1. ram.lastSave \in Nat /\ ram.lastSave + 1 < Wrap
        BY <1>1, <3>1, TimeAssumption DEF Off
      <4>2. (ram.lastSave + 1) % Wrap = ram.lastSave + 1
        BY <4>1, TimeAssumption
      <4>3. l = ram.lastSave + 1
        BY <3>1, <4>2
      <4> QED
        BY <3>1, <4>1, <4>3, TimeAssumption
    <3>3. SinceWrap = ram.lastSave /\ SinceWrap' = l
      BY <1>8, <3>2 DEF SinceWrap
    <3>4. late <= MinSaveInterval + ram.lastSave
      BY <1>0, <3>3 DEF SavedInTime
    <3>5. late' = late + 1
      BY <1>6, <2>4
    <3> QED
      BY <1>14, <3>2, <3>3, <3>4, <3>5, TimeAssumption DEF SavedInTime
  <2> QED
    BY <1>1, <2>2, <2>3, <2>4, TimeAssumption DEF Off
<1> QED
  BY <1>10, <1>11, <1>12, <1>15, <1>16 DEF IInv

-----------------------------------------------------------------------------
(* The theorems.                                                           *)

(* The inductive invariant, for every schedule of requests and restarts.   *)
THEOREM Invariant == Spec => []IInv
<1>1. ASSUME IInv, [Next]_vars PROVE IInv'
  <2>1. CASE UNCHANGED vars
    BY <1>1, <2>1 DEF vars, IInv, TypeOK, DownloadInv, LoadedIsComplete, FreshInv, ResetSticks,
                      LateInv, SavedInTime, SinceWrap
  <2>2. CASE Next
    BY <1>1, <2>2, RestartSteps, RequestedSound, PropertyWriteSound, DownloadSound,
       OtherLoadControlSound, LoopSound, TickSound DEF Next
  <2> QED
    BY <1>1, <2>1, <2>2
<1> QED
  BY <1>1, InitSound, PTL DEF Spec

(* Type correctness, for any images and lengths of the timers.             *)
THEOREM TypeCorrect == Spec => []TypeOK
BY Invariant, PTL DEF IInv

(* The table is only ever loaded with a whole download behind it: memory   *)
(* image and load state reach the flash in one commit (writeMemory), and   *)
(* another version's table comes up unloaded (readMemory).                 *)
THEOREM LoadedComplete == Spec => []LoadedIsComplete
BY Invariant, PTL DEF IInv

(* A change waits for its save no longer than a minute, or a minute after  *)
(* the wrap of millis() (Memory::loop), however many changes follow.       *)
THEOREM ChangesSaved == Spec => []SavedInTime
BY Invariant, PTL DEF IInv

(* Nothing brings back what a reset erased (the reset branch of loop() in  *)
(* the gateway, readMemory).                                               *)
THEOREM ResetKept == Spec => []ResetSticks
BY Invariant, PTL DEF IInv

=============================================================================
