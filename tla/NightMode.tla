------------------------------ MODULE NightMode ------------------------------
(***************************************************************************)
(* Night mode: the lights of the selected mouse and its receiver are       *)
(* switched off for the night, remembered, and given back in the morning   *)
(* (src-tauri/src/lib.rs: apply_night_mode_transition,                     *)
(* update_night_mode_phase, spawn_night_mode_scheduler, the state file,    *)
(* store_snapshots, device_select and the device that device_mutate picks).*)
(*                                                                         *)
(* A record (SavedMouseLight, SavedReceiverLight) is the device it was     *)
(* made of, whose effect and colour it has.  It is matched by identity:    *)
(* the history group, else the plugin, else the family, which two devices  *)
(* may have in common; a record of an older version of the file has none   *)
(* and matches every device.  should_be_night (clock, theme, charge) is    *)
(* `dark`.                                                                 *)
(***************************************************************************)
EXTENDS Naturals, FiniteSets

CONSTANTS
    Device, NoDevice,
    Unnamed,    \* a record without identity, from an older version
    Identity,   \* snapshot_device_identity, Unnamed if there is none
    Supports,   \* the lights each device can be asked to change
    AtFirst,    \* the sets of devices that may be plugged in at the start
    Filed,      \* the records an older version may have left in the file
    MaxEvents,  \* bound on plugging, selecting, wishes, hands on lights, nightfalls
    MaxMishaps  \* bound on failing writes and files and on restarts

ASSUME DeviceAssumption ==
    NoDevice \notin Device /\ Unnamed \notin Device /\ Unnamed # NoDevice
Light == {"mouse", "receiver"}
ASSUME SupportsAssumption == Supports \in [Device -> SUBSET Light]
ASSUME AtFirstAssumption == AtFirst \subseteq SUBSET Device
ASSUME FiledAssumption == Filed \subseteq [Light -> {NoDevice, Unnamed}]
ASSUME BoundsAssumption == {MaxEvents, MaxMishaps} \subseteq Nat

VARIABLES
    lit,        \* the lights that are on
    plugged,
    known,      \* last_snapshot: what an entry was made of
    shown,      \* the lights that a complete entry shows as on
    ready,      \* snapshot_readiness: the devices that have had their Full
    reading, drawn, drawnLit,   \* the reader's pass: the entries it will publish
    selected,   \* selected_device_path
    dark,       \* what should_be_night would answer
    targets,    \* night_mode_target_mouse, night_mode_target_receiver
    phase, saved, force,    \* NightModeRuntime
    disk,       \* night_mode_state.json
    pc,         \* the scheduler's thread, and the variables of its transition
    goal, wanted, before, work, dev, seen, failed,
    late,       \* history: devices whose drawn entry is older than a write
    stale,      \* history: devices whose published entry is
    ledger, void,     \* history, see NightPromise
    events, mishaps

physical == <<lit, plugged>>
entries == <<known, shown, ready>>
pass == <<reading, drawn, drawnLit, late>>
session == <<entries, stale, pass, selected>>
settings == <<dark, targets>>
runtime == <<phase, saved, force>>
transition == <<goal, wanted, before, work, dev, seen, failed>>
history == <<ledger, void>>
bounds == <<events, mishaps>>
vars == <<physical, session, settings, runtime, disk, pc, transition, history, bounds>>

Record == [Light -> Device \cup {NoDevice, Unnamed}]
Nothing == [l \in Light |-> NoDevice]
Contents == {"absent", "partial", "full"}
Undrawn == [d \in Device |-> "absent"]
Unlit == [d \in Device |-> {}]
Phases == {"Day", "Night"}

TypeOK ==
    /\ lit \in [Device -> SUBSET Light] /\ plugged \in SUBSET Device
    /\ known \in [Device -> Contents] /\ shown \in [Device -> SUBSET Light]
    /\ ready \in SUBSET Device /\ stale \in SUBSET Device
    /\ reading \in BOOLEAN /\ drawn \in [Device -> Contents]
    /\ drawnLit \in [Device -> SUBSET Light] /\ late \in SUBSET Device
    /\ selected \in Device \cup {NoDevice}
    /\ dark \in BOOLEAN /\ targets \in SUBSET Light
    /\ phase \in Phases /\ saved \in Record /\ force \in BOOLEAN
    /\ disk \in Record
    /\ pc \in {"idle", "snapshot", "mouse", "receiver", "commit", "save"}
    /\ goal \in Phases /\ wanted \in SUBSET Light /\ before \in Record /\ work \in Record
    /\ dev \in Device \cup {NoDevice} /\ seen \in SUBSET Light /\ failed \in BOOLEAN
    /\ (pc \in {"mouse", "receiver"} => dev \in Device) /\ (pc = "idle" => dev = NoDevice)
    /\ ledger \in [Device -> [Light -> {"free", "owed", "back", "given"}]] /\ void \in BOOLEAN
    /\ events \in 0..MaxEvents /\ mishaps \in 0..MaxMishaps

Init ==
    /\ lit = Supports /\ plugged \in AtFirst
    /\ known = Undrawn /\ shown = Unlit /\ ready = {} /\ stale = {}
    /\ reading = FALSE /\ drawn = Undrawn /\ drawnLit = Unlit /\ late = {}
    /\ selected = NoDevice
    /\ dark \in BOOLEAN /\ targets = Light
    /\ disk \in Filed /\ saved = disk
    /\ phase = (IF disk = Nothing THEN "Day" ELSE "Night") /\ force = FALSE
    /\ pc = "idle" /\ goal = "Day" /\ wanted = {} /\ before = Nothing /\ work = Nothing
    /\ dev = NoDevice /\ seen = {} /\ failed = FALSE
    /\ ledger = [d \in Device |-> [l \in Light |-> "free"]] /\ void = FALSE
    /\ events = 0 /\ mishaps = 0

-----------------------------------------------------------------------------
(* The devices, the reader and the user. *)

Happens == events < MaxEvents /\ events' = events + 1 /\ UNCHANGED mishaps
Mishap == mishaps < MaxMishaps /\ mishaps' = mishaps + 1

Known == {d \in Device : known[d] # "absent"}

(* selected_snapshot_entry: the selection, or the preferred entry. *)
Current ==
    IF selected \in Known THEN selected
    ELSE IF Known = {} THEN NoDevice ELSE CHOOSE d \in Known : TRUE

PlugOrUnplug(d) ==
    /\ Happens
    /\ plugged' = IF d \in plugged THEN plugged \ {d} ELSE plugged \cup {d}
    /\ UNCHANGED <<lit, session, settings, runtime, disk, pc, transition, history>>

(* A pass of the reader under device_io: Full completes some entries and raises
   their readiness at once; it or Quick renews what entries show, the others
   are kept as they are.  A new device that is only enumerated or read by Quick
   gets an entry without anything writable. *)
ReadDevices(complete, renewed) ==
    /\ ~reading /\ reading' = TRUE
    /\ drawn' = [d \in Device |-> IF d \notin plugged THEN "absent"
                                  ELSE IF d \in complete \/ known[d] = "full" THEN "full"
                                  ELSE "partial"]
    /\ drawnLit' = [d \in Device |-> IF drawn'[d] # "full" THEN {}
                                     ELSE IF d \in renewed THEN lit[d] ELSE shown[d]]
    /\ late' = {d \in stale \ renewed : drawn'[d] = "full"}
    /\ ready' = ready \cup complete
    /\ UNCHANGED <<physical, known, shown, stale, selected, settings, runtime, disk, pc,
                   transition, history, bounds>>

(* store_snapshots, after device_io has been released.  An empty map stands for
   clear_snapshots, which also forgets the selection. *)
Publish ==
    /\ reading /\ reading' = FALSE
    /\ known' = drawn /\ shown' = drawnLit /\ stale' = {d \in late : drawn[d] = "full"}
    /\ ready' = {d \in ready : drawn[d] # "absent"}
    /\ selected' = IF selected \in {d \in Device : drawn[d] # "absent"}
                   THEN selected ELSE NoDevice
    /\ force' = (force \/ \E d \in Device : drawn[d] # "absent" /\ known[d] = "absent")
    /\ drawn' = Undrawn /\ drawnLit' = Unlit /\ late' = {}
    /\ UNCHANGED <<physical, settings, phase, saved, disk, pc, transition, history, bounds>>

(* device_select *)
Select(d) ==
    /\ Happens /\ d \in Known
    /\ selected' = d
    /\ UNCHANGED <<physical, entries, stale, pass, settings, runtime, disk, pc, transition,
                   history>>

(* settings_set, sunset, the charger, the theme. *)
ChangeSettings ==
    /\ Happens
    /\ \/ dark' = ~dark /\ UNCHANGED targets
       \/ targets' \in SUBSET Light \ {{}} /\ UNCHANGED dark
    /\ UNCHANGED <<physical, session, runtime, disk, pc, transition, history>>

(* A hand on the device, or another program. *)
Touch(d, l) ==
    /\ Happens
    /\ IF l \in lit[d]
       THEN lit' = [lit EXCEPT ![d] = @ \ {l}]
       ELSE lit' = [lit EXCEPT ![d] = @ \cup {l}]
    /\ ledger' = [ledger EXCEPT ![d][l] = IF @ = "free" THEN @ ELSE "back"]
    /\ UNCHANGED <<plugged, session, settings, runtime, disk, pc, transition, void>>

-----------------------------------------------------------------------------
(* apply_night_mode_transition, called at least once a minute. *)

Target == IF dark THEN "Night" ELSE "Day"

(* Mutant of Due: a device that is plugged in waits for the next nightfall. *)
DueByPhase == phase # Target

Due == phase # Target \/ force

(* The runtime is copied under its mutex.  A night that is forced by a new
   device starts from nothing; a day with nothing saved needs no device. *)
Look ==
    /\ pc = "idle" /\ Due
    /\ goal' = Target /\ wanted' = targets /\ failed' = FALSE
    /\ IF force /\ dark THEN work' = Nothing /\ before' = saved
                        ELSE work' = saved /\ before' = Nothing
    /\ pc' = IF ~dark /\ saved = Nothing THEN "commit" ELSE "snapshot"
    /\ UNCHANGED <<physical, session, settings, runtime, disk, dev, seen, history, bounds>>

(* The locals of apply_night_mode_transition end with it. *)
Forget ==
    goal' = "Day" /\ before' = Nothing /\ work' = Nothing /\ seen' = {} /\ failed' = FALSE
Return == Forget /\ pc' = "idle" /\ wanted' = {} /\ dev' = NoDevice

(* selected_full_snapshot *)
Ready == Current # NoDevice /\ Current \in ready

(* Nothing is decided before the selected device's snapshot is complete. *)
NoSnapshot ==
    /\ pc = "snapshot" /\ ~Ready
    /\ Return
    /\ UNCHANGED <<physical, session, settings, runtime, disk, history, bounds>>

(* Mutant of TakeSnapshot: the device is not kept with its snapshot. *)
TakeSnapshotAnonymous ==
    /\ pc = "snapshot" /\ Ready
    /\ seen' = shown[Current] /\ pc' = "mouse"
    /\ UNCHANGED <<physical, session, settings, runtime, disk, goal, wanted, before, work, dev,
                   failed, history, bounds>>

(* An entry that is not complete offers nothing to write.  The promise is void
   if the transition goes by an entry that is older than what it says: than its
   readiness, or than a write. *)
TakeSnapshot ==
    /\ pc = "snapshot" /\ Ready
    /\ dev' = Current /\ seen' = shown[Current]
    /\ void' = (void \/ known[Current] # "full" \/ Current \in stale)
    /\ IF known[Current] # "full" \/ (goal = "Night" /\ wanted \cap Supports[Current] = {})
       THEN pc' = "commit" /\ work' = Nothing
       ELSE pc' = "mouse" /\ UNCHANGED work
    /\ UNCHANGED <<physical, session, settings, runtime, disk, goal, wanted, before, failed,
                   ledger, bounds>>

Step == pc' = IF pc = "mouse" THEN "receiver" ELSE "commit"

(* device_mutate_blocking picks the device again: the current entry if it is
   plugged in, else any device. *)
Written == IF Current \in plugged THEN {Current} ELSE plugged

(* The write succeeds: the entry shows it (store_snapshot puts the entry back
   if it has gone). *)
WriteOk(l, on) ==
    \E d \in Written :
        /\ l \in Supports[d]
        /\ lit' = [lit EXCEPT ![d] = IF on THEN @ \cup {l} ELSE @ \ {l}]
        /\ shown' = [shown EXCEPT ![d] = IF on /\ known[d] = "full" THEN @ \cup {l} ELSE @ \ {l}]
        /\ known' = [known EXCEPT ![d] = IF @ = "absent" THEN "partial" ELSE @]
        /\ late' = IF reading THEN late \cup {d} ELSE late
        /\ ledger' = [ledger EXCEPT ![d][l] = IF on THEN "given" ELSE "owed"]
        /\ void' = (void \/ d # dev \/ (on /\ work[l] # dev))
        /\ UNCHANGED <<failed, mishaps>>

(* No device, another device that does not take the mutation, or an error;
   the error may come after the device has done what it was told. *)
WriteFails(l, on) ==
    /\ \/ /\ Written = {} \/ (\E d \in Written : l \notin Supports[d] \/ d # dev)
          /\ UNCHANGED <<lit, ledger, void, mishaps>>
       \/ Mishap /\ UNCHANGED <<lit, ledger, void>>
       \/ \E d \in Written :
             /\ Mishap /\ l \in Supports[d]
             /\ lit' = [lit EXCEPT ![d] = IF on THEN @ \cup {l} ELSE @ \ {l}]
             /\ ledger' = [ledger EXCEPT ![d][l] = IF on THEN "back" ELSE @]
             /\ void' = (void \/ d # dev \/ (on /\ work[l] # dev))
    /\ failed' = TRUE /\ UNCHANGED <<shown, known, late>>

OffCandidate(l) == goal = "Night" /\ l \in wanted \cap Supports[dev] /\ work[l] = NoDevice

SwitchOff(l) ==
    /\ pc = l /\ OffCandidate(l) /\ l \in seen
    /\ \/ WriteOk(l, FALSE) /\ work' = [work EXCEPT ![l] = dev]
       \/ WriteFails(l, FALSE) /\ UNCHANGED work
    /\ Step
    /\ UNCHANGED <<plugged, ready, stale, reading, drawn, drawnLit, selected, settings, runtime,
                   disk, goal, wanted, before, dev, seen, events>>

(* Mutant of KeepRecord: the fallback to the old record is missing. *)
KeepNothing(l) ==
    /\ pc = l /\ OffCandidate(l) /\ l \notin seen
    /\ Step
    /\ UNCHANGED <<physical, session, settings, runtime, disk, transition, history, bounds>>

(* saved_identity_matches *)
Matches(record, d) ==
    record # NoDevice /\ (record = Unnamed \/ Identity[record] \in {Unnamed, Identity[d]})

(* The light is dark already: after a forced start the record it had is kept
   if it matches this device. *)
KeepRecord(l) ==
    /\ pc = l /\ OffCandidate(l) /\ l \notin seen
    /\ work' = IF Matches(before[l], dev) THEN [work EXCEPT ![l] = before[l]] ELSE work
    /\ Step
    /\ UNCHANGED <<physical, session, settings, runtime, disk, goal, wanted, before, dev, seen,
                   failed, history, bounds>>

(* plan_light_restore *)
Decision(l) ==
    IF work[l] = NoDevice THEN "NoSaved"
    ELSE IF l \in Supports[dev] /\ Matches(work[l], dev) THEN "Restore" ELSE "DropSaved"

Restore(l) ==
    /\ pc = l /\ goal = "Day" /\ Decision(l) = "Restore"
    /\ \/ WriteOk(l, TRUE) /\ work' = [work EXCEPT ![l] = NoDevice]
       \/ WriteFails(l, TRUE) /\ UNCHANGED work
    /\ Step
    /\ UNCHANGED <<plugged, ready, stale, reading, drawn, drawnLit, selected, settings, runtime,
                   disk, goal, wanted, before, dev, seen, events>>

PassOver(l) ==
    /\ pc = l
    /\ IF goal = "Night" THEN ~OffCandidate(l) /\ UNCHANGED work
       ELSE /\ Decision(l) # "Restore"
            /\ work' = [work EXCEPT ![l] = NoDevice]
    /\ Step
    /\ UNCHANGED <<physical, session, settings, runtime, disk, goal, wanted, before, dev, seen,
                   failed, history, bounds>>

(* update_night_mode_phase: a night that failed in part is retried from Day, a
   day that failed in part from Night. *)
Commit ==
    /\ pc = "commit"
    /\ phase' = IF failed THEN (IF goal = "Night" THEN "Day" ELSE "Night") ELSE goal
    /\ saved' = IF goal = "Day" /\ ~failed THEN Nothing ELSE work
    /\ force' = FALSE /\ pc' = "save"
    /\ Forget /\ UNCHANGED <<dev, wanted>>
    /\ UNCHANGED <<physical, session, settings, disk, history, bounds>>

(* save_night_mode_state replaces the file by a rename, or fails and is only
   logged; a record that is neither in memory nor in the file is gone. *)
Save ==
    /\ pc = "save"
    /\ \/ disk' = saved /\ UNCHANGED <<void, mishaps>>
       \/ Mishap /\ void' = TRUE /\ UNCHANGED disk
    /\ ledger' = [d \in Device |-> [l \in Light |->
                    IF d \in {saved[l], disk'[l]} THEN ledger[d][l] ELSE "free"]]
    /\ Return
    /\ UNCHANGED <<physical, session, settings, runtime, events>>

(* The program stops and is started again: the phase comes from the file. *)
Restart ==
    /\ Mishap /\ UNCHANGED events
    /\ known' = Undrawn /\ shown' = Unlit /\ ready' = {} /\ stale' = {}
    /\ reading' = FALSE /\ drawn' = Undrawn /\ drawnLit' = Unlit /\ late' = {}
    /\ selected' = NoDevice
    /\ saved' = disk /\ phase' = (IF disk = Nothing THEN "Day" ELSE "Night") /\ force' = FALSE
    /\ Return
    /\ ledger' = [d \in Device |-> [l \in Light |->
                    IF disk[l] # d THEN "free"
                    ELSE IF ledger[d][l] = "given" THEN "back" ELSE ledger[d][l]]]
    /\ UNCHANGED <<physical, settings, disk, void>>

Scheduler ==
    \/ Look \/ NoSnapshot \/ TakeSnapshot \/ Commit \/ Save
    \/ \E l \in Light : SwitchOff(l) \/ KeepRecord(l) \/ Restore(l) \/ PassOver(l)

Next ==
    \/ Scheduler \/ ChangeSettings \/ Restart
    \/ Publish \/ \E renewed \in SUBSET plugged :
                     \E complete \in SUBSET renewed : ReadDevices(complete, renewed)
    \/ \E d \in Device : PlugOrUnplug(d) \/ Select(d)
    \/ \E d \in Device, l \in Light : Touch(d, l)

Spec == Init /\ [][Next]_vars

(* The scheduler is a thread that wakes up every minute; every step of it moves
   its program counter. *)
FairSpec == Spec /\ WF_pc(Scheduler)

-----------------------------------------------------------------------------
(* Properties. *)

(* The transitions, the failures, the restarts and the devices that come and
   go implement NightPromise: a light comes on only if night mode switched it
   off, a light that was given back is not written again, and the device that
   is dealt with loses no record. *)
Unfiled == {l \in Light : dev # NoDevice /\ disk[l] # dev /\ ledger[dev][l] = "owed"}
Promise == INSTANCE NightPromise WITH busy <- dev, unfiled <- Unfiled
KeepsPromise == Promise!Spec

(* A device that stays selected and complete through the day gets its lights
   back, except in the state that NoStrandedLight is about and when a record
   that was dropped could not be erased from the file. *)
Stranded == phase = "Day" /\ ~force /\ (saved # Nothing \/ disk # saved)
DayGivesBack ==
    \A d \in Device :
        <>[](~dark /\ d \in plugged /\ Current = d /\ d \in ready)
            => []<>(Stranded \/ \A l \in Light : ledger[d][l] # "owed")

(* The comment of apply_night_mode_transition promises that the lights are
   given back when the night ends.  The scheduler has nothing more to do by
   day, so nothing should be saved then. *)
NoStrandedLight == pc = "idle" /\ ~Due /\ ~dark => saved = Nothing
=============================================================================
