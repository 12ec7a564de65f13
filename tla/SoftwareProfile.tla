--------------------------- MODULE SoftwareProfile ---------------------------
(***************************************************************************)
(* Software profiles over the snapshot store and the selection             *)
(* (src-tauri/src/lib.rs: remember_software_profile,                       *)
(* reapply_software_profile, cached_software_profiles and its file,        *)
(* store_snapshot, store_snapshots, clear_snapshots, device_select and the *)
(* device that device_mutate_blocking_impl picks).                         *)
(*                                                                         *)
(* A mouse that is controlled by software forgets its settings when it     *)
(* loses power.  A command that changes one is recorded in the profile     *)
(* after the locks are released; a Full read that meets the mouse in its   *)
(* onboard mode writes the profile back.                                   *)
(*                                                                         *)
(* A change is named by the command that made it; of a snapshot there is   *)
(* the control mode of its raw outputs, which only a Full read and a       *)
(* command's own answer renew.                                             *)
(***************************************************************************)
EXTENDS Naturals, FiniteSets

CONSTANTS
    Device, NoDevice,
    NoProfile,    \* in place of a profile
    Switchable,   \* the devices that report a control mode and can change it
    Command,      \* the threads of device_mutate
    MaxEvents     \* bound on commands, plugging, power cycles, selections, restarts
                  \* and failures

ASSUME DeviceAssumption == NoDevice \notin Device /\ Switchable \subseteq Device
ASSUME ProfileAssumption == \A changes \in SUBSET Command : changes # NoProfile
ASSUME EventsAssumption == MaxEvents \in Nat

VARIABLES
    plugged,
    mode, holds,         \* of a device: its control mode, the changes in force under software
    known,               \* last_snapshot: absent, bare (no raw outputs), or the control mode
    selected, asked,     \* selected_device_path; the device that device_select has found
    cache, file,         \* cached_software_profiles, device-profiles.json
    applied,             \* applied_software_profiles
    pc, wish, target, base, copy,   \* the commands
    rpc, plan, todo, draft,         \* the reader
    chosen,              \* history: what the commands that recorded their change left chosen
    half,                \* history: devices whose profile was written back in part
    excuse,              \* history: what no property promises anything after
    events

devices == <<plugged, mode, holds>>
session == <<known, selected, asked>>
profiles == <<cache, file, applied>>
commands == <<pc, wish, target, base, copy>>
reader == <<rpc, plan, todo, draft>>
history == <<chosen, half, excuse>>
vars == <<devices, session, profiles, commands, reader, history, events>>

Wishes == {"software", "onboard", "set"}
Modes == {"software", "onboard", "fixed"}
Profile == {NoProfile} \cup SUBSET Command
SwitchableOnly(store) == \A d \in Device \ Switchable : store[d] = NoProfile
Snapshots == Modes \cup {"absent", "bare"}

TypeOK ==
    /\ plugged \subseteq Device /\ mode \in [Device -> Modes]
    /\ holds \in [Device -> SUBSET Command]
    /\ known \in [Device -> Snapshots] /\ {selected, asked} \subseteq Device \cup {NoDevice}
    /\ {cache, file, chosen} \subseteq [Device -> Profile] /\ applied \subseteq Switchable
    /\ SwitchableOnly(cache) /\ SwitchableOnly(file)
    /\ pc \in [Command -> {"idle", "load", "save", "store", "done"}]
    /\ wish \in [Command -> Wishes] /\ target \in [Command -> Device \cup {NoDevice}]
    /\ base \in [Command -> Modes] /\ copy \in [Command -> [Device -> Profile]]
    /\ rpc \in {"idle", "visit", "publish", "clear"} /\ plan \in {"light", "Full"}
    /\ todo \subseteq Device /\ draft \in [Device -> Snapshots]
    /\ half \subseteq Switchable
    /\ excuse \subseteq {"crossed", "misled", "early", "overruled"}
    /\ events \in 0..MaxEvents

NoSnapshots == [d \in Device |-> "absent"]
NoCopy == [d \in Device |-> NoProfile]

(* A thread that has answered, with a snapshot or an error, forgets its
   variables; so does one that is stopped. *)
Ends(C) ==
    /\ pc' = [c \in Command |-> IF c \in C THEN "done" ELSE pc[c]]
    /\ wish' = [c \in Command |-> IF c \in C THEN "set" ELSE wish[c]]
    /\ target' = [c \in Command |-> IF c \in C THEN NoDevice ELSE target[c]]
    /\ base' = [c \in Command |-> IF c \in C THEN "fixed" ELSE base[c]]
    /\ copy' = [c \in Command |-> IF c \in C THEN NoCopy ELSE copy[c]]

Init ==
    /\ plugged = Device
    /\ mode = [d \in Device |-> IF d \in Switchable THEN "onboard" ELSE "fixed"]
    /\ holds = [d \in Device |-> {}]
    /\ known = NoSnapshots /\ selected = NoDevice /\ asked = NoDevice
    /\ file \in [Device -> {NoProfile, {}}] /\ SwitchableOnly(file) /\ cache = file /\ applied = {}
    /\ pc = [c \in Command |-> "idle"] /\ wish = [c \in Command |-> "set"]
    /\ target = [c \in Command |-> NoDevice] /\ base = [c \in Command |-> "fixed"]
    /\ copy = [c \in Command |-> NoCopy]
    /\ rpc = "idle" /\ plan = "light" /\ todo = {} /\ draft = NoSnapshots
    /\ chosen = file /\ half = {} /\ excuse = {}
    /\ events = 0

Happens == events < MaxEvents /\ events' = events + 1

-----------------------------------------------------------------------------
(* The devices. *)

(* A cable or a receiver is pulled, plugged in again, the mouse may have lost
   its power meanwhile or loses it in place. *)
LosesPower(d) ==
    /\ d \in Switchable
    /\ mode' = [mode EXCEPT ![d] = "onboard"] /\ holds' = [holds EXCEPT ![d] = {}]

Plug(d) ==
    /\ Happens
    /\ \/ plugged' = plugged \ {d} /\ plugged' # plugged /\ UNCHANGED <<mode, holds>>
       \/ plugged' = plugged \cup {d} /\ plugged' # plugged /\ UNCHANGED <<mode, holds>>
       \/ plugged' = plugged \cup {d} /\ mode[d] = "software" /\ LosesPower(d)
    /\ UNCHANGED <<session, profiles, commands, reader, history>>

-----------------------------------------------------------------------------
(* The snapshot store and the selection. *)

Known == {d \in Device : known[d] # "absent"}

(* selected_snapshot_entry *)
Current ==
    IF selected \in Known THEN selected
    ELSE IF Known = {} THEN NoDevice ELSE CHOOSE d \in Known : TRUE

(* device_select finds the snapshot under one lock ... *)
Find(d) ==
    /\ Happens /\ asked = NoDevice /\ d \in Known
    /\ asked' = d
    /\ UNCHANGED <<devices, known, selected, profiles, commands, reader, history>>

(* ... and stores the selection under another. *)
Select ==
    /\ asked # NoDevice
    /\ selected' = asked /\ asked' = NoDevice
    /\ UNCHANGED <<devices, known, profiles, commands, reader, history, events>>

-----------------------------------------------------------------------------
(* A command (device_mutate_blocking_impl). *)

(* Under device_io: the device is picked now, the current entry if it is
   plugged in, else any.  What the command has waited for before does not
   matter to it. *)
Turn(c) == Happens /\ pc[c] = "idle" /\ rpc # "visit"
Targets == IF Current \in plugged THEN {Current} ELSE plugged

(* The control mode that the command sees: of the cached raw outputs, or of a
   Full read if there are none, with what the mutation's answer says. *)
SeenMode(w, d) ==
    IF w # "set" THEN w
    ELSE IF known[d] \in {"absent", "bare"} THEN mode[d] ELSE known[d]

Recording == {c \in Command : pc[c] \in {"load", "save"}}

(* What the code neither orders nor checks: a command that writes before
   another has recorded its change (crossed); a value that is written while the
   mode that is seen is not the chosen one (misled); a mouse that is written
   after it has lost its power, before a Full pass has met it (early). *)
Excuses(w, d) ==
    LET chosenMode == IF chosen[d] = NoProfile THEN "onboard" ELSE "software" IN
    IF d \notin Switchable THEN {}
    ELSE (IF Recording # {} THEN {"crossed"} ELSE {}) \cup
         (IF w = "set" /\ SeenMode(w, d) # chosenMode THEN {"misled"} ELSE {}) \cup
         (IF w # "onboard" /\ chosenMode = "software" /\ mode[d] = "onboard"
          THEN {"early"} ELSE {})

(* What the device does with the mutation. *)
Effect(c, w, d) ==
    /\ mode' = [mode EXCEPT ![d] = IF w = "set" THEN @ ELSE w]
    /\ holds' = [holds EXCEPT ![d] =
                   IF w = "onboard" THEN {}
                   ELSE IF w = "set" /\ mode[d] = "software" THEN @ \cup {c} ELSE @]
    /\ excuse' = excuse \cup Excuses(w, d)

(* Mutant of HasMode: every device is taken to have one. *)
HasAnyMode(m) == m \in Modes

(* A device without a control mode has no profile: control_mode is None. *)
HasMode(m) == m # "fixed"

Allowed(w, d) == w = "set" \/ d \in Switchable

WriteOk(c, w) ==
    /\ Turn(c)
    /\ \E d \in Targets :
          /\ Allowed(w, d)
          /\ Effect(c, w, d)
          /\ target' = [target EXCEPT ![c] = d]
          /\ base' = [base EXCEPT ![c] = SeenMode(w, d)]
          /\ pc' = [pc EXCEPT ![c] = IF HasMode(SeenMode(w, d)) THEN "load" ELSE "store"]
    /\ wish' = [wish EXCEPT ![c] = w]
    /\ UNCHANGED <<plugged, session, profiles, copy, reader, chosen, half>>

(* No device, a mutation that is not allowed, or an error, perhaps after the
   device has done what it was told. *)
WriteFails(c, w) ==
    /\ Turn(c)
    /\ \/ UNCHANGED <<mode, holds, excuse>>
       \/ \E d \in Targets : Allowed(w, d) /\ Effect(c, w, d)
    /\ Ends({c})
    /\ UNCHANGED <<plugged, session, profiles, reader, chosen, half>>

(* remember_software_profile, when device_io and the write flag are released:
   the profiles are copied and changed; onboard mode ends a profile. *)
Load(c) ==
    /\ pc[c] = "load"
    /\ LET d == target[c]
           entry == IF cache[d] = NoProfile THEN {} ELSE cache[d]
       IN  /\ copy' = [copy EXCEPT ![c] = [cache EXCEPT ![d] =
                         IF base[c] = "onboard" THEN NoProfile
                         ELSE IF wish[c] = "set" THEN entry \cup {c} ELSE entry]]
           /\ applied' = IF base[c] = "onboard" THEN applied \ {d} ELSE applied
    /\ pc' = [pc EXCEPT ![c] = "save"]
    /\ UNCHANGED <<devices, session, cache, file, wish, target, base, reader, history, events>>

(* What the user has chosen with it. *)
Choice(c, d) ==
    IF wish[c] = "onboard" THEN NoProfile
    ELSE IF wish[c] = "set"
    THEN IF chosen[d] = NoProfile THEN NoProfile ELSE chosen[d] \cup {c}
    ELSE IF chosen[d] = NoProfile THEN {} ELSE chosen[d]

(* Mutant of SaveFails: the cache is renewed before the file. *)
SaveFailsCached(c) ==
    /\ pc[c] = "save" /\ Happens
    /\ cache' = copy[c] /\ Ends({c})
    /\ UNCHANGED <<devices, session, file, applied, reader, history>>

(* The command answers with an error although the device has been written. *)
SaveFails(c) ==
    /\ pc[c] = "save" /\ Happens
    /\ Ends({c})
    /\ UNCHANGED <<devices, session, profiles, reader, history>>

Save(c) ==
    /\ pc[c] = "save"
    /\ file' = copy[c] /\ cache' = copy[c]
    /\ applied' = IF base[c] = "software" THEN applied \cup {target[c]} ELSE applied
    /\ chosen' = [chosen EXCEPT ![target[c]] = Choice(c, target[c])]
    /\ pc' = [pc EXCEPT ![c] = "store"] /\ copy' = [copy EXCEPT ![c] = NoCopy]
    /\ UNCHANGED <<devices, session, wish, target, base, reader, half, excuse, events>>

(* store_snapshot, whatever the reader has published since. *)
StoreSnapshot(c) ==
    /\ pc[c] = "store"
    /\ known' = [known EXCEPT ![target[c]] = base[c]]
    /\ Ends({c})
    /\ UNCHANGED <<devices, selected, asked, profiles, reader, history, events>>

(* What is left to do for a command once the device has been written. *)
Thread(c) == Load(c) \/ SaveFails(c) \/ Save(c) \/ StoreSnapshot(c)

-----------------------------------------------------------------------------
(* The reader holds device_io while it visits. *)

StartPass ==
    /\ rpc = "idle"
    /\ plan' \in {"light", "Full"} /\ todo' = plugged /\ draft' = NoSnapshots
    /\ rpc' = IF plugged = {} THEN "clear" ELSE "visit"
    /\ UNCHANGED <<devices, session, profiles, commands, history, events>>

Entry(d, snapshot) ==
    /\ rpc = "visit" /\ d \in todo
    /\ todo' = todo \ {d} /\ draft' = [draft EXCEPT ![d] = snapshot]
    /\ rpc' = IF todo = {d} THEN "publish" ELSE "visit"
    /\ UNCHANGED plan

(* Presence, Quick and BatteryOnly do not read the control mode. *)
VisitLightly(d) ==
    /\ plan = "light"
    /\ Entry(d, IF known[d] = "absent" THEN "bare" ELSE known[d])
    /\ UNCHANGED <<devices, session, profiles, commands, history, events>>

VisitFails(d) ==
    /\ plan = "Full"
    /\ \/ d \notin plugged /\ UNCHANGED events
       \/ Happens
    /\ Entry(d, known[d])
    /\ UNCHANGED <<devices, session, profiles, commands, history>>

(* Mutant of InForce: a profile is written back once. *)
InForceOnce(d) == d \in applied

InForce(d) == d \in applied /\ mode[d] = "software"

Reapplies(d) == d \in Switchable /\ cache[d] # NoProfile /\ ~InForce(d)

VisitReads(d) ==
    /\ plan = "Full" /\ d \in plugged /\ ~Reapplies(d)
    /\ Entry(d, mode[d])
    /\ UNCHANGED <<devices, session, profiles, commands, history, events>>

(* reapply_software_profile: the mode, then every saved change; where a newer
   one is not saved yet its field may get the older value back.  The path is
   marked as applied whatever comes of it. *)
VisitReapplies(d) ==
    /\ plan = "Full" /\ d \in plugged /\ Reapplies(d)
    /\ applied' = applied \cup {d}
    /\ excuse' = IF \E c \in Recording : target[c] = d THEN excuse \cup {"overruled"} ELSE excuse
    /\ \/ /\ mode' = [mode EXCEPT ![d] = "software"]
          /\ \E newer \in SUBSET (holds[d] \ cache[d]) :
                holds' = [holds EXCEPT ![d] = cache[d] \cup newer]
          /\ half' = half \ {d}
          /\ \/ Entry(d, "software") /\ UNCHANGED events
             \/ Entry(d, mode[d]) /\ Happens      \* the reading after it fails
       \/ /\ Happens /\ mode[d] = "onboard"       \* the mode is refused
          /\ Entry(d, mode[d]) /\ UNCHANGED <<mode, holds, half>>
       \/ /\ Happens                              \* a change is refused
          /\ mode' = [mode EXCEPT ![d] = "software"]
          /\ \E some \in SUBSET (holds[d] \cup cache[d]) : holds' = [holds EXCEPT ![d] = some]
          /\ half' = half \cup {d}
          /\ Entry(d, mode[d])
    /\ UNCHANGED <<plugged, session, cache, file, commands, chosen>>

Visit(d) == VisitLightly(d) \/ VisitFails(d) \/ VisitReads(d) \/ VisitReapplies(d)

EndPass ==
    /\ rpc' = "idle" /\ plan' = "light" /\ draft' = NoSnapshots
    /\ UNCHANGED <<devices, asked, cache, file, commands, todo, history, events>>

(* Nothing was plugged in: clear_snapshots and applied_software_profiles. *)
Clear ==
    /\ rpc = "clear"
    /\ known' = NoSnapshots /\ selected' = NoDevice /\ applied' = {}
    /\ EndPass

(* Mutant of Publish: the entries are added to the map. *)
PublishAdding ==
    /\ rpc = "publish"
    /\ known' = [d \in Device |-> IF draft[d] = "absent" THEN known[d] ELSE draft[d]]
    /\ UNCHANGED <<selected, applied>>
    /\ EndPass

(* store_snapshots, unless no device has an entry. *)
Publish ==
    /\ rpc = "publish"
    /\ IF draft = NoSnapshots THEN UNCHANGED <<known, selected>>
       ELSE /\ known' = draft
            /\ selected' = IF \E d \in Device : selected = d /\ draft[d] = "absent"
                           THEN NoDevice ELSE selected
    /\ UNCHANGED applied
    /\ EndPass

Reader == StartPass \/ (\E d \in Device : Visit(d)) \/ Clear \/ Publish

-----------------------------------------------------------------------------
(* The program stops and is started again: the file is what is left. *)
Restart ==
    /\ Happens
    /\ known' = NoSnapshots /\ selected' = NoDevice /\ asked' = NoDevice
    /\ cache' = file /\ applied' = {}
    /\ Ends({c \in Command : pc[c] # "idle"})
    /\ rpc' = "idle" /\ plan' = "light" /\ todo' = {} /\ draft' = NoSnapshots
    /\ UNCHANGED <<devices, file, history>>

Next ==
    \/ Reader \/ Select \/ Restart
    \/ \E c \in Command : Thread(c) \/ \E w \in Wishes : WriteOk(c, w) \/ WriteFails(c, w)
    \/ \E d \in Device : Plug(d) \/ Find(d)

Spec == Init /\ [][Next]_vars

(* The threads run.  Which plan a pass has is not said here. *)
FairSpec ==
    /\ Spec /\ WF_vars(Reader) /\ WF_vars(Select)
    /\ \A c \in Command : WF_vars(Thread(c))

-----------------------------------------------------------------------------
(* Properties. *)

(* "The cache is invalidated by save_software_profiles so subsequent reads
   after a write always reflect the latest state": whatever fails, stops or is
   unplugged, profile and file are what the commands that recorded their
   change have chosen.  Two commands that cross each other and a value that is
   written while the app takes the mouse for one in another mode are excused:
   the code orders and checks neither. *)
ProfileKept ==
    excuse \cap {"crossed", "misled"} = {} => cache = chosen /\ file = chosen

(* A mouse that stays plugged in and is read by Full passes again and again
   gets what was chosen for it back, whatever its power, the cables, failing
   reads and restarts have done, except after a write back that failed half
   way: reapply_software_profile marks it as applied. *)
ChoiceInForce(d) ==
    chosen[d] # NoProfile => mode[d] = "software" /\ chosen[d] \subseteq holds[d]

FullVisit(d) == VisitReads(d) \/ VisitReapplies(d)

ChoiceRestored ==
    \A d \in Switchable :
        <>[](d \in plugged) /\ []<><<FullVisit(d)>>_vars
            => []<>(excuse # {} \/ d \in half \/ ChoiceInForce(d))

(* A device that has gone has no entry and is not selected in the end, however
   late a command stores its snapshot or device_select its choice. *)
GoneIsForgotten ==
    \A d \in Device :
        <>[](d \notin plugged) => <>[](known[d] = "absent" /\ selected # d)
=============================================================================
