----------------------- MODULE SoftwareProfile_proofs -----------------------
(***************************************************************************)
(* Type correctness of SoftwareProfile and the profile that is kept: for   *)
(* every set of devices and of commands, every choice of the devices that  *)
(* can change their control mode, and every number of events.              *)
(***************************************************************************)
EXTENDS SoftwareProfile, TLAPS

(* A device without a control mode shows none, in no snapshot. *)
ModesFit ==
    \A d \in Device \ Switchable :
        mode[d] = "fixed" /\ {known[d], draft[d]} \subseteq {"absent", "bare", "fixed"}

(* A command that has a change to record has a switchable device and has seen
   its mode; the copy that it will save has profiles of such devices only. *)
CommandsFit ==
    \A c \in Command :
        /\ pc[c] \in {"load", "save"}
               => target[c] \in Switchable /\ base[c] \in {"software", "onboard"}
        /\ pc[c] = "store"
               => target[c] \in Device /\ (target[c] \notin Switchable => base[c] = "fixed")
        /\ pc[c] = "save" => SwitchableOnly(copy[c])

Typed == TypeOK /\ ModesFit /\ CommandsFit

(* As long as nothing happens that the property excuses, one command records at
   a time ... *)
Sound == excuse \cap {"crossed", "misled"} = {}
ChosenMode(d) == IF chosen[d] = NoProfile THEN "onboard" ELSE "software"

OneRecords == \A c, e \in Recording : c = e

(* ... the mode it goes by is the one the user chose, or chooses with it ... *)
ModeIsChosen ==
    \A c \in Recording : base[c] = IF wish[c] = "set" THEN ChosenMode(target[c]) ELSE wish[c]

(* ... and its copy of the profiles is what the user will have chosen. *)
CopyIsChosen ==
    \A c \in Command :
        pc[c] = "save" => copy[c] = [chosen EXCEPT ![target[c]] = Choice(c, target[c])]

Agreement ==
    Sound => /\ cache = chosen /\ file = chosen
             /\ OneRecords /\ ModeIsChosen /\ CopyIsChosen

IInv == Typed /\ Agreement

-----------------------------------------------------------------------------
(* The types. *)

(* No profiles at all are profiles of switchable devices only. *)
LEMMA Blank ==
  /\ NoCopy \in [Device -> Profile] /\ SwitchableOnly(NoCopy)
  /\ NoSnapshots \in [Device -> Snapshots]
  /\ \A d \in Device : NoSnapshots[d] = "absent"
  BY DEF NoCopy, Profile, SwitchableOnly, NoSnapshots, Snapshots

(* A thread that has answered keeps no variables. *)
LEMMA EndsTypes ==
  ASSUME Typed, NEW C, Ends(C)
  PROVE  /\ pc' \in [Command -> {"idle", "load", "save", "store", "done"}]
         /\ wish' \in [Command -> Wishes] /\ target' \in [Command -> Device \cup {NoDevice}]
         /\ base' \in [Command -> Modes] /\ copy' \in [Command -> [Device -> Profile]]
         /\ CommandsFit'
<1>1. TypeOK /\ CommandsFit
  BY DEF Typed
<1>2. /\ pc' \in [Command -> {"idle", "load", "save", "store", "done"}]
      /\ wish' \in [Command -> Wishes] /\ target' \in [Command -> Device \cup {NoDevice}]
      /\ base' \in [Command -> Modes]
  BY <1>1 DEF TypeOK, Ends, Wishes, Modes
<1>3. copy' \in [Command -> [Device -> Profile]]
  BY <1>1, Blank DEF TypeOK, Ends
<1>4. \A c \in Command :
         \/ pc'[c] = "done"
         \/ pc'[c] = pc[c] /\ target'[c] = target[c] /\ base'[c] = base[c] /\ copy'[c] = copy[c]
  BY DEF Ends
<1>5. CommandsFit'
  BY <1>1, <1>4 DEF CommandsFit
<1>6. QED BY <1>2, <1>3, <1>5

LEMMA InitTyped == Init => Typed
<1> SUFFICES ASSUME Init PROVE Typed
  OBVIOUS
<1>1. file \in [Device -> Profile]
  BY DEF Init, Profile
<1>2. TypeOK
  BY <1>1, Blank, EventsAssumption DEF Init, TypeOK, Modes, Wishes
<1>3. ModesFit
  BY Blank DEF Init, ModesFit
<1>4. CommandsFit
  BY DEF Init, CommandsFit
<1>5. QED BY <1>2, <1>3, <1>4 DEF Typed

LEMMA Counts == TypeOK => events \in Nat /\ (Happens => events' \in 0..MaxEvents)
  BY EventsAssumption DEF TypeOK, Happens

(* Cables, power and the selection. *)
LEMMA WorldTyped ==
  Typed /\ (Select \/ \E d \in Device : Plug(d) \/ Find(d)) => Typed'
<1> SUFFICES ASSUME Typed, Select \/ \E d \in Device : Plug(d) \/ Find(d) PROVE Typed'
  OBVIOUS
<1> USE DEF session, profiles, commands, reader, history, devices
<1>1. TypeOK /\ ModesFit /\ CommandsFit
  BY DEF Typed
<1>2. ASSUME NEW d \in Device, Plug(d) PROVE Typed'
  <2>1. /\ plugged' \subseteq Device
        /\ (UNCHANGED <<mode, holds>> \/ LosesPower(d))
        /\ UNCHANGED <<session, profiles, commands, reader, history>> /\ Happens
    BY <1>1, <1>2 DEF Plug, TypeOK
  <2>2. /\ mode' \in [Device -> Modes] /\ holds' \in [Device -> SUBSET Command]
        /\ \A e \in Device \ Switchable : mode'[e] = mode[e]
    <3>1. mode \in [Device -> Modes] /\ holds \in [Device -> SUBSET Command]
      BY <1>1 DEF TypeOK
    <3>2. CASE UNCHANGED <<mode, holds>>
      BY <3>1, <3>2
    <3>3. CASE LosesPower(d)
      BY <3>1, <3>3 DEF LosesPower, Modes
    <3>4. QED BY <2>1, <3>2, <3>3
  <2>3. TypeOK'
    BY <1>1, <2>1, <2>2, Counts DEF TypeOK, SwitchableOnly
  <2>4. ModesFit' /\ CommandsFit'
    BY <1>1, <2>1, <2>2 DEF ModesFit, CommandsFit, SwitchableOnly
  <2>5. QED BY <2>3, <2>4 DEF Typed
<1>3. CASE Select \/ \E d \in Device : Find(d)
  <2>1. TypeOK'
    BY <1>1, <1>3, Counts DEF TypeOK, Select, Find, SwitchableOnly
  <2>2. ModesFit' /\ CommandsFit'
    BY <1>1, <1>3 DEF Select, Find, ModesFit, CommandsFit, SwitchableOnly
  <2>3. QED BY <2>1, <2>2 DEF Typed
<1>4. QED BY <1>2, <1>3

(* What a mutation does to its device: only a switchable one changes mode. *)
LEMMA EffectTyped ==
  ASSUME Typed, NEW c \in Command, NEW w \in Wishes, NEW d \in Device, Allowed(w, d),
         Effect(c, w, d)
  PROVE  /\ mode' \in [Device -> Modes] /\ holds' \in [Device -> SUBSET Command]
         /\ \A e \in Device \ Switchable : mode'[e] = mode[e]
         /\ excuse \subseteq excuse'
         /\ excuse' \subseteq {"crossed", "misled", "early", "overruled"}
<1>1. /\ mode \in [Device -> Modes] /\ holds \in [Device -> SUBSET Command]
      /\ excuse \subseteq {"crossed", "misled", "early", "overruled"}
  BY DEF Typed, TypeOK
<1>2. mode' = [mode EXCEPT ![d] = IF w = "set" THEN @ ELSE w]
  BY DEF Effect
<1>3. mode' \in [Device -> Modes] /\ \A e \in Device \ Switchable : mode'[e] = mode[e]
  BY <1>1, <1>2 DEF Allowed, Wishes, Modes
<1>4. holds' \in [Device -> SUBSET Command]
  BY <1>1 DEF Effect
<1>5. Excuses(w, d) \subseteq {"crossed", "misled", "early"}
  BY DEF Excuses
<1>6. QED BY <1>1, <1>3, <1>4, <1>5 DEF Effect

(* The mode that a command sees is one, and that of a device without is fixed. *)
LEMMA SeenModeType ==
  ASSUME Typed, NEW w \in Wishes, NEW d \in Device, Allowed(w, d)
  PROVE  /\ SeenMode(w, d) \in Modes
         /\ d \notin Switchable => SeenMode(w, d) = "fixed"
<1>1. /\ mode \in [Device -> Modes] /\ known \in [Device -> Snapshots]
      /\ d \notin Switchable => mode[d] = "fixed" /\ known[d] \in {"absent", "bare", "fixed"}
  BY DEF Typed, TypeOK, ModesFit
<1>2. QED BY <1>1 DEF SeenMode, Wishes, Modes, Snapshots, Allowed

LEMMA WriteTyped ==
  ASSUME Typed, NEW c \in Command, NEW w \in Wishes, WriteOk(c, w) \/ WriteFails(c, w)
  PROVE  Typed'
<1> USE DEF session, profiles, reader
<1>1. TypeOK /\ ModesFit /\ CommandsFit
  BY DEF Typed
<1>2. Targets \subseteq Device
  BY <1>1 DEF Targets, TypeOK
<1>3. CASE WriteOk(c, w)
  <2>1. PICK d \in Targets :
          /\ Allowed(w, d) /\ Effect(c, w, d)
          /\ target' = [target EXCEPT ![c] = d]
          /\ base' = [base EXCEPT ![c] = SeenMode(w, d)]
          /\ pc' = [pc EXCEPT ![c] = IF HasMode(SeenMode(w, d)) THEN "load" ELSE "store"]
    BY <1>3 DEF WriteOk
  <2>2. /\ wish' = [wish EXCEPT ![c] = w] /\ events' \in 0..MaxEvents /\ pc[c] = "idle"
        /\ UNCHANGED <<plugged, session, profiles, copy, reader, chosen, half>>
    BY <1>1, <1>3, Counts DEF WriteOk, Turn
  <2>3. /\ mode' \in [Device -> Modes] /\ holds' \in [Device -> SUBSET Command]
        /\ \A e \in Device \ Switchable : mode'[e] = mode[e]
        /\ excuse' \subseteq {"crossed", "misled", "early", "overruled"}
    BY <1>2, <2>1, EffectTyped
  <2>4. /\ SeenMode(w, d) \in Modes
        /\ d \notin Switchable => SeenMode(w, d) = "fixed"
    BY <1>2, <2>1, SeenModeType
  <2>5. /\ pc' \in [Command -> {"idle", "load", "save", "store", "done"}]
        /\ wish' \in [Command -> Wishes] /\ target' \in [Command -> Device \cup {NoDevice}]
        /\ base' \in [Command -> Modes]
    BY <1>1, <1>2, <2>1, <2>2, <2>4 DEF TypeOK
  <2>6. TypeOK'
    BY <1>1, <2>2, <2>3, <2>5 DEF TypeOK, SwitchableOnly
  <2>7. ModesFit'
    BY <1>1, <2>2, <2>3 DEF ModesFit
  <2>8. CommandsFit'
    <3> SUFFICES ASSUME NEW e \in Command
        PROVE  /\ pc'[e] \in {"load", "save"}
                      => target'[e] \in Switchable /\ base'[e] \in {"software", "onboard"}
               /\ pc'[e] = "store"
                      => /\ target'[e] \in Device
                         /\ target'[e] \notin Switchable => base'[e] = "fixed"
               /\ pc'[e] = "save" => SwitchableOnly(copy'[e])
      BY DEF CommandsFit, SwitchableOnly
    <3>1. CASE e = c
      BY <1>1, <1>2, <2>1, <2>4, <3>1 DEF TypeOK, HasMode, Modes
    <3>2. CASE e # c
      BY <1>1, <2>1, <2>2, <3>2 DEF TypeOK, CommandsFit, SwitchableOnly
    <3>3. QED BY <3>1, <3>2
  <2>9. QED BY <2>6, <2>7, <2>8 DEF Typed
<1>4. CASE WriteFails(c, w)
  <2>1. /\ Ends({c}) /\ events' \in 0..MaxEvents
        /\ UNCHANGED <<plugged, session, profiles, reader, chosen, half>>
    BY <1>1, <1>4, Counts DEF WriteFails, Turn
  <2>2. /\ mode' \in [Device -> Modes] /\ holds' \in [Device -> SUBSET Command]
        /\ \A e \in Device \ Switchable : mode'[e] = mode[e]
        /\ excuse' \subseteq {"crossed", "misled", "early", "overruled"}
    <3>1. CASE UNCHANGED <<mode, holds, excuse>>
      BY <1>1, <3>1 DEF TypeOK
    <3>2. CASE \E d \in Targets : Allowed(w, d) /\ Effect(c, w, d)
      BY <1>2, <3>2, EffectTyped
    <3>3. QED BY <1>4, <3>1, <3>2 DEF WriteFails
  <2>3. TypeOK'
    BY <1>1, <2>1, <2>2, EndsTypes DEF TypeOK, SwitchableOnly
  <2>4. ModesFit'
    BY <1>1, <2>1, <2>2 DEF ModesFit
  <2>5. QED BY <2>1, <2>3, <2>4, EndsTypes DEF Typed
<1>5. QED BY <1>3, <1>4

(* The rest of a command, after its device has been written. *)
LEMMA ThreadTyped == ASSUME Typed, NEW c \in Command, Thread(c) PROVE Typed'
<1> USE DEF session, profiles, reader, devices, history
<1>1. TypeOK /\ ModesFit /\ CommandsFit
  BY DEF Typed
<1>2. CASE Load(c)
  <2> DEFINE d == target[c]
             entry == IF cache[d] = NoProfile THEN {} ELSE cache[d]
             mine == IF base[c] = "onboard" THEN NoProfile
                     ELSE IF wish[c] = "set" THEN entry \cup {c} ELSE entry
  <2>1. /\ d \in Switchable /\ cache \in [Device -> Profile] /\ SwitchableOnly(cache)
    BY <1>1, <1>2 DEF Load, CommandsFit, TypeOK
  <2>2. mine \in Profile
    BY <2>1, DeviceAssumption DEF Profile
  <2>3. /\ copy' = [copy EXCEPT ![c] = [cache EXCEPT ![d] = mine]]
        /\ applied' \subseteq applied
        /\ pc[c] = "load" /\ pc' = [pc EXCEPT ![c] = "save"]
        /\ UNCHANGED <<devices, session, cache, file, wish, target, base, reader, history, events>>
    BY <1>2 DEF Load
  <2> HIDE DEF mine
  <2>4. [cache EXCEPT ![d] = mine] \in [Device -> Profile]
        /\ SwitchableOnly([cache EXCEPT ![d] = mine])
    BY <2>1, <2>2 DEF SwitchableOnly
  <2> HIDE DEF d
  <2>5. copy' \in [Command -> [Device -> Profile]] /\ SwitchableOnly(copy'[c])
    BY <1>1, <2>3, <2>4 DEF TypeOK
  <2>6. TypeOK'
    BY <1>1, <2>3, <2>5 DEF TypeOK, SwitchableOnly
  <2>7. ModesFit'
    BY <1>1, <2>3 DEF ModesFit
  <2>8. CommandsFit'
    <3> SUFFICES ASSUME NEW e \in Command
        PROVE  /\ pc'[e] \in {"load", "save"}
                      => target'[e] \in Switchable /\ base'[e] \in {"software", "onboard"}
               /\ pc'[e] = "store"
                      => /\ target'[e] \in Device
                         /\ target'[e] \notin Switchable => base'[e] = "fixed"
               /\ pc'[e] = "save" => SwitchableOnly(copy'[e])
      BY DEF CommandsFit, SwitchableOnly
    <3>1. CASE e = c
      BY <1>1, <2>3, <2>5, <3>1 DEF TypeOK, CommandsFit
    <3>2. CASE e # c
      BY <1>1, <2>3, <3>2 DEF TypeOK, CommandsFit
    <3>3. QED BY <3>1, <3>2
  <2>9. QED BY <2>6, <2>7, <2>8 DEF Typed
<1>3. CASE SaveFails(c)
  <2>1. /\ Ends({c}) /\ events' \in 0..MaxEvents
        /\ UNCHANGED <<devices, session, profiles, reader, history>>
    BY <1>1, <1>3, Counts DEF SaveFails
  <2>2. TypeOK'
    BY <1>1, <2>1, EndsTypes DEF TypeOK, SwitchableOnly
  <2>3. ModesFit'
    BY <1>1, <2>1 DEF ModesFit
  <2>4. QED BY <2>1, <2>2, <2>3, EndsTypes DEF Typed
<1>4. CASE Save(c)
  <2>1. /\ pc[c] = "save" /\ target[c] \in Switchable /\ copy[c] \in [Device -> Profile]
        /\ SwitchableOnly(copy[c]) /\ chosen \in [Device -> Profile]
        /\ base[c] \in {"software", "onboard"}
    BY <1>1, <1>4 DEF Save, CommandsFit, TypeOK
  <2>2. /\ file' = copy[c] /\ cache' = copy[c]
        /\ applied' = IF base[c] = "software" THEN applied \cup {target[c]} ELSE applied
        /\ chosen' = [chosen EXCEPT ![target[c]] = Choice(c, target[c])]
        /\ pc' = [pc EXCEPT ![c] = "store"] /\ copy' = [copy EXCEPT ![c] = NoCopy]
        /\ UNCHANGED <<devices, session, wish, target, base, reader, half, excuse, events>>
    BY <1>4 DEF Save
  <2>3. chosen' \in [Device -> Profile]
    <3>1. Choice(c, target[c]) \in Profile
      BY <2>1, DeviceAssumption DEF Choice, Profile
    <3>2. QED BY <2>1, <2>2, <3>1
  <2>4. /\ applied' \subseteq Switchable
        /\ copy' \in [Command -> [Device -> Profile]]
        /\ pc' \in [Command -> {"idle", "load", "save", "store", "done"}]
    BY <1>1, <2>1, <2>2, Blank DEF TypeOK
  <2>5. TypeOK'
    BY <1>1, <2>1, <2>2, <2>3, <2>4 DEF TypeOK, SwitchableOnly
  <2>6. ModesFit'
    BY <1>1, <2>2 DEF ModesFit
  <2>7. CommandsFit'
    BY <1>1, <2>1, <2>2, DeviceAssumption DEF TypeOK, CommandsFit
  <2>8. QED BY <2>5, <2>6, <2>7 DEF Typed
<1>5. CASE StoreSnapshot(c)
  <2>1. /\ pc[c] = "store" /\ Ends({c})
        /\ known' = [known EXCEPT ![target[c]] = base[c]]
        /\ UNCHANGED <<devices, selected, asked, profiles, reader, history, events>>
    BY <1>5 DEF StoreSnapshot
  <2>2. known' \in [Device -> Snapshots]
    BY <1>1, <2>1 DEF TypeOK, Snapshots
  <2>3. TypeOK'
    BY <1>1, <2>1, <2>2, EndsTypes DEF TypeOK, SwitchableOnly
  <2>4. ModesFit'
    BY <1>1, <2>1 DEF ModesFit, CommandsFit, TypeOK
  <2>5. QED BY <2>1, <2>3, <2>4, EndsTypes DEF Typed
<1>6. QED BY <1>2, <1>3, <1>4, <1>5 DEF Thread

(* An entry that fits its device keeps the pass typed. *)
LEMMA EntryTyped ==
  ASSUME Typed, NEW d \in Device, NEW snapshot \in Snapshots, Entry(d, snapshot),
         d \notin Switchable => snapshot \in {"absent", "bare", "fixed"}
  PROVE  /\ rpc' \in {"idle", "visit", "publish", "clear"} /\ plan' \in {"light", "Full"}
         /\ todo' \subseteq Device /\ draft' \in [Device -> Snapshots]
         /\ \A e \in Device \ Switchable : draft'[e] \in {"absent", "bare", "fixed"}
<1>1. /\ draft \in [Device -> Snapshots] /\ todo \subseteq Device /\ plan \in {"light", "Full"}
      /\ \A e \in Device \ Switchable : draft[e] \in {"absent", "bare", "fixed"}
  BY DEF Typed, TypeOK, ModesFit
<1>2. QED BY <1>1 DEF Entry

LEMMA VisitTyped == ASSUME Typed, NEW d \in Device, Visit(d) PROVE Typed'
<1> USE DEF session, profiles, commands, devices, history
<1>1. TypeOK /\ ModesFit /\ CommandsFit
  BY DEF Typed
<1>2. /\ known[d] \in Snapshots /\ mode[d] \in Snapshots
      /\ d \notin Switchable => mode[d] = "fixed" /\ known[d] \in {"absent", "bare", "fixed"}
  BY <1>1 DEF TypeOK, Snapshots, ModesFit
<1>3. CASE VisitLightly(d) \/ VisitFails(d) \/ VisitReads(d)
  <2>1. PICK snapshot \in Snapshots :
          /\ Entry(d, snapshot)
          /\ d \notin Switchable => snapshot \in {"absent", "bare", "fixed"}
    BY <1>2, <1>3 DEF VisitLightly, VisitFails, VisitReads, Snapshots
  <2>2. /\ UNCHANGED <<devices, session, profiles, commands, history>>
        /\ events' \in 0..MaxEvents
    BY <1>1, <1>3, Counts DEF VisitLightly, VisitFails, VisitReads, TypeOK
  <2>3. /\ rpc' \in {"idle", "visit", "publish", "clear"} /\ plan' \in {"light", "Full"}
        /\ todo' \subseteq Device /\ draft' \in [Device -> Snapshots]
        /\ \A e \in Device \ Switchable : draft'[e] \in {"absent", "bare", "fixed"}
    BY <2>1, EntryTyped
  <2>4. TypeOK'
    BY <1>1, <2>2, <2>3 DEF TypeOK, SwitchableOnly
  <2>5. ModesFit' /\ CommandsFit'
    BY <1>1, <2>2, <2>3 DEF ModesFit, CommandsFit, SwitchableOnly
  <2>6. QED BY <2>4, <2>5 DEF Typed
<1>4. CASE VisitReapplies(d)
  <2>1. d \in Switchable /\ cache[d] \in SUBSET Command
    BY <1>1, <1>4 DEF VisitReapplies, Reapplies, TypeOK, Profile
  <2>2. PICK snapshot \in Snapshots : Entry(d, snapshot)
    <3>1. Entry(d, "software") \/ Entry(d, mode[d])
      BY <1>4, Zenon DEF VisitReapplies
    <3>2. "software" \in Snapshots
      BY DEF Snapshots, Modes
    <3>3. QED BY <1>2, <3>1, <3>2
  <2>3. /\ UNCHANGED <<plugged, session, cache, file, commands, chosen>>
        /\ applied' = applied \cup {d} /\ excuse' \in {excuse, excuse \cup {"overruled"}}
        /\ half' \in {half, half \cup {d}, half \ {d}}
        /\ mode' \in {mode, [mode EXCEPT ![d] = "software"]}
        /\ events' \in 0..MaxEvents
    BY <1>1, <1>4, Counts DEF VisitReapplies, TypeOK
  <2>4. holds' \in [Device -> SUBSET Command]
    <3>1. \/ holds' = holds
          \/ \E newer \in SUBSET (holds[d] \ cache[d]) :
                holds' = [holds EXCEPT ![d] = cache[d] \cup newer]
          \/ \E some \in SUBSET (holds[d] \cup cache[d]) : holds' = [holds EXCEPT ![d] = some]
      BY <1>4 DEF VisitReapplies
    <3>2. holds \in [Device -> SUBSET Command]
      BY <1>1 DEF TypeOK
    <3>3. QED BY <2>1, <3>1, <3>2
  <2>5. /\ rpc' \in {"idle", "visit", "publish", "clear"} /\ plan' \in {"light", "Full"}
        /\ todo' \subseteq Device /\ draft' \in [Device -> Snapshots]
        /\ \A e \in Device \ Switchable : draft'[e] \in {"absent", "bare", "fixed"}
    BY <2>1, <2>2, EntryTyped
  <2>6. /\ mode' \in [Device -> Modes] /\ \A e \in Device \ Switchable : mode'[e] = mode[e]
    BY <1>1, <2>1, <2>3 DEF TypeOK, Modes
  <2>7. /\ applied' \subseteq Switchable /\ half' \subseteq Switchable
        /\ excuse' \subseteq {"crossed", "misled", "early", "overruled"}
    BY <1>1, <2>1, <2>3 DEF TypeOK
  <2>8. TypeOK'
    BY <1>1, <2>3, <2>4, <2>5, <2>6, <2>7 DEF TypeOK, SwitchableOnly
  <2>9. ModesFit' /\ CommandsFit'
    BY <1>1, <2>3, <2>5, <2>6 DEF ModesFit, CommandsFit, SwitchableOnly
  <2>10. QED BY <2>8, <2>9 DEF Typed
<1>5. QED BY <1>3, <1>4 DEF Visit

(* The two ends of a pass, its start, and a restart. *)
LEMMA PassTyped == Typed /\ (StartPass \/ Clear \/ Publish \/ Restart) => Typed'
<1> SUFFICES ASSUME Typed, StartPass \/ Clear \/ Publish \/ Restart PROVE Typed'
  OBVIOUS
<1> USE DEF session, profiles, commands, devices, history
<1>1. TypeOK /\ ModesFit /\ CommandsFit
  BY DEF Typed
<1>2. CASE StartPass
  <2>1. TypeOK'
    BY <1>1, <1>2, Blank DEF StartPass, TypeOK, SwitchableOnly
  <2>2. ModesFit' /\ CommandsFit'
    BY <1>1, <1>2, Blank DEF StartPass, ModesFit, CommandsFit, SwitchableOnly
  <2>3. QED BY <2>1, <2>2 DEF Typed
<1>3. CASE Clear
  <2>1. TypeOK'
    BY <1>1, <1>3, Blank DEF Clear, EndPass, TypeOK, SwitchableOnly
  <2>2. ModesFit' /\ CommandsFit'
    BY <1>1, <1>3, Blank DEF Clear, EndPass, ModesFit, CommandsFit, SwitchableOnly
  <2>3. QED BY <2>1, <2>2 DEF Typed
<1>4. CASE Publish
  <2>1. /\ known' \in {known, draft} /\ selected' \in {selected, NoDevice}
        /\ applied' = applied /\ EndPass
    BY <1>4 DEF Publish
  <2>2. TypeOK'
    BY <1>1, <2>1, Blank DEF EndPass, TypeOK, SwitchableOnly
  <2>3. ModesFit' /\ CommandsFit'
    BY <1>1, <2>1, Blank DEF EndPass, ModesFit, CommandsFit, SwitchableOnly
  <2>4. QED BY <2>2, <2>3 DEF Typed
<1>5. CASE Restart
  <2>1. /\ Ends({c \in Command : pc[c] # "idle"}) /\ events' \in 0..MaxEvents
        /\ known' = NoSnapshots /\ selected' = NoDevice /\ asked' = NoDevice
        /\ cache' = file /\ applied' = {}
        /\ rpc' = "idle" /\ plan' = "light" /\ todo' = {} /\ draft' = NoSnapshots
        /\ UNCHANGED <<devices, file, history>>
    BY <1>1, <1>5, Counts DEF Restart
  <2>2. TypeOK'
    BY <1>1, <2>1, Blank, EndsTypes DEF TypeOK, SwitchableOnly
  <2>3. ModesFit'
    BY <1>1, <2>1, Blank DEF ModesFit
  <2>4. QED BY <2>1, <2>2, <2>3, EndsTypes DEF Typed
<1>6. QED BY <1>2, <1>3, <1>4, <1>5

LEMMA TypedStep == Typed /\ [Next]_vars => Typed'
<1> SUFFICES ASSUME Typed, [Next]_vars PROVE Typed'
  OBVIOUS
<1>1. CASE UNCHANGED vars
  BY <1>1 DEF vars, devices, session, profiles, commands, reader, history, Typed, TypeOK,
     ModesFit, CommandsFit, SwitchableOnly
<1>2. CASE Reader \/ Restart
  BY <1>2, VisitTyped, PassTyped DEF Reader
<1>3. CASE \E c \in Command : Thread(c) \/ \E w \in Wishes : WriteOk(c, w) \/ WriteFails(c, w)
  BY <1>3, ThreadTyped, WriteTyped
<1>4. CASE Select \/ \E d \in Device : Plug(d) \/ Find(d)
  BY <1>4, WorldTyped
<1>5. QED BY <1>1, <1>2, <1>3, <1>4 DEF Next

(* Every variable keeps its type, for every instance; a device without a control
   mode never gets a profile, in memory or on disk. *)
THEOREM TypeCorrect == Spec => []TypeOK
<1>1. Typed => TypeOK
  BY DEF Typed
<1>2. QED BY InitTyped, TypedStep, <1>1, PTL DEF Spec

-----------------------------------------------------------------------------
(* The profile. *)

Agreed ==
    /\ cache = chosen /\ file = chosen
    /\ OneRecords /\ ModeIsChosen /\ CopyIsChosen

(* Steps that leave the profiles and the choice alone, and record nothing new. *)
LEMMA FrameAgreed ==
  ASSUME Agreed, UNCHANGED <<cache, file, chosen>>,
         \A c \in Command :
            \/ pc'[c] \notin {"load", "save"}
            \/ /\ pc'[c] = pc[c] /\ wish'[c] = wish[c] /\ target'[c] = target[c]
               /\ base'[c] = base[c] /\ copy'[c] = copy[c]
  PROVE  Agreed'
<1>1. /\ Recording' \subseteq Recording
      /\ \A c \in Recording' : /\ pc'[c] = pc[c] /\ wish'[c] = wish[c] /\ base'[c] = base[c]
                               /\ target'[c] = target[c] /\ copy'[c] = copy[c]
  BY DEF Recording
<1>2. OneRecords' /\ ModeIsChosen'
  BY <1>1 DEF Agreed, OneRecords, ModeIsChosen, ChosenMode
<1>3. CopyIsChosen'
  <2>1. SUFFICES ASSUME NEW c \in Command, pc'[c] = "save"
                 PROVE  copy'[c] = [chosen' EXCEPT ![target'[c]] = Choice(c, target[c])']
    BY DEF CopyIsChosen
  <2>2. /\ pc[c] = "save" /\ wish'[c] = wish[c] /\ target'[c] = target[c] /\ copy'[c] = copy[c]
    BY <2>1
  <2>3. Choice(c, target[c])' = Choice(c, target[c])
    BY <2>2 DEF Choice
  <2>4. copy[c] = [chosen EXCEPT ![target[c]] = Choice(c, target[c])]
    BY <2>2 DEF Agreed, CopyIsChosen
  <2>5. QED BY <2>2, <2>3, <2>4
<1>4. QED BY <1>2, <1>3 DEF Agreed

(* A thread that ends records nothing. *)
LEMMA EndsAgreed ==
  ASSUME Typed, Agreed, UNCHANGED <<cache, file, chosen>>, NEW C, Ends(C)
  PROVE  Agreed'
<1>1. \A c \in Command :
        \/ pc'[c] \notin {"load", "save"}
        \/ /\ pc'[c] = pc[c] /\ wish'[c] = wish[c] /\ target'[c] = target[c]
           /\ base'[c] = base[c] /\ copy'[c] = copy[c]
  BY DEF Ends
<1>2. QED BY <1>1, FrameAgreed

(* The device is written: a change that will be recorded is the only one, and
   its mode is the one that is chosen, or else the step is excused. *)
LEMMA WriteAgreed ==
  ASSUME Typed, Agreed, Sound', NEW c \in Command, NEW w \in Wishes, WriteOk(c, w)
  PROVE  Agreed'
<1>0. TypeOK /\ Targets \subseteq Device
  BY DEF Typed, TypeOK, Targets
<1>1. PICK d \in Targets :
        /\ Allowed(w, d) /\ Effect(c, w, d)
        /\ target' = [target EXCEPT ![c] = d]
        /\ base' = [base EXCEPT ![c] = SeenMode(w, d)]
        /\ pc' = [pc EXCEPT ![c] = IF HasMode(SeenMode(w, d)) THEN "load" ELSE "store"]
  BY DEF WriteOk
<1>2. /\ wish' = [wish EXCEPT ![c] = w] /\ pc[c] = "idle"
      /\ UNCHANGED <<cache, file, chosen, copy>>
  BY DEF WriteOk, Turn, profiles
<1>3. \A e \in Command \ {c} : /\ pc'[e] = pc[e] /\ wish'[e] = wish[e] /\ base'[e] = base[e]
                               /\ target'[e] = target[e] /\ copy'[e] = copy[e]
  BY <1>0, <1>1, <1>2 DEF TypeOK
<1>4. CASE d \notin Switchable
  <2>1. pc'[c] = "store"
    BY <1>0, <1>1, <1>4, SeenModeType DEF TypeOK, HasMode
  <2>2. QED BY <1>2, <1>3, <2>1, FrameAgreed
<1>5. CASE d \in Switchable
  <2>1. excuse' = excuse \cup Excuses(w, d)
    BY <1>1 DEF Effect
  <2>2. "crossed" \notin Excuses(w, d) /\ "misled" \notin Excuses(w, d)
    BY <2>1 DEF Sound
  <2>3. Recording = {}
    BY <1>5, <2>2 DEF Excuses
  <2>4. w = "set" => SeenMode(w, d) = ChosenMode(d)
    BY <1>5, <2>2 DEF Excuses, ChosenMode
  <2>5. \A e \in Recording' : e = c
    BY <1>3, <2>3 DEF Recording
  <2>6. /\ wish'[c] = w /\ target'[c] = d /\ base'[c] = SeenMode(w, d)
        /\ pc'[c] \in {"load", "store"}
    BY <1>0, <1>1, <1>2 DEF TypeOK
  <2>7. w # "set" => SeenMode(w, d) = w
    BY DEF SeenMode
  <2>8. ModeIsChosen'
    <3>1. ChosenMode(d)' = ChosenMode(d)
      BY <1>2 DEF ChosenMode
    <3>2. base'[c] = IF wish'[c] = "set" THEN ChosenMode(d)' ELSE wish'[c]
      BY <2>4, <2>6, <2>7, <3>1
    <3>3. QED BY <2>5, <2>6, <3>2 DEF ModeIsChosen, ChosenMode
  <2>9. OneRecords'
    BY <2>5 DEF OneRecords
  <2>10. CopyIsChosen'
    <3>1. \A e \in Command : pc'[e] # "save"
      BY <1>3, <2>3, <2>6 DEF Recording
    <3>2. QED BY <3>1 DEF CopyIsChosen
  <2>11. QED BY <1>2, <2>8, <2>9, <2>10 DEF Agreed
<1>6. QED BY <1>4, <1>5

(* The profiles are copied and changed: the copy is what will be chosen. *)
LEMMA LoadAgreed ==
  ASSUME Typed, Agreed, NEW c \in Command, Load(c)
  PROVE  Agreed'
<1> DEFINE d == target[c]
           entry == IF cache[d] = NoProfile THEN {} ELSE cache[d]
           mine == IF base[c] = "onboard" THEN NoProfile
                   ELSE IF wish[c] = "set" THEN entry \cup {c} ELSE entry
<1>1. /\ pc[c] = "load" /\ pc' = [pc EXCEPT ![c] = "save"]
      /\ copy' = [copy EXCEPT ![c] = [cache EXCEPT ![d] = mine]]
      /\ UNCHANGED <<cache, file, wish, target, base, chosen>>
  BY DEF Load, history
<1>2. /\ TypeOK /\ cache = chosen /\ file = chosen /\ OneRecords /\ ModeIsChosen /\ CopyIsChosen
      /\ wish[c] \in Wishes
  BY DEF Typed, Agreed, TypeOK
<1>3. Recording' = Recording /\ c \in Recording
  BY <1>1, <1>2 DEF TypeOK, Recording
<1>4. base[c] = IF wish[c] = "set" THEN ChosenMode(d) ELSE wish[c]
  BY <1>2, <1>3 DEF ModeIsChosen
<1>5. mine = Choice(c, d)
  BY <1>2, <1>4 DEF Choice, ChosenMode, Wishes
<1> HIDE DEF mine
<1>6. OneRecords' /\ ModeIsChosen'
  BY <1>1, <1>2, <1>3 DEF OneRecords, ModeIsChosen, ChosenMode
<1>7. CopyIsChosen'
  <2>1. SUFFICES ASSUME NEW e \in Command, pc'[e] = "save"
                 PROVE  copy'[e] = [chosen' EXCEPT ![target'[e]] = Choice(e, target[e])']
    BY DEF CopyIsChosen
  <2>2. e \in Recording'
    BY <2>1 DEF Recording
  <2>3. e = c
    BY <1>2, <1>3, <2>2 DEF OneRecords
  <2>4. copy'[c] = [cache EXCEPT ![d] = mine]
    BY <1>1, <1>2 DEF TypeOK
  <2>5. Choice(c, target[c])' = Choice(c, target[c])
    BY <1>1 DEF Choice
  <2>6. QED BY <1>1, <1>2, <1>5, <2>3, <2>4, <2>5
<1>8. QED BY <1>1, <1>2, <1>6, <1>7 DEF Agreed

(* The copy is saved, and is what has been chosen. *)
LEMMA SaveAgreed ==
  ASSUME Typed, Agreed, NEW c \in Command, Save(c)
  PROVE  Agreed'
<1>1. /\ pc[c] = "save" /\ file' = copy[c] /\ cache' = copy[c]
      /\ chosen' = [chosen EXCEPT ![target[c]] = Choice(c, target[c])]
      /\ pc' = [pc EXCEPT ![c] = "store"]
  BY DEF Save
<1>2. TypeOK /\ OneRecords /\ CopyIsChosen
  BY DEF Typed, Agreed
<1>3. c \in Recording /\ \A e \in Recording : e = c
  BY <1>1, <1>2 DEF Recording, OneRecords
<1>4. Recording' = {}
  BY <1>1, <1>2, <1>3 DEF Recording, TypeOK
<1>5. cache' = chosen' /\ file' = chosen'
  BY <1>1, <1>2 DEF CopyIsChosen
<1>6. OneRecords' /\ ModeIsChosen'
  BY <1>4 DEF OneRecords, ModeIsChosen
<1>7. CopyIsChosen'
  BY <1>4 DEF CopyIsChosen, Recording
<1>8. QED BY <1>5, <1>6, <1>7 DEF Agreed

(* What is excused stays excused. *)
LEMMA SoundBefore == ASSUME Typed, [Next]_vars, Sound' PROVE Sound
<1>1. excuse \subseteq excuse'
  <2>1. CASE \E c \in Command, w \in Wishes : WriteOk(c, w) \/ WriteFails(c, w)
    BY <2>1 DEF WriteOk, WriteFails, Effect
  <2>2. CASE \E d \in Device : Visit(d)
    BY <2>2 DEF Visit, VisitLightly, VisitFails, VisitReads, VisitReapplies, history
  <2>3. CASE StartPass \/ Clear \/ Publish \/ Select \/ Restart
    BY <2>3 DEF StartPass, Clear, Publish, EndPass, Select, Restart, history
  <2>4. CASE \E c \in Command : Thread(c)
    BY <2>4 DEF Thread, Load, SaveFails, Save, StoreSnapshot, history
  <2>5. CASE \E d \in Device : Plug(d) \/ Find(d)
    BY <2>5 DEF Plug, Find, history
  <2>6. CASE UNCHANGED vars
    BY <2>6 DEF vars, history
  <2>7. QED BY <2>1, <2>2, <2>3, <2>4, <2>5, <2>6, Zenon DEF Next, Reader
<1>2. QED BY <1>1 DEF Sound

LEMMA AgreedStep == ASSUME Typed, Agreed, [Next]_vars, Sound' PROVE Agreed'
<1>1. CASE \E c \in Command, w \in Wishes : WriteOk(c, w)
  BY <1>1, WriteAgreed
<1>2. CASE \E c \in Command, w \in Wishes : WriteFails(c, w)
  BY <1>2, EndsAgreed DEF WriteFails, profiles
<1>3. CASE \E c \in Command : Thread(c)
  <2>1. PICK c \in Command : Thread(c)
    BY <1>3
  <2>2. CASE Load(c)
    BY <2>2, LoadAgreed
  <2>3. CASE Save(c)
    BY <2>3, SaveAgreed
  <2>4. CASE SaveFails(c) \/ StoreSnapshot(c)
    BY <2>4, EndsAgreed DEF SaveFails, StoreSnapshot, profiles, history
  <2>5. QED BY <2>1, <2>2, <2>3, <2>4 DEF Thread
<1>4. CASE \E d \in Device : Visit(d)
  BY <1>4, FrameAgreed
  DEF Visit, VisitLightly, VisitFails, VisitReads, VisitReapplies, profiles, commands, history
<1>5. CASE StartPass \/ Clear \/ Publish \/ Select
  BY <1>5, FrameAgreed DEF StartPass, Clear, Publish, EndPass, Select, profiles, commands, history
<1>6. CASE \E d \in Device : Plug(d) \/ Find(d)
  BY <1>6, FrameAgreed DEF Plug, Find, profiles, commands, history
<1>7. CASE Restart
  <2>1. /\ cache' = file /\ UNCHANGED <<file, chosen>> /\ file = cache
        /\ Ends({c \in Command : pc[c] # "idle"})
    BY <1>7 DEF Restart, Agreed, history
  <2>2. QED BY <2>1, EndsAgreed
<1>8. CASE UNCHANGED vars
  BY <1>8, FrameAgreed DEF vars, profiles, commands, history
<1>9. QED BY <1>1, <1>2, <1>3, <1>4, <1>5, <1>6, <1>7, <1>8, Zenon DEF Next, Reader

LEMMA Inductive == IInv /\ [Next]_vars => IInv'
<1> SUFFICES ASSUME IInv, [Next]_vars PROVE IInv'
  OBVIOUS
<1>1. Typed'
  BY TypedStep DEF IInv
<1>2. ASSUME Sound' PROVE Agreed'
  BY <1>2, SoundBefore, AgreedStep DEF IInv, Agreement, Agreed
<1>3. QED BY <1>1, <1>2 DEF IInv, Agreement, Agreed

LEMMA InitIInv == Init => IInv
<1> SUFFICES ASSUME Init PROVE IInv
  OBVIOUS
<1>1. Recording = {}
  BY DEF Init, Recording
<1>2. OneRecords /\ ModeIsChosen /\ CopyIsChosen
  BY <1>1 DEF OneRecords, ModeIsChosen, CopyIsChosen, Recording
<1>3. cache = chosen /\ file = chosen
  BY DEF Init
<1>4. QED BY <1>2, <1>3, InitTyped DEF IInv, Agreement

(* Whatever fails, is unplugged or restarted: the profile in memory and the one
   on disk are what the commands that recorded their change have chosen, unless
   two of them crossed or a value was written under a mode that was not the
   chosen one. *)
THEOREM ProfilesAreKept == Spec => []ProfileKept
<1>1. IInv => ProfileKept
  BY DEF IInv, Agreement, Sound, ProfileKept
<1>2. QED BY InitIInv, Inductive, <1>1, PTL DEF Spec

=============================================================================
