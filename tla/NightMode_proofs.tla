--------------------------- MODULE NightMode_proofs ---------------------------
(***************************************************************************)
(* NightMode implements NightPromise, for every set of devices and however *)
(* many failures, restarts and events there are.                           *)
(***************************************************************************)
EXTENDS NightMode, TLAPS

(* The lights that the transition under way has still to deal with. *)
Todo ==
    CASE pc \in {"snapshot", "mouse"} -> Light
      [] pc = "receiver" -> {"receiver"}
      [] OTHER -> {}

(* No device is dealt with before its snapshot is taken. *)
DeviceTaken == pc \in {"idle", "snapshot"} => dev = NoDevice

(* Only lights that a device can change are in the ledger. *)
LedgerSupported == \A d \in Device, l \in Light : ledger[d][l] # "free" => l \in Supports[d]

(* An owed light is dark. *)
OwedIsDark == \A d \in Device, l \in Light : ledger[d][l] = "owed" => l \notin lit[d]

(* No complete entry shows it otherwise, published or still to be published by
   the reader, unless the entry is older than the write. *)
EntriesAreTrue ==
    \A d \in Device, l \in Light :
        ledger[d][l] = "owed"
        => /\ known[d] = "full" /\ d \notin stale => l \notin shown[d]
           /\ drawn[d] = "full" /\ d \notin late => l \notin drawnLit[d]

(* The reader holds entries back only during a pass. *)
DraftOfPass == reading \/ \A d \in Device : drawn[d] = "absent"

(* Memory and file agree except between a commit and its save. *)
DiskIsSaved == pc # "save" => disk = saved

(* What is on file is in the ledger; what is in the ledger and belongs to a
   device that is not dealt with is on file, and not given back yet. *)
FileInLedger ==
    \A d \in Device, l \in Light :
        /\ disk[l] = d => ledger[d][l] # "free"
        /\ disk[l] = d /\ d # dev => ledger[d][l] # "given"
        /\ ledger[d][l] # "free" /\ d # dev => disk[l] = d

(* The records of a transition are of lights that have not been given back;
   the older ones matter by night only. *)
Pending(record) ==
    \A d \in Device, l \in Light : record[l] = d => ledger[d][l] \in {"owed", "back"}
RecordsPending ==
    /\ pc \notin {"idle", "save"} => Pending(work) /\ (goal = "Night" => Pending(before))
    /\ pc = "save" => Pending(saved)

(* A light that is still to be dealt with has its record as it was saved. *)
TodoAsSaved ==
    \A l \in Todo :
        /\ goal = "Day" => work[l] = saved[l]
        /\ goal = "Night" => \/ work[l] = saved[l] /\ before[l] = NoDevice
                             \/ work[l] = NoDevice /\ before[l] = saved[l]
        /\ dev \in Device /\ ledger[dev][l] # "free" => saved[l] = dev
        /\ dev \in Device /\ ledger[dev][l] = "owed" => l \notin seen

(* One that has been dealt with and is still owed keeps its record, by day
   because its restore has failed. *)
DoneKept ==
    \A l \in Light \ Todo :
        dev \in Device /\ ledger[dev][l] = "owed" /\ l \in wanted
        => /\ pc \in {"mouse", "receiver", "commit"}
              => work[l] = dev /\ (goal = "Day" => failed)
           /\ pc = "save" => saved[l] = dev

Kept ==
    /\ LedgerSupported /\ OwedIsDark /\ EntriesAreTrue /\ DiskIsSaved /\ FileInLedger
    /\ RecordsPending /\ TodoAsSaved /\ DoneKept

IInv == TypeOK /\ DeviceTaken /\ DraftOfPass /\ (~void => Kept)

-----------------------------------------------------------------------------
(* Types.  The Boolean variables apart from the others: the provers take them
   apart. *)
BoolOK ==
    /\ dark \in BOOLEAN /\ force \in BOOLEAN /\ failed \in BOOLEAN /\ void \in BOOLEAN
    /\ reading \in BOOLEAN

Physical ==
    /\ lit \in [Device -> SUBSET Light]
    /\ known \in [Device -> Contents] /\ shown \in [Device -> SUBSET Light]
    /\ drawn \in [Device -> Contents] /\ drawnLit \in [Device -> SUBSET Light]
    /\ ready \in SUBSET Device /\ stale \in SUBSET Device /\ late \in SUBSET Device
    /\ ledger \in [Device -> [Light -> {"free", "owed", "back", "given"}]]

Control ==
    /\ plugged \in SUBSET Device /\ selected \in Device \cup {NoDevice}
    /\ targets \in SUBSET Light /\ phase \in Phases
    /\ saved \in Record /\ disk \in Record
    /\ pc \in {"idle", "snapshot", "mouse", "receiver", "commit", "save"}
    /\ goal \in Phases /\ wanted \in SUBSET Light /\ before \in Record /\ work \in Record
    /\ dev \in Device \cup {NoDevice} /\ seen \in SUBSET Light
    /\ (pc \in {"mouse", "receiver"} => dev \in Device) /\ (pc = "idle" => dev = NoDevice)
    /\ events \in 0..MaxEvents /\ mishaps \in 0..MaxMishaps

LEMMA TypeParts == TypeOK <=> BoolOK /\ Physical /\ Control
  BY DEF TypeOK, BoolOK, Physical, Control

(* The current device is a device. *)
LEMMA CurrentType ==
  ASSUME Control
  PROVE  Current \in Device \cup {NoDevice}
<1>1. Known \subseteq Device
  BY DEF Known
<1>2. ASSUME Known # {} PROVE (CHOOSE d \in Known : TRUE) \in Known
  BY <1>2, Zenon
<1>3. QED BY <1>1, <1>2 DEF Current

LEMMA NothingType == Nothing \in Record
  BY DEF Nothing, Record

(* No step makes a Boolean variable anything else. *)
LEMMA BoolStep == BoolOK /\ [Next]_vars => BoolOK'
<1> SUFFICES ASSUME BoolOK, [Next]_vars PROVE BoolOK'
  OBVIOUS
<1> USE DEF BoolOK, session, pass, settings, runtime, transition, history
<1>1. CASE Look
  BY <1>1, Zenon DEF Look
<1>2. CASE NoSnapshot \/ TakeSnapshot
  BY <1>2, Zenon DEF NoSnapshot, TakeSnapshot, Return, Forget
<1>3. CASE Commit \/ Save
  BY <1>3, Zenon DEF Commit, Save, Return, Forget
<1>4. ASSUME NEW l \in Light, SwitchOff(l) PROVE BoolOK'
  BY <1>4, Zenon DEF SwitchOff, WriteOk, WriteFails
<1>5. ASSUME NEW l \in Light, Restore(l) PROVE BoolOK'
  BY <1>5, Zenon DEF Restore, WriteOk, WriteFails
<1>6. ASSUME NEW l \in Light, KeepRecord(l) \/ PassOver(l) PROVE BoolOK'
  BY <1>6, Zenon DEF KeepRecord, PassOver
<1>7. CASE ChangeSettings
  BY <1>7, Zenon DEF ChangeSettings
<1>8. CASE Restart
  BY <1>8, Zenon DEF Restart, Return, Forget
<1>9. CASE Publish
  <2>1. force' = (force \/ \E d \in Device : drawn[d] # "absent" /\ known[d] = "absent")
    BY <1>9, Zenon DEF Publish
  <2>2. force' \in BOOLEAN
    BY <2>1, Zenon
  <2>3. QED BY <1>9, <2>2, Zenon DEF Publish
<1>10. ASSUME NEW d \in Device, PlugOrUnplug(d) \/ Select(d) PROVE BoolOK'
  BY <1>10, Zenon DEF PlugOrUnplug, Select
<1>11. ASSUME NEW d \in Device, NEW l \in Light, Touch(d, l) PROVE BoolOK'
  BY <1>11, Zenon DEF Touch
<1>12. CASE UNCHANGED vars
  BY <1>12, Zenon DEF vars
<1>13. ASSUME NEW renewed \in SUBSET plugged, NEW complete \in SUBSET renewed,
             ReadDevices(complete, renewed)
      PROVE  BoolOK'
  BY <1>13, Zenon DEF ReadDevices
<1>14. QED
  BY <1>1, <1>2, <1>3, <1>4, <1>5, <1>6, <1>7, <1>8, <1>9, <1>10, <1>11, <1>12, <1>13, Zenon
  DEF Next, Scheduler

LEMMA WrittenType ==
  ASSUME Control
  PROVE  Written \subseteq Device
<1>1. CASE Current \in plugged
  <2>1. Current \in Device
    BY <1>1 DEF Control
  <2>2. QED BY <1>1, <2>1 DEF Written
<1>2. CASE Current \notin plugged
  BY <1>2 DEF Written, Control
<1>3. QED BY <1>1, <1>2

(* A write, whatever comes of it, keeps the types of what it touches. *)
LEMMA WriteType ==
  ASSUME Physical, Control, NEW l \in Light, NEW on \in BOOLEAN,
         WriteOk(l, on) \/ WriteFails(l, on),
         UNCHANGED <<ready, stale, drawn, drawnLit>>
  PROVE  Physical' /\ mishaps' \in 0..MaxMishaps
<1>0. Written \subseteq Device
  BY WrittenType
<1>1. CASE WriteOk(l, on)
  <2>1. PICK d \in Written :
          /\ lit' = [lit EXCEPT ![d] = IF on THEN @ \cup {l} ELSE @ \ {l}]
          /\ shown' = [shown EXCEPT ![d] = IF on /\ known[d] = "full" THEN @ \cup {l} ELSE @ \ {l}]
          /\ known' = [known EXCEPT ![d] = IF @ = "absent" THEN "partial" ELSE @]
          /\ late' = IF reading THEN late \cup {d} ELSE late
          /\ ledger' = [ledger EXCEPT ![d][l] = IF on THEN "given" ELSE "owed"]
          /\ mishaps' = mishaps
    BY <1>1 DEF WriteOk
  <2>2. d \in Device
    BY <1>0
  <2>3. lit' \in [Device -> SUBSET Light]
    BY <2>1, <2>2 DEF Physical
  <2>4. shown' \in [Device -> SUBSET Light]
    BY <2>1, <2>2 DEF Physical
  <2>5. known' \in [Device -> Contents] /\ late' \in SUBSET Device
    BY <2>1, <2>2 DEF Physical, Contents
  <2>6. ledger' \in [Device -> [Light -> {"free", "owed", "back", "given"}]]
    BY <2>1, <2>2 DEF Physical
  <2>7. QED BY <2>1, <2>3, <2>4, <2>5, <2>6 DEF Physical, Control
<1>2. CASE WriteFails(l, on)
  <2>1. mishaps' \in 0..MaxMishaps
    BY <1>2, BoundsAssumption DEF WriteFails, Mishap, Control
  <2>2. UNCHANGED <<shown, known, late>>
    BY <1>2 DEF WriteFails
  <2>3. CASE UNCHANGED <<lit, ledger>>
    BY <2>1, <2>2, <2>3 DEF Physical
  <2>4. ASSUME NEW d \in Written,
               lit' = [lit EXCEPT ![d] = IF on THEN @ \cup {l} ELSE @ \ {l}],
               ledger' = [ledger EXCEPT ![d][l] = IF on THEN "back" ELSE @]
        PROVE  Physical'
    <3>1. d \in Device
      BY <1>0
    <3>2. lit' \in [Device -> SUBSET Light]
      BY <2>4, <3>1 DEF Physical
    <3>3. ledger' \in [Device -> [Light -> {"free", "owed", "back", "given"}]]
      BY <2>4, <3>1 DEF Physical
    <3>4. QED BY <2>2, <3>2, <3>3 DEF Physical
  <2>5. QED BY <1>2, <2>1, <2>3, <2>4 DEF WriteFails
<1>3. QED BY <1>1, <1>2

LEMMA TypeStep ==
  ASSUME Physical, Control, [Next]_vars
  PROVE  Physical' /\ Control'
<1>0. /\ Nothing \in Record
      /\ Undrawn \in [Device -> Contents] /\ Unlit \in [Device -> SUBSET Light]
  BY NothingType DEF Undrawn, Unlit, Contents
<1> USE DEF session, entries, pass
<1>1. CASE Look
  BY <1>0, <1>1 DEF Look, Target, Physical, Control, Phases, physical, session, settings, runtime,
     history, bounds
<1>2. CASE NoSnapshot
  BY <1>0, <1>2 DEF NoSnapshot, Return, Forget, Physical, Control, Phases, physical, session,
     settings, runtime, history, bounds
<1>3. CASE TakeSnapshot
  <2>1. Current \in Device
    BY <1>3, CurrentType DEF TakeSnapshot, Ready
  <2>2. shown[Current] \in SUBSET Light
    BY <2>1 DEF Physical
  <2>3. QED BY <1>0, <1>3, <2>1, <2>2 DEF TakeSnapshot, Physical, Control, physical, session,
            settings, runtime, history, bounds
<1>4. CASE Commit
  BY <1>0, <1>4 DEF Commit, Forget, Physical, Control, Phases, physical, session, settings,
     history, bounds
<1>5. CASE Save
  <2>1. disk' \in Record /\ mishaps' \in 0..MaxMishaps
    BY <1>5, BoundsAssumption DEF Save, Mishap, Control, runtime
  <2>2. ledger' \in [Device -> [Light -> {"free", "owed", "back", "given"}]]
    BY <1>5 DEF Save, Physical
  <2>3. QED BY <1>0, <1>5, <2>1, <2>2 DEF Save, Return, Forget, Physical, Control, Phases, physical,
            session, settings, runtime
<1>6. ASSUME NEW l \in Light, SwitchOff(l) PROVE Physical' /\ Control'
  <2>1. (WriteOk(l, FALSE) \/ WriteFails(l, FALSE)) /\ UNCHANGED <<ready, stale, drawn, drawnLit>>
    BY <1>6 DEF SwitchOff
  <2>2. Physical' /\ mishaps' \in 0..MaxMishaps
    BY <2>1, WriteType
  <2>3. pc \in {"mouse", "receiver"} /\ dev \in Device
    BY <1>6 DEF SwitchOff, Light, Control
  <2>4. work' \in Record
    BY <1>6, <2>3 DEF SwitchOff, Control, Record
  <2>5. QED BY <1>6, <2>2, <2>3, <2>4 DEF SwitchOff, Step, Control, settings, runtime
<1>7. ASSUME NEW l \in Light, Restore(l) PROVE Physical' /\ Control'
  <2>1. (WriteOk(l, TRUE) \/ WriteFails(l, TRUE)) /\ UNCHANGED <<ready, stale, drawn, drawnLit>>
    BY <1>7 DEF Restore
  <2>2. Physical' /\ mishaps' \in 0..MaxMishaps
    BY <2>1, WriteType
  <2>3. pc \in {"mouse", "receiver"} /\ dev \in Device
    BY <1>7 DEF Restore, Light, Control
  <2>4. work' \in Record
    BY <1>7 DEF Restore, Control, Record
  <2>5. QED BY <1>7, <2>2, <2>3, <2>4 DEF Restore, Step, Control, settings, runtime
<1>8. ASSUME NEW l \in Light, KeepRecord(l) PROVE Physical' /\ Control'
  <2>1. work' \in Record
    BY <1>8 DEF KeepRecord, Control, Record
  <2>2. pc \in {"mouse", "receiver"} /\ dev \in Device
    BY <1>8 DEF KeepRecord, Light, Control
  <2>3. QED BY <1>8, <2>1, <2>2 DEF KeepRecord, Step, Physical, Control, physical, session,
            settings, runtime, history, bounds
<1>9. ASSUME NEW l \in Light, PassOver(l) PROVE Physical' /\ Control'
  <2>1. work' \in Record
    BY <1>9 DEF PassOver, Control, Record
  <2>2. pc \in {"mouse", "receiver"} /\ dev \in Device
    BY <1>9 DEF PassOver, Light, Control
  <2>3. QED BY <1>9, <2>1, <2>2 DEF PassOver, Step, Physical, Control, physical, session,
            settings, runtime, history, bounds
<1>10. CASE ChangeSettings
  BY <1>10, BoundsAssumption DEF ChangeSettings, Happens, Physical, Control, physical, session,
     runtime, transition, history
<1>11. CASE Restart
  <2>1. ledger' \in [Device -> [Light -> {"free", "owed", "back", "given"}]]
    BY <1>11 DEF Restart, Physical
  <2>2. mishaps' \in 0..MaxMishaps
    BY <1>11, BoundsAssumption DEF Restart, Mishap, Control
  <2>3. QED BY <1>0, <1>11, <2>1, <2>2 DEF Restart, Return, Forget, Physical, Control, Phases,
            physical, settings
<1>12. CASE Publish
  BY <1>0, <1>12 DEF Publish, Physical, Control, physical, settings, transition, history, bounds
<1>17. ASSUME NEW renewed \in SUBSET plugged, NEW complete \in SUBSET renewed,
              ReadDevices(complete, renewed)
       PROVE  Physical' /\ Control'
  <2>1. drawn' \in [Device -> Contents] /\ late' \in SUBSET Device
    BY <1>17 DEF ReadDevices, Physical, Contents
  <2>2. drawnLit' \in [Device -> SUBSET Light]
    BY <1>17 DEF ReadDevices, Physical
  <2>3. QED BY <1>17, <2>1, <2>2 DEF ReadDevices, Physical, Control, physical, settings, runtime,
            transition, history, bounds
<1>13. ASSUME NEW d \in Device, PlugOrUnplug(d) PROVE Physical' /\ Control'
  BY <1>13, BoundsAssumption DEF PlugOrUnplug, Happens, Physical, Control, session, settings,
     runtime, transition, history
<1>14. ASSUME NEW d \in Device, Select(d) PROVE Physical' /\ Control'
  BY <1>14, BoundsAssumption DEF Select, Happens, Physical, Control, physical, settings, runtime,
     transition, history
<1>15. ASSUME NEW d \in Device, NEW l \in Light, Touch(d, l) PROVE Physical' /\ Control'
  <2>1. lit' \in [Device -> SUBSET Light]
    <3>1. lit \in [Device -> SUBSET Light]
      BY DEF Physical
    <3>2. \/ lit' = [lit EXCEPT ![d] = lit[d] \ {l}]
          \/ lit' = [lit EXCEPT ![d] = lit[d] \cup {l}]
      BY <1>15 DEF Touch
    <3>3. lit[d] \ {l} \in SUBSET Light /\ lit[d] \cup {l} \in SUBSET Light
      BY <3>1
    <3>4. \A lights \in SUBSET Light : [lit EXCEPT ![d] = lights] \in [Device -> SUBSET Light]
      BY <3>1
    <3>5. QED BY <3>2, <3>3, <3>4
  <2>2. ledger' \in [Device -> [Light -> {"free", "owed", "back", "given"}]]
    BY <1>15 DEF Touch, Physical
  <2>3. QED BY <1>15, <2>1, <2>2, BoundsAssumption DEF Touch, Happens, Physical, Control, session,
            settings, runtime, transition
<1>16. CASE UNCHANGED vars
  BY <1>16 DEF vars, Physical, Control, physical, session, settings, runtime, transition, history,
     bounds
<1>18. QED
  BY <1>1, <1>2, <1>3, <1>4, <1>5, <1>6, <1>7, <1>8, <1>9, <1>10, <1>11, <1>12, <1>13, <1>14,
     <1>15, <1>16, <1>17, Zenon DEF Next, Scheduler

LEMMA TypeInit == Init => TypeOK
<1> SUFFICES ASSUME Init PROVE TypeOK
  OBVIOUS
<1>1. BoolOK
  BY Zenon DEF Init, BoolOK
<1>2. Physical
  BY SupportsAssumption DEF Init, Physical, Contents, Undrawn, Unlit
<1>3. Control
  BY NothingType, BoundsAssumption, AtFirstAssumption, FiledAssumption
  DEF Init, Control, Phases, Record
<1>4. QED BY <1>1, <1>2, <1>3, TypeParts

(* NightMode.TypeOK: whatever the devices, the user and the failures do, the
   records are of devices and every write is addressed to one. *)
THEOREM TypeCorrect == Spec => []TypeOK
<1>1. TypeOK /\ [Next]_vars => TypeOK'
  <2>1. SUFFICES ASSUME TypeOK, [Next]_vars PROVE TypeOK'
    OBVIOUS
  <2>2. BoolOK' /\ Physical' /\ Control'
    BY <2>1, TypeParts, BoolStep, TypeStep
  <2>3. QED BY <2>2, TypeParts, PTL
<1>2. QED BY TypeInit, <1>1, PTL DEF Spec

-----------------------------------------------------------------------------
(* The inductive invariant.  Each lemma assumes that the promise still holds
   after the step (~void'), and so before it. *)
keptVars == <<lit, entries, stale, pass, ledger, saved, disk, pc, transition>>
shownVars == <<known, shown, stale, drawn, drawnLit, late>>

LEMMA KeptStutter ==
  ASSUME Kept, UNCHANGED keptVars
  PROVE  Kept'
BY DEF Kept, LedgerSupported, OwedIsDark, EntriesAreTrue, DiskIsSaved, FileInLedger,
   RecordsPending, Pending, TodoAsSaved, Todo, DoneKept, keptVars, entries, pass, transition

(* The reader takes over what the lights are, or what an entry has said. *)
LEMMA KeptReader ==
  ASSUME Physical, Kept,
         Publish \/ \E renewed \in SUBSET plugged : \E complete \in SUBSET renewed :
                       ReadDevices(complete, renewed)
  PROVE  Kept'
<1>1. UNCHANGED <<lit, ledger, saved, disk, pc, transition>>
  BY DEF Publish, ReadDevices, physical, history, runtime
<1>2. EntriesAreTrue'
  <2>1. CASE Publish
    BY <1>1, <2>1 DEF Kept, EntriesAreTrue, Publish, Undrawn
  <2>2. ASSUME NEW renewed \in SUBSET plugged, NEW complete \in SUBSET renewed,
               ReadDevices(complete, renewed)
        PROVE  EntriesAreTrue'
    <3>1. UNCHANGED <<known, shown, stale>>
      BY <2>2 DEF ReadDevices
    <3>2. \A d \in Device : drawn'[d] = "full" => d \in complete \/ known[d] = "full"
      BY <2>2 DEF ReadDevices
    <3>3. \A d \in Device :
            /\ drawn'[d] = "full"
               => drawnLit'[d] = IF d \in renewed THEN lit[d] ELSE shown[d]
            /\ drawn'[d] = "full" /\ d \notin late' => d \notin stale \/ d \in renewed
      BY <2>2 DEF ReadDevices
    <3>4. QED BY <1>1, <2>2, <3>1, <3>2, <3>3 DEF Kept, EntriesAreTrue, OwedIsDark
  <2>3. QED BY <2>1, <2>2
<1>3. QED
  BY <1>1, <1>2 DEF Kept, LedgerSupported, OwedIsDark, DiskIsSaved, FileInLedger, RecordsPending,
     Pending, TodoAsSaved, Todo, DoneKept, transition

LEMMA KeptTouch ==
  ASSUME Physical, Kept, NEW c \in Device, NEW k \in Light, Touch(c, k)
  PROVE  Kept'
<1>1. \A d \in Device, l \in Light :
        /\ ledger'[d][l] = "free" <=> ledger[d][l] = "free"
        /\ ledger'[d][l] = "owed" => ledger[d][l] = "owed" /\ ~(d = c /\ l = k)
        /\ ledger'[d][l] = "given" => ledger[d][l] = "given"
        /\ ledger[d][l] \in {"owed", "back"} => ledger'[d][l] \in {"owed", "back"}
  BY DEF Touch, Physical
<1>2. UNCHANGED <<shownVars, saved, disk, pc, transition>>
  BY DEF Touch, session, entries, pass, shownVars, runtime
<1>3. LedgerSupported'
  BY <1>1 DEF Kept, LedgerSupported
<1>4. OwedIsDark' /\ EntriesAreTrue'
  BY <1>1, <1>2 DEF Kept, OwedIsDark, EntriesAreTrue, shownVars, Touch, Physical
<1>5. FileInLedger'
  BY <1>1, <1>2 DEF Kept, FileInLedger, transition
<1>6. RecordsPending'
  BY <1>1, <1>2 DEF Kept, RecordsPending, Pending, transition
<1>7. TodoAsSaved'
  <2>1. Todo' = Todo
    BY <1>2 DEF Todo
  <2>2. Todo \subseteq Light
    BY DEF Todo, Light
  <2>3. QED BY <1>1, <1>2, <2>1, <2>2 DEF Kept, TodoAsSaved, transition
<1>8. DoneKept'
  BY <1>1, <1>2 DEF Kept, DoneKept, Todo, transition
<1>9. QED BY <1>2, <1>3, <1>4, <1>5, <1>6, <1>7, <1>8 DEF Kept, DiskIsSaved

LEMMA KeptLook ==
  ASSUME Physical, Control, DeviceTaken, Kept, Look
  PROVE  Kept'
<1>1. pc = "idle" /\ dev = NoDevice /\ dev' = NoDevice /\ saved = disk
  BY DEF Look, Kept, DiskIsSaved, Control
<1>2. UNCHANGED <<lit, shownVars, ledger, saved, disk>>
  BY DEF Look, physical, session, entries, pass, shownVars, runtime, history
<1>3. Pending(saved) /\ Pending(Nothing)
  BY <1>1, DeviceAssumption DEF Kept, FileInLedger, Pending, Physical, Nothing
<1>4. RecordsPending'
  BY <1>2, <1>3 DEF Look, RecordsPending, Pending
<1>5. TodoAsSaved'
  BY <1>1, <1>2, DeviceAssumption DEF Look, TodoAsSaved, Todo, Target, Nothing, Light
<1>6. DoneKept'
  BY <1>1, DeviceAssumption DEF DoneKept
<1>7. QED
  BY <1>1, <1>2, <1>4, <1>5, <1>6
  DEF Kept, LedgerSupported, OwedIsDark, EntriesAreTrue, shownVars, DiskIsSaved, FileInLedger

LEMMA KeptNoSnapshot ==
  ASSUME DeviceTaken, Kept, NoSnapshot
  PROVE  Kept'
<1>1. dev = NoDevice /\ dev' = NoDevice /\ pc = "snapshot" /\ pc' = "idle"
  BY DEF NoSnapshot, Return, Forget, DeviceTaken
<1>2. UNCHANGED <<lit, shownVars, ledger, saved, disk>>
  BY DEF NoSnapshot, physical, session, entries, pass, shownVars, runtime, history
<1>3. QED
  BY <1>1, <1>2, DeviceAssumption DEF Kept, LedgerSupported, OwedIsDark, EntriesAreTrue, shownVars,
     DiskIsSaved, FileInLedger, RecordsPending, TodoAsSaved, Todo, DoneKept

LEMMA KeptTakeSnapshot ==
  ASSUME Physical, Control, DeviceTaken, Kept, TakeSnapshot, ~void'
  PROVE  Kept'
<1>0. known[Current] = "full" /\ Current \notin stale
  BY DEF TakeSnapshot
<1>1. /\ pc = "snapshot" /\ dev = NoDevice /\ dev' = Current /\ Current \in Device
      /\ seen' = shown[Current] /\ pc' \in {"mouse", "commit"}
      /\ work' \in {work, Nothing} /\ (pc' = "mouse" => work' = work)
  BY CurrentType DEF TakeSnapshot, Ready, DeviceTaken
<1>2. UNCHANGED <<lit, shownVars, ledger, saved, disk, goal, wanted, before, failed>>
  BY DEF TakeSnapshot, physical, session, entries, pass, shownVars, runtime
<1>3. FileInLedger' /\ saved = disk
  BY <1>1, <1>2, DeviceAssumption DEF Kept, FileInLedger, DiskIsSaved
<1>4. RecordsPending'
  BY <1>1, <1>2, DeviceAssumption DEF Kept, RecordsPending, Pending, Nothing
<1>5. TodoAsSaved'
  <2>1. CASE pc' = "commit"
    BY <2>1 DEF TodoAsSaved, Todo
  <2>2. CASE pc' = "mouse"
    <3>1. Todo = Light /\ Todo' = Light
      BY <1>1, <2>2 DEF Todo
    <3>2. QED
      BY <1>0, <1>1, <1>2, <1>3, <2>2, <3>1, DeviceAssumption
      DEF Kept, TodoAsSaved, FileInLedger, EntriesAreTrue
  <2>3. QED BY <1>1, <2>1, <2>2
<1>6. DoneKept'
  <2>1. CASE pc' = "commit"
    <3>1. wanted \cap Supports[Current] = {}
      BY <1>0, <2>1 DEF TakeSnapshot
    <3>2. QED BY <1>1, <1>2, <3>1 DEF Kept, LedgerSupported, DoneKept
  <2>2. CASE pc' = "mouse"
    BY <2>2 DEF DoneKept, Todo
  <2>3. QED BY <1>1, <2>1, <2>2
<1>7. QED
  BY <1>1, <1>2, <1>3, <1>4, <1>5, <1>6
  DEF Kept, LedgerSupported, OwedIsDark, EntriesAreTrue, shownVars, DiskIsSaved

LEMMA KeptCommit ==
  ASSUME Kept, Commit
  PROVE  Kept'
<1>1. pc = "commit" /\ pc' = "save" /\ saved' = IF goal = "Day" /\ ~failed THEN Nothing ELSE work
  BY DEF Commit
<1>2. UNCHANGED <<lit, shownVars, ledger, disk, wanted, dev>>
  BY DEF Commit, physical, session, entries, pass, shownVars, history
<1>3. RecordsPending'
  BY <1>1, <1>2, DeviceAssumption DEF Kept, RecordsPending, Pending, Nothing
<1>4. TodoAsSaved'
  BY <1>1 DEF TodoAsSaved, Todo
<1>5. DoneKept'
  BY <1>1, <1>2 DEF Kept, DoneKept, Todo
<1>6. QED
  BY <1>1, <1>2, <1>3, <1>4, <1>5
  DEF Kept, LedgerSupported, OwedIsDark, EntriesAreTrue, shownVars, DiskIsSaved, FileInLedger

LEMMA KeptSave ==
  ASSUME Physical, Kept, Save, ~void'
  PROVE  Kept'
<1>1. pc = "save" /\ pc' = "idle" /\ dev' = NoDevice /\ disk' = saved
  BY DEF Save, Return, Forget
<1>2. UNCHANGED <<lit, shownVars, saved>>
  BY DEF Save, physical, session, entries, pass, shownVars, runtime
<1>3. \A d \in Device, l \in Light :
        ledger'[d][l] = IF saved[l] = d THEN ledger[d][l] ELSE "free"
  BY <1>1 DEF Save
<1>4. FileInLedger'
  BY <1>1, <1>3 DEF Kept, FileInLedger, RecordsPending, Pending
<1>5. LedgerSupported' /\ OwedIsDark' /\ EntriesAreTrue'
  BY <1>2, <1>3 DEF Kept, LedgerSupported, OwedIsDark, EntriesAreTrue, shownVars
<1>6. QED
  BY <1>1, <1>2, <1>4, <1>5, DeviceAssumption DEF Kept, DiskIsSaved, RecordsPending, TodoAsSaved,
     Todo, DoneKept

LEMMA KeptRestart ==
  ASSUME Physical, Kept, Restart
  PROVE  Kept'
<1>1. pc' = "idle" /\ dev' = NoDevice /\ saved' = disk /\ disk' = disk /\ lit' = lit
  BY DEF Restart, Return, Forget, physical
<1>2. \A d \in Device, l \in Light :
        /\ shown'[d] = {} /\ drawn'[d] = "absent"
        /\ ledger'[d][l] = IF disk[l] # d THEN "free"
                            ELSE IF ledger[d][l] = "given" THEN "back" ELSE ledger[d][l]
  BY DEF Restart, Undrawn, Unlit
<1>3. FileInLedger'
  BY <1>1, <1>2 DEF Kept, FileInLedger
<1>4. LedgerSupported' /\ OwedIsDark' /\ EntriesAreTrue'
  BY <1>1, <1>2 DEF Kept, LedgerSupported, OwedIsDark, EntriesAreTrue
<1>5. QED
  BY <1>1, <1>3, <1>4, DeviceAssumption DEF Kept, DiskIsSaved, RecordsPending, TodoAsSaved, Todo,
     DoneKept

(* A step deals with one light, and leaves the others to be dealt with. *)
LEMMA StepTodo ==
  ASSUME NEW l \in Light, pc = l, Step
  PROVE  /\ l \in Todo /\ Todo' = Todo \ {l} /\ Todo \subseteq Light
         /\ pc \in {"mouse", "receiver"} /\ pc' \in {"receiver", "commit"}
BY DEF Step, Todo, Light

LEMMA KeptSwitchOff ==
  ASSUME Physical, Control, DraftOfPass, Kept, NEW l \in Light, SwitchOff(l), ~void'
  PROVE  Kept'
<1>1. /\ l \in Todo /\ Todo' = Todo \ {l} /\ Todo \subseteq Light
      /\ pc \in {"mouse", "receiver"} /\ pc' \in {"receiver", "commit"} /\ dev \in Device
  BY StepTodo DEF SwitchOff, Control
<1>2. UNCHANGED <<saved, disk, goal, wanted, before, dev, seen>>
  BY DEF SwitchOff, runtime
<1>3. goal = "Night" /\ l \in Supports[dev] /\ work[l] = NoDevice /\ l \in seen
  BY DEF SwitchOff, OffCandidate
<1>4. ledger[dev][l] # "owed"
  BY <1>1, <1>3 DEF Kept, TodoAsSaved
<1>5. CASE WriteOk(l, FALSE) /\ work' = [work EXCEPT ![l] = dev]
  <2>1. /\ lit' = [lit EXCEPT ![dev] = @ \ {l}]
        /\ shown' = [shown EXCEPT ![dev] = @ \ {l}]
        /\ known' = [known EXCEPT ![dev] = IF @ = "absent" THEN "partial" ELSE @]
        /\ late' = IF reading THEN late \cup {dev} ELSE late
        /\ ledger' = [ledger EXCEPT ![dev][l] = "owed"]
        /\ UNCHANGED <<stale, drawn, drawnLit>>
    BY <1>5 DEF WriteOk, SwitchOff
  <2>2. \A d \in Device, k \in Light :
          ledger'[d][k] = IF d = dev /\ k = l THEN "owed" ELSE ledger[d][k]
    BY <1>1, <2>1 DEF Physical
  <2>3. \A k \in Light : work'[k] = IF k = l THEN dev ELSE work[k]
    BY <1>5 DEF Control, Record
  <2>4. LedgerSupported'
    BY <1>3, <2>2 DEF Kept, LedgerSupported
  <2>5. OwedIsDark'
    BY <1>1, <2>1, <2>2 DEF Kept, OwedIsDark, Physical
  <2>11. EntriesAreTrue'
    <3>1. \A d \in Device :
            /\ known'[d] = "full" => known[d] = "full"
            /\ shown'[d] = IF d = dev THEN shown[d] \ {l} ELSE shown[d]
            /\ d \notin late' => d \notin late
      BY <2>1 DEF Physical
    <3>2. dev \notin late' => drawn[dev] # "full"
      BY <1>1, <2>1 DEF DraftOfPass
    <3>3. ASSUME NEW d \in Device, NEW k \in Light, ledger'[d][k] = "owed"
          PROVE  /\ known'[d] = "full" /\ d \notin stale' => k \notin shown'[d]
                 /\ drawn'[d] = "full" /\ d \notin late' => k \notin drawnLit'[d]
      <4>1. CASE d = dev /\ k = l
        BY <2>1, <3>1, <3>2, <4>1
      <4>2. CASE ~(d = dev /\ k = l)
        <5>1. ledger[d][k] = "owed"
          BY <2>2, <3>3, <4>2
        <5>2. QED BY <2>1, <3>1, <5>1 DEF Kept, EntriesAreTrue
      <4>3. QED BY <4>1, <4>2
    <3>4. QED BY <3>3 DEF EntriesAreTrue
  <2>6. FileInLedger' /\ DiskIsSaved'
    BY <1>1, <1>2, <2>2 DEF Kept, FileInLedger, DiskIsSaved
  <2>7. RecordsPending'
    BY <1>1, <1>2, <2>2, <2>3 DEF Kept, RecordsPending, Pending
  <2>8. TodoAsSaved'
    BY <1>1, <1>2, <2>2, <2>3 DEF Kept, TodoAsSaved
  <2>9. DoneKept'
    BY <1>1, <1>2, <1>3, <2>2, <2>3 DEF Kept, DoneKept, Phases
  <2>10. QED BY <2>4, <2>5, <2>6, <2>7, <2>8, <2>9, <2>11 DEF Kept
<1>6. CASE WriteFails(l, FALSE) /\ UNCHANGED work
  <2>1. UNCHANGED shownVars /\ ledger' = ledger
    BY <1>6 DEF WriteFails, SwitchOff, shownVars, Physical
  <2>2. \A d \in Device : lit'[d] \subseteq lit[d]
    BY <1>6 DEF WriteFails, Physical
  <2>3. OwedIsDark' /\ EntriesAreTrue'
    BY <2>1, <2>2 DEF Kept, OwedIsDark, EntriesAreTrue, shownVars
  <2>4. TodoAsSaved'
    BY <1>1, <1>2, <1>6, <2>1 DEF Kept, TodoAsSaved
  <2>5. DoneKept'
    BY <1>1, <1>2, <1>3, <1>4, <1>6, <2>1 DEF Kept, DoneKept
  <2>6. QED
    BY <1>1, <1>2, <1>6, <2>1, <2>3, <2>4, <2>5
    DEF Kept, LedgerSupported, FileInLedger, DiskIsSaved, RecordsPending, Pending
<1>7. QED BY <1>5, <1>6 DEF SwitchOff

LEMMA KeptKeepRecord ==
  ASSUME Physical, Control, Kept, NEW l \in Light, KeepRecord(l)
  PROVE  Kept'
<1>1. /\ l \in Todo /\ Todo' = Todo \ {l} /\ Todo \subseteq Light
      /\ pc \in {"mouse", "receiver"} /\ pc' \in {"receiver", "commit"} /\ dev \in Device
  BY StepTodo DEF KeepRecord, Control
<1>2. UNCHANGED <<lit, shownVars, ledger, saved, disk, goal, wanted, before, dev, seen>>
  BY DEF KeepRecord, physical, session, entries, pass, shownVars, runtime, history
<1>3. goal = "Night" /\ work[l] = NoDevice
  BY DEF KeepRecord, OffCandidate
<1>4. \A k \in Light :
        work'[k] = IF k = l /\ Matches(before[l], dev) THEN before[l] ELSE work[k]
  BY DEF KeepRecord, Control, Record
<1>5. ledger[dev][l] = "owed" => before[l] = dev /\ Matches(before[l], dev)
  BY <1>1, <1>3, DeviceAssumption DEF Kept, TodoAsSaved, Matches
<1>6. RecordsPending'
  BY <1>1, <1>2, <1>3, <1>4 DEF Kept, RecordsPending, Pending
<1>7. TodoAsSaved'
  BY <1>1, <1>2, <1>4 DEF Kept, TodoAsSaved
<1>8. DoneKept'
  BY <1>1, <1>2, <1>3, <1>4, <1>5 DEF Kept, DoneKept
<1>9. QED
  BY <1>1, <1>2, <1>6, <1>7, <1>8
  DEF Kept, LedgerSupported, OwedIsDark, EntriesAreTrue, shownVars, FileInLedger, DiskIsSaved

LEMMA KeptRestore ==
  ASSUME Physical, Control, Kept, NEW l \in Light, Restore(l), ~void'
  PROVE  Kept'
<1>1. /\ l \in Todo /\ Todo' = Todo \ {l} /\ Todo \subseteq Light
      /\ pc \in {"mouse", "receiver"} /\ pc' \in {"receiver", "commit"} /\ dev \in Device
  BY StepTodo DEF Restore, Control
<1>2. UNCHANGED <<saved, disk, goal, wanted, before, dev, seen>>
  BY DEF Restore, runtime
<1>3. goal = "Day" /\ l \in Supports[dev] /\ disk = saved
  BY <1>1 DEF Restore, Decision, Kept, DiskIsSaved
<1>4. /\ work[l] = dev => ledger[dev][l] \in {"owed", "back"}
      /\ ledger[dev][l] = "owed" => work[l] = dev
  BY <1>1, <1>3 DEF Kept, RecordsPending, Pending, TodoAsSaved
<1>5. CASE WriteOk(l, TRUE) /\ work' = [work EXCEPT ![l] = NoDevice]
  <2>1. /\ lit' = [lit EXCEPT ![dev] = @ \cup {l}]
        /\ shown' = [shown EXCEPT ![dev] = IF known[dev] = "full" THEN @ \cup {l} ELSE @ \ {l}]
        /\ known' = [known EXCEPT ![dev] = IF @ = "absent" THEN "partial" ELSE @]
        /\ late' = IF reading THEN late \cup {dev} ELSE late
        /\ ledger' = [ledger EXCEPT ![dev][l] = "given"]
        /\ UNCHANGED <<failed, stale, drawn, drawnLit>>
        /\ work[l] = dev
    BY <1>5 DEF WriteOk, Restore
  <2>2. \A d \in Device, k \in Light :
          ledger'[d][k] = IF d = dev /\ k = l THEN "given" ELSE ledger[d][k]
    BY <1>1, <2>1 DEF Physical
  <2>3. \A k \in Light : work'[k] = IF k = l THEN NoDevice ELSE work[k]
    BY <1>5 DEF Control, Record
  <2>4. LedgerSupported'
    BY <1>3, <2>2 DEF Kept, LedgerSupported
  <2>5. OwedIsDark'
    BY <1>1, <2>1, <2>2 DEF Kept, OwedIsDark, Physical
  <2>11. EntriesAreTrue'
    <3>1. \A d \in Device :
            /\ known'[d] = "full" => known[d] = "full"
            /\ d # dev => shown'[d] = shown[d]
            /\ d = dev => shown'[d] \subseteq shown[d] \cup {l}
            /\ d \notin late' => d \notin late
      BY <1>1, <2>1 DEF Physical
    <3>2. QED BY <2>1, <2>2, <3>1 DEF Kept, EntriesAreTrue
  <2>6. FileInLedger' /\ DiskIsSaved'
    BY <1>1, <1>2, <1>3, <1>4, <2>1, <2>2 DEF Kept, FileInLedger, DiskIsSaved
  <2>7. RecordsPending'
    BY <1>1, <1>2, <1>3, <2>1, <2>2, <2>3, DeviceAssumption DEF Kept, RecordsPending, Pending
  <2>8. TodoAsSaved'
    BY <1>1, <1>2, <2>2, <2>3 DEF Kept, TodoAsSaved
  <2>9. DoneKept'
    BY <1>1, <1>2, <1>3, <2>1, <2>2, <2>3 DEF Kept, DoneKept
  <2>10. QED BY <2>4, <2>5, <2>6, <2>7, <2>8, <2>9, <2>11 DEF Kept
<1>6. CASE WriteFails(l, TRUE) /\ UNCHANGED work
  <2>1. /\ UNCHANGED shownVars /\ failed' = TRUE
        /\ \/ UNCHANGED <<lit, ledger>>
           \/ /\ lit' = [lit EXCEPT ![dev] = @ \cup {l}]
              /\ ledger' = [ledger EXCEPT ![dev][l] = "back"]
              /\ work[l] = dev
    BY <1>6 DEF WriteFails, Restore, shownVars
  <2>2. \A d \in Device, k \in Light :
          \/ ledger'[d][k] = ledger[d][k] /\ (k \in lit'[d] <=> k \in lit[d])
          \/ /\ ledger'[d][k] = "back" /\ d = dev /\ k = l
             /\ work[l] = dev
    BY <1>1, <2>1 DEF Physical
  <2>3. LedgerSupported' /\ OwedIsDark' /\ EntriesAreTrue'
    BY <1>3, <2>1, <2>2 DEF Kept, LedgerSupported, OwedIsDark, EntriesAreTrue, shownVars
  <2>4. FileInLedger' /\ DiskIsSaved'
    BY <1>1, <1>2, <1>3, <1>4, <2>2 DEF Kept, FileInLedger, DiskIsSaved
  <2>5. RecordsPending'
    BY <1>1, <1>2, <1>3, <1>6, <2>2 DEF Kept, RecordsPending, Pending
  <2>6. TodoAsSaved'
    BY <1>1, <1>2, <1>6, <2>2 DEF Kept, TodoAsSaved
  <2>7. DoneKept'
    BY <1>1, <1>2, <1>3, <1>4, <1>6, <2>1, <2>2 DEF Kept, DoneKept
  <2>8. QED BY <2>3, <2>4, <2>5, <2>6, <2>7 DEF Kept
<1>7. QED BY <1>5, <1>6 DEF Restore

LEMMA KeptPassOver ==
  ASSUME Physical, Control, Kept, NEW l \in Light, PassOver(l)
  PROVE  Kept'
<1>1. /\ l \in Todo /\ Todo' = Todo \ {l} /\ Todo \subseteq Light
      /\ pc \in {"mouse", "receiver"} /\ pc' \in {"receiver", "commit"} /\ dev \in Device
  BY StepTodo DEF PassOver, Control
<1>2. UNCHANGED <<lit, shownVars, ledger, saved, disk, goal, wanted, before, dev, seen, failed>>
  BY DEF PassOver, physical, session, entries, pass, shownVars, runtime, history
<1>3. \A k \in Light : work'[k] \in {work[k], NoDevice} /\ (k # l => work'[k] = work[k])
  BY DEF PassOver, Control, Record
<1>4. ledger[dev][l] = "owed" => saved[l] = dev /\ l \in Supports[dev]
  BY <1>1 DEF Kept, TodoAsSaved, LedgerSupported
<1>5. ledger[dev][l] = "owed" /\ l \in wanted => goal = "Night" /\ work'[l] = dev
  <2>1. CASE goal = "Night"
    BY <1>1, <1>4, <2>1, DeviceAssumption DEF PassOver, OffCandidate, Kept, TodoAsSaved
  <2>2. CASE goal = "Day"
    BY <1>1, <1>4, <2>2, DeviceAssumption DEF PassOver, Decision, Matches, Kept, TodoAsSaved
  <2>3. QED BY <2>1, <2>2 DEF Control, Phases
<1>6. RecordsPending'
  BY <1>1, <1>2, <1>3, DeviceAssumption DEF Kept, RecordsPending, Pending
<1>7. TodoAsSaved'
  BY <1>1, <1>2, <1>3 DEF Kept, TodoAsSaved
<1>8. DoneKept'
  BY <1>1, <1>2, <1>3, <1>5 DEF Kept, DoneKept
<1>9. QED
  BY <1>1, <1>2, <1>6, <1>7, <1>8
  DEF Kept, LedgerSupported, OwedIsDark, EntriesAreTrue, shownVars, FileInLedger, DiskIsSaved

(* A device is taken with its snapshot and let go at the end. *)
LEMMA DeviceTakenStep ==
  ASSUME DeviceTaken, [Next]_vars
  PROVE  DeviceTaken'
<1> USE DEF DeviceTaken, transition
<1>1. CASE Look \/ NoSnapshot \/ TakeSnapshot \/ Commit \/ Save
  BY <1>1 DEF Look, NoSnapshot, TakeSnapshot, Commit, Save, Return, Forget
<1>2. ASSUME NEW l \in Light, SwitchOff(l) \/ KeepRecord(l) \/ Restore(l) \/ PassOver(l)
      PROVE  DeviceTaken'
  BY <1>2 DEF SwitchOff, KeepRecord, Restore, PassOver, Step
<1>3. CASE Restart \/ ChangeSettings
  BY <1>3 DEF Restart, ChangeSettings, Return, Forget
<1>4. ASSUME Publish \/ \E renewed \in SUBSET plugged : \E complete \in SUBSET renewed :
                        ReadDevices(complete, renewed)
      PROVE  DeviceTaken'
  BY <1>4 DEF Publish, ReadDevices
<1>5. ASSUME NEW d \in Device, PlugOrUnplug(d) \/ Select(d) PROVE DeviceTaken'
  BY <1>5 DEF PlugOrUnplug, Select
<1>6. ASSUME NEW d \in Device, NEW l \in Light, Touch(d, l) PROVE DeviceTaken'
  BY <1>6 DEF Touch
<1>7. CASE UNCHANGED vars
  BY <1>7 DEF vars
<1>8. QED BY <1>1, <1>2, <1>3, <1>4, <1>5, <1>6, <1>7, Zenon DEF Next, Scheduler

(* A draft is begun with a pass and gone after it. *)
LEMMA DraftOfPassStep ==
  ASSUME DraftOfPass, [Next]_vars
  PROVE  DraftOfPass'
<1> USE DEF DraftOfPass
<1>1. ASSUME UNCHANGED <<reading, drawn>> PROVE DraftOfPass'
  BY <1>1
<1>2. CASE Publish \/ Restart
  BY <1>2 DEF Publish, Restart, Undrawn
<1>3. ASSUME NEW renewed \in SUBSET plugged, NEW complete \in SUBSET renewed,
             ReadDevices(complete, renewed)
      PROVE  DraftOfPass'
  BY <1>3 DEF ReadDevices
<1>4. CASE Look \/ NoSnapshot \/ TakeSnapshot \/ Commit \/ Save
  BY <1>1, <1>4 DEF Look, NoSnapshot, TakeSnapshot, Commit, Save, session, pass
<1>5. ASSUME NEW l \in Light, SwitchOff(l) \/ KeepRecord(l) \/ Restore(l) \/ PassOver(l)
      PROVE  DraftOfPass'
  BY <1>1, <1>5 DEF SwitchOff, KeepRecord, Restore, PassOver, session, pass
<1>6. ASSUME ChangeSettings \/ \E d \in Device : PlugOrUnplug(d) \/ Select(d)
                                             \/ \E l \in Light : Touch(d, l)
      PROVE  DraftOfPass'
  BY <1>1, <1>6 DEF ChangeSettings, PlugOrUnplug, Select, Touch, session, pass
<1>7. CASE UNCHANGED vars
  BY <1>1, <1>7 DEF vars, session, pass
<1>8. QED BY <1>2, <1>3, <1>4, <1>5, <1>6, <1>7, Zenon DEF Next, Scheduler

(* What is void stays so. *)
LEMMA VoidStays ==
  ASSUME BoolOK, [Next]_vars, void
  PROVE  void'
<1> USE DEF history
<1>1. CASE Look \/ NoSnapshot \/ TakeSnapshot \/ Commit \/ Save
  BY <1>1, Zenon DEF Look, NoSnapshot, TakeSnapshot, Commit, Save
<1>2. ASSUME NEW l \in Light, SwitchOff(l) \/ Restore(l) PROVE void'
  BY <1>2, Zenon DEF SwitchOff, Restore, WriteOk, WriteFails
<1>3. ASSUME NEW l \in Light, KeepRecord(l) \/ PassOver(l) PROVE void'
  BY <1>3, Zenon DEF KeepRecord, PassOver
<1>4. CASE Restart \/ ChangeSettings
  BY <1>4, Zenon DEF Restart, ChangeSettings
<1>5. ASSUME Publish \/ \E renewed \in SUBSET plugged : \E complete \in SUBSET renewed :
                        ReadDevices(complete, renewed)
      PROVE  void'
  BY <1>5, Zenon DEF Publish, ReadDevices
<1>6. ASSUME NEW d \in Device, PlugOrUnplug(d) \/ Select(d) PROVE void'
  BY <1>6, Zenon DEF PlugOrUnplug, Select
<1>7. ASSUME NEW d \in Device, NEW l \in Light, Touch(d, l) PROVE void'
  BY <1>7, Zenon DEF Touch
<1>8. CASE UNCHANGED vars
  BY <1>8, Zenon DEF vars
<1>9. QED BY <1>1, <1>2, <1>3, <1>4, <1>5, <1>6, <1>7, <1>8, Zenon DEF Next, Scheduler

LEMMA KeptInit == Init => Kept
  <1>1. Init => \A d \in Device : \A l \in Light : disk[l] # d
    BY DeviceAssumption, FiledAssumption DEF Init
  <1>2. QED
    BY <1>1, DeviceAssumption DEF Init, Kept, LedgerSupported, OwedIsDark, EntriesAreTrue,
       DiskIsSaved, FileInLedger, RecordsPending, Todo, TodoAsSaved, DoneKept

(* No step of night mode breaks Kept, as long as the promise holds. *)
LEMMA KeptStep ==
  ASSUME IInv, [Next]_vars, ~void'
  PROVE  Kept'
<1>0. Physical /\ Control /\ DeviceTaken /\ DraftOfPass /\ Kept
  <2>1. BoolOK /\ Physical /\ Control
    BY TypeParts DEF IInv
  <2>2. ~void
    BY <2>1, VoidStays
  <2>3. QED BY <2>1, <2>2 DEF IInv
<1>1. CASE Look
  BY <1>0, <1>1, KeptLook
<1>2. CASE NoSnapshot
  BY <1>0, <1>2, KeptNoSnapshot
<1>3. CASE TakeSnapshot
  BY <1>0, <1>3, KeptTakeSnapshot
<1>4. CASE Commit
  BY <1>0, <1>4, KeptCommit
<1>5. CASE Save
  BY <1>0, <1>5, KeptSave
<1>6. ASSUME NEW l \in Light, SwitchOff(l) PROVE Kept'
  BY <1>0, <1>6, KeptSwitchOff
<1>7. ASSUME NEW l \in Light, KeepRecord(l) PROVE Kept'
  BY <1>0, <1>7, KeptKeepRecord
<1>8. ASSUME NEW l \in Light, Restore(l) PROVE Kept'
  BY <1>0, <1>8, KeptRestore
<1>9. ASSUME NEW l \in Light, PassOver(l) PROVE Kept'
  BY <1>0, <1>9, KeptPassOver
<1>10. CASE ChangeSettings
  <2>1. UNCHANGED keptVars
    BY <1>10 DEF ChangeSettings, keptVars, physical, session, runtime, history
  <2>2. QED BY <1>0, <2>1, KeptStutter
<1>11. CASE Restart
  BY <1>0, <1>11, KeptRestart
<1>12. ASSUME Publish \/ \E renewed \in SUBSET plugged : \E complete \in SUBSET renewed :
                        ReadDevices(complete, renewed)
      PROVE  Kept'
  BY <1>0, <1>12, KeptReader
<1>13. ASSUME NEW d \in Device, PlugOrUnplug(d) \/ Select(d) PROVE Kept'
  <2>1. UNCHANGED keptVars
    BY <1>13 DEF PlugOrUnplug, Select, keptVars, physical, session, entries, pass, runtime, history
  <2>2. QED BY <1>0, <2>1, KeptStutter
<1>14. ASSUME NEW d \in Device, NEW l \in Light, Touch(d, l) PROVE Kept'
  BY <1>0, <1>14, KeptTouch
<1>15. CASE UNCHANGED vars
  <2>1. UNCHANGED keptVars
    BY <1>15 DEF vars, keptVars, physical, session, runtime, history
  <2>2. QED BY <1>0, <2>1, KeptStutter
<1>16. QED
  BY <1>1, <1>2, <1>3, <1>4, <1>5, <1>6, <1>7, <1>8, <1>9, <1>10, <1>11, <1>12, <1>13, <1>14,
     <1>15, Zenon DEF Next, Scheduler

(* The invariant is inductive. *)
LEMMA Inductive == Spec => []IInv
<1>1. Init => IInv
  BY TypeInit, KeptInit DEF IInv, Init, DeviceTaken, DraftOfPass, Undrawn
<1>2. IInv /\ [Next]_vars => IInv'
  <2>1. SUFFICES ASSUME IInv, [Next]_vars PROVE IInv'
    OBVIOUS
  <2>2. BoolOK /\ Physical /\ Control /\ DeviceTaken /\ DraftOfPass
    BY <2>1, TypeParts DEF IInv
  <2>3. BoolOK' /\ Physical' /\ Control'
    BY <2>1, <2>2, BoolStep, TypeStep
  <2>4. DeviceTaken' /\ DraftOfPass'
    BY <2>1, <2>2, DeviceTakenStep, DraftOfPassStep
  <2>5. ~void' => Kept'
    BY <2>1, KeptStep
  <2>6. TypeOK'
    BY <2>3, TypeParts, PTL
  <2>7. QED BY <2>4, <2>5, <2>6 DEF IInv
<1>3. QED BY <1>1, <1>2, PTL DEF Spec

-----------------------------------------------------------------------------
(* Every step of night mode is a step of the promise, or none. *)

LEMMA ErasesAtSave ==
  ASSUME Physical, Kept, Save, ~void'
  PROVE  Promise!Finish
<1>1. pc = "save" /\ dev' = NoDevice /\ wanted' = {} /\ disk' = saved /\ void' = void
  BY DEF Save, Return, Forget
<1>2. \A d \in Device, l \in Light :
        ledger'[d][l] = IF saved[l] = d THEN ledger[d][l] ELSE "free"
  BY <1>1 DEF Save
<1>3. ledger' \in [Device -> [Light -> {"free", "owed", "back", "given"}]]
  BY DEF Save, Physical
<1>4. \A d \in Device, l \in Light :
        \/ ledger'[d][l] = ledger[d][l]
        \/ /\ ledger'[d][l] = "free"
           /\ ledger[d][l] = "owed" => d # dev \/ l \notin wanted
  BY <1>1, <1>2 DEF Kept, DoneKept, Todo
<1>5. Unfiled' = {}
  BY <1>1 DEF Unfiled
<1>6. QED BY <1>1, <1>3, <1>4, <1>5 DEF Promise!Finish, Promise!Erase, Save, physical

LEMMA ErasesAtRestart ==
  ASSUME BoolOK, Physical, Kept, Restart
  PROVE  Promise!Crash
<1>1. dev' = NoDevice /\ wanted' = {} /\ lit' = lit /\ void' = void
  BY DEF Restart, Return, Forget, physical
<1>2. \A d \in Device, l \in Light :
        ledger'[d][l] = IF disk[l] # d THEN "free"
                        ELSE IF ledger[d][l] = "given" THEN "back" ELSE ledger[d][l]
  BY DEF Restart
<1>3. ledger' \in [Device -> [Light -> {"free", "owed", "back", "given"}]]
  BY DEF Restart, Physical
<1>4. \A d \in Device, l \in Light :
        \/ ledger'[d][l] = IF ledger[d][l] = "given" THEN "back" ELSE ledger[d][l]
        \/ ledger'[d][l] = "free" /\ (ledger[d][l] = "owed" => d = dev /\ l \in Unfiled)
  BY <1>2, DeviceAssumption DEF Kept, FileInLedger, Unfiled
<1>5. Unfiled' = {}
  BY <1>1 DEF Unfiled
<1>6. QED BY <1>1, <1>3, <1>4, <1>5 DEF Promise!Crash, Promise!Erase

(* A write that counts is one to the device that is dealt with. *)
LEMMA WriteEffect ==
  ASSUME Physical, NEW l \in Light, NEW on \in BOOLEAN, ~void',
         WriteOk(l, on) \/ WriteFails(l, on)
  PROVE  \/ UNCHANGED <<lit, ledger>>
         \/ /\ lit' = [lit EXCEPT ![dev] = IF on THEN @ \cup {l} ELSE @ \ {l}]
            /\ ledger' \in {ledger, [ledger EXCEPT ![dev][l] = "owed"]} /\ ~on
         \/ /\ lit' = [lit EXCEPT ![dev] = IF on THEN @ \cup {l} ELSE @ \ {l}]
            /\ ledger' \in {[ledger EXCEPT ![dev][l] = s] : s \in {"given", "back"}}
            /\ on /\ work[l] = dev
<1>1. CASE WriteOk(l, on)
  BY <1>1 DEF WriteOk
<1>2. CASE WriteFails(l, on)
  <2>1. [ledger EXCEPT ![dev][l] = @] = ledger
    BY DEF Physical
  <2>2. QED BY <1>2, <2>1 DEF WriteFails
<1>3. QED BY <1>1, <1>2

LEMMA WriteKeepsPromise ==
  ASSUME Physical, NEW l \in Light, NEW on \in BOOLEAN, dev \in Device, wanted' = wanted,
         dev' = dev, disk' = disk, ~void', void' = void, WriteOk(l, on) \/ WriteFails(l, on),
         on /\ work[l] = dev => ledger[dev][l] \in {"owed", "back"}
  PROVE  \/ Promise!SwitchOff(dev, l) \/ Promise!SwitchOn(dev, l)
         \/ UNCHANGED Promise!vars
<1>0. dev # NoDevice
  BY DeviceAssumption
<1>1. CASE UNCHANGED <<lit, ledger>>
  <2>1. Unfiled' = Unfiled
    BY <1>1 DEF Unfiled
  <2>2. QED BY <1>1, <2>1 DEF Promise!vars
<1>2. CASE ~on /\ lit' = [lit EXCEPT ![dev] = @ \ {l}]
           /\ ledger' \in {ledger, [ledger EXCEPT ![dev][l] = "owed"]}
  <2>1. \A k \in Light : k # l => ledger'[dev][k] = ledger[dev][k]
    BY <1>2 DEF Physical
  <2>2. ledger' = ledger \/ ledger'[dev][l] = "owed"
    BY <1>2 DEF Physical
  <2>3. Unfiled' \in {Unfiled, Unfiled \cup {l}}
    <3>1. CASE ledger' = ledger
      BY <3>1 DEF Unfiled
    <3>2. CASE ledger'[dev][l] = "owed"
      BY <1>0, <2>1, <3>2 DEF Unfiled
    <3>3. QED BY <2>2, <3>1, <3>2
  <2>4. QED BY <1>2, <2>3 DEF Promise!SwitchOff
<1>3. CASE on /\ work[l] = dev /\ lit' = [lit EXCEPT ![dev] = @ \cup {l}]
           /\ ledger' \in {[ledger EXCEPT ![dev][l] = s] : s \in {"given", "back"}}
  <2>1. \A k \in Light : k # l => ledger'[dev][k] = ledger[dev][k]
    BY <1>3 DEF Physical
  <2>2. ledger'[dev][l] # "owed"
    BY <1>3 DEF Physical
  <2>3. Unfiled' = Unfiled \ {l}
    BY <1>0, <2>1, <2>2 DEF Unfiled
  <2>4. QED BY <1>3, <2>3 DEF Promise!SwitchOn
<1>4. QED BY <1>1, <1>2, <1>3, WriteEffect

LEMMA StepKeepsPromise ==
  ASSUME IInv, [Next]_vars
  PROVE  [Promise!Next]_(Promise!vars)
<1>0. CASE void'
  BY <1>0 DEF Promise!Next
<1> SUFFICES ASSUME ~void' PROVE [Promise!Next]_(Promise!vars)
  BY <1>0
<1>1. BoolOK /\ Physical /\ Control /\ DeviceTaken /\ Kept /\ void' = void
  <2>1. BoolOK /\ Physical /\ Control
    BY TypeParts DEF IInv
  <2>2. ~void
    BY <2>1, VoidStays
  <2>3. void' = void
    BY <2>1, <2>2, BoolStep, Zenon DEF BoolOK
  <2>4. QED BY <2>1, <2>2, <2>3 DEF IInv
<1>2. Control'
  BY <1>1, TypeStep
<1>3. CASE Look \/ NoSnapshot \/ TakeSnapshot
  <2>1. dev = NoDevice /\ UNCHANGED <<lit, ledger, disk, void>>
    BY <1>1, <1>3 DEF Look, NoSnapshot, TakeSnapshot, DeviceTaken, physical, history
  <2>2. Unfiled = {} /\ Unfiled' = {}
    <3>1. dev' \in Device \cup {NoDevice}
      BY <1>2 DEF Control
    <3>2. QED BY <1>1, <2>1, <3>1 DEF Unfiled, Kept, FileInLedger
  <2>3. Promise!Begin
    BY <1>2, <2>1, <2>2 DEF Promise!Begin, Control
  <2>4. QED BY <2>3 DEF Promise!Next
<1>4. CASE Save
  BY <1>1, <1>4, ErasesAtSave DEF Promise!Next
<1>5. CASE Restart
  BY <1>1, <1>5, ErasesAtRestart DEF Promise!Next
<1>6. ASSUME NEW l \in Light, SwitchOff(l) PROVE [Promise!Next]_(Promise!vars)
  <2>1. /\ dev \in Device /\ wanted' = wanted /\ dev' = dev /\ disk' = disk
        /\ WriteOk(l, FALSE) \/ WriteFails(l, FALSE)
    BY <1>1, <1>6 DEF SwitchOff, Control, Light
  <2>2. QED BY <1>1, <2>1, WriteKeepsPromise DEF Promise!Next
<1>7. ASSUME NEW l \in Light, Restore(l) PROVE [Promise!Next]_(Promise!vars)
  <2>1. /\ dev \in Device /\ wanted' = wanted /\ dev' = dev /\ disk' = disk
        /\ WriteOk(l, TRUE) \/ WriteFails(l, TRUE)
    BY <1>1, <1>7 DEF Restore, Control, Light
  <2>2. work[l] = dev => ledger[dev][l] \in {"owed", "back"}
    <3>1. pc \notin {"idle", "save"}
      BY <1>7 DEF Restore, Light
    <3>2. QED BY <1>1, <2>1, <3>1 DEF Kept, RecordsPending, Pending
  <2>3. QED BY <1>1, <2>1, <2>2, WriteKeepsPromise DEF Promise!Next
<1>8. ASSUME NEW d \in Device, NEW l \in Light, Touch(d, l)
      PROVE  [Promise!Next]_(Promise!vars)
  <2>1. \A c \in Device, k \in Light :
          ledger'[c][k] = IF c = d /\ k = l /\ ledger[c][k] # "free" THEN "back" ELSE ledger[c][k]
    BY <1>1, <1>8 DEF Touch, Physical
  <2>2. Unfiled' = IF d = dev THEN Unfiled \ {l} ELSE Unfiled
    BY <1>1, <1>8, <2>1 DEF Touch, Unfiled, transition, Control
  <2>3. Promise!Touch(d, l)
    BY <1>8, <2>2 DEF Touch, Promise!Touch, transition
  <2>4. QED BY <2>3 DEF Promise!Next
<1>9. ASSUME UNCHANGED <<lit, ledger, void, disk, dev, wanted>>
      PROVE  UNCHANGED Promise!vars
  BY <1>9 DEF Promise!vars, Unfiled
<1>10. CASE Commit \/ ChangeSettings
  BY <1>9, <1>10 DEF Commit, ChangeSettings, physical, history, transition
<1>11. ASSUME NEW l \in Light, KeepRecord(l) \/ PassOver(l) PROVE [Promise!Next]_(Promise!vars)
  BY <1>9, <1>11 DEF KeepRecord, PassOver, physical, history
<1>12. ASSUME Publish \/ \E renewed \in SUBSET plugged : \E complete \in SUBSET renewed :
                        ReadDevices(complete, renewed)
      PROVE  [Promise!Next]_(Promise!vars)
  BY <1>9, <1>12 DEF Publish, ReadDevices, physical, history, transition
<1>13. ASSUME NEW d \in Device, PlugOrUnplug(d) \/ Select(d) PROVE [Promise!Next]_(Promise!vars)
  BY <1>9, <1>13 DEF PlugOrUnplug, Select, physical, history, transition
<1>14. CASE UNCHANGED vars
  BY <1>9, <1>14 DEF vars, physical, history, transition
<1>15. QED
  BY <1>3, <1>4, <1>5, <1>6, <1>7, <1>8, <1>10, <1>11, <1>12, <1>13, <1>14, Zenon
  DEF Next, Scheduler

(* NightMode.KeepsPromise: with any number of devices, failures and restarts,
   night mode switches on only what it had switched off, once, and forgets no
   light of the device it is dealing with. *)
THEOREM Implements == Spec => KeepsPromise
<1>1. Init => Promise!Init
  BY SupportsAssumption DEF Init, Promise!Init, Unfiled
<1>2. QED
  BY <1>1, Inductive, StepKeepsPromise, PTL DEF Spec, KeepsPromise, Promise!Spec
=============================================================================
