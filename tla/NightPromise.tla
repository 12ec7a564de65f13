----------------------------- MODULE NightPromise -----------------------------
(***************************************************************************)
(* What night mode promises about other people's lights, without saying    *)
(* how: it switches a light on only if it had switched that very light off *)
(* before, it does so once, and while it deals with a device it forgets     *)
(* none of the lights it owes to that device.  NightMode implements it.    *)
(*                                                                         *)
(* A light is "free" (night mode has nothing to do with it), "owed" (it    *)
(* was switched off and nobody has touched it since), "back" (somebody     *)
(* has, or it came on behind an error, and the record of it is not erased) *)
(* or "given" (night mode has switched it on again, and the record is not  *)
(* erased yet).                                                            *)
(***************************************************************************)
CONSTANTS Device, NoDevice, Light

VARIABLES
    lit,        \* the lights that are on, of each device
    ledger,     \* the state of each light of each device
    busy,       \* the device that is being dealt with
    wanted,     \* the lights that the user wants dark at night
    unfiled,    \* the lights it owes to that device of which no file tells yet
    void        \* a case in which nothing is promised any more, see NightMode

vars == <<lit, ledger, busy, wanted, unfiled, void>>

Init ==
    /\ lit \in [Device -> SUBSET Light]
    /\ ledger = [d \in Device |-> [l \in Light |-> "free"]]
    /\ busy = NoDevice /\ wanted = {} /\ unfiled = {} /\ void = FALSE

(* Begin with a device, or look at the wishes of the user first. *)
Begin ==
    /\ busy = NoDevice
    /\ busy' \in Device \cup {NoDevice} /\ wanted' \in SUBSET Light
    /\ UNCHANGED <<lit, ledger, unfiled, void>>

(* The switch is believed, or took effect behind an error. *)
SwitchOff(d, l) ==
    /\ busy = d
    /\ lit' = [lit EXCEPT ![d] = @ \ {l}]
    /\ ledger' \in {ledger, [ledger EXCEPT ![d][l] = "owed"]}
    /\ unfiled' \in {unfiled, unfiled \cup {l}}
    /\ UNCHANGED <<busy, wanted, void>>

SwitchOn(d, l) ==
    /\ busy = d /\ ledger[d][l] \in {"owed", "back"}
    /\ lit' = [lit EXCEPT ![d] = @ \cup {l}]
    /\ ledger' \in {[ledger EXCEPT ![d][l] = s] : s \in {"given", "back"}}
    /\ unfiled' = unfiled \ {l}
    /\ UNCHANGED <<busy, wanted, void>>

(* The user and the devices do as they please. *)
Touch(d, l) ==
    /\ lit' \in {[lit EXCEPT ![d] = @ \ {l}], [lit EXCEPT ![d] = @ \cup {l}]}
    /\ ledger' = [ledger EXCEPT ![d][l] = IF @ = "free" THEN @ ELSE "back"]
    /\ unfiled' = IF d = busy THEN unfiled \ {l} ELSE unfiled
    /\ UNCHANGED <<busy, wanted, void>>

(* Records are erased; an owed light is forgotten only if it is excused. *)
Erase(excused, kept) ==
    /\ ledger' \in [Device -> [Light -> {"free", "owed", "back", "given"}]]
    /\ \A d \in Device, l \in Light :
          \/ ledger'[d][l] = kept[d][l]
          \/ ledger'[d][l] = "free" /\ (ledger[d][l] = "owed" => <<d, l>> \in excused)
    /\ busy' = NoDevice /\ wanted' = {} /\ unfiled' = {} /\ UNCHANGED <<lit, void>>

(* The end of dealing with a device: what is owed to another device, or a
   light the user does not want dark any more, may be forgotten. *)
Finish == Erase({p \in Device \X Light : p[1] # busy \/ p[2] \notin wanted}, ledger)

(* The program stops: what has just been switched off may be forgotten, and
   what has just been given back may be given back again. *)
Crash ==
    Erase({busy} \X unfiled,
          [d \in Device |-> [l \in Light |->
              IF ledger[d][l] = "given" THEN "back" ELSE ledger[d][l]]])

Next ==
    \/ Begin \/ Finish \/ Crash
    \/ \E d \in Device, l \in Light : SwitchOff(d, l) \/ SwitchOn(d, l) \/ Touch(d, l)
    \/ void'      \* nothing is promised any more

Spec == Init /\ [][Next]_vars
=============================================================================
