--------------------------- MODULE MCBatteryHistory ---------------------------
(***************************************************************************)
(* A small instance of BatteryHistory: a mouse that has a name on its      *)
(* cable and another one on its receiver, until its plugin reports an      *)
(* identity that has both for aliases.                                     *)
(***************************************************************************)
EXTENDS BatteryHistory

CONSTANTS cable, receiver, unified, p1, p2

MCDevice == {cable, receiver, unified}
MCOne == {p1}

Name(d) == <<"name", d>>
Id(d) == <<"id", d>>

MCTags ==
    [d \in MCDevice |-> {Id(d), Name(d)}
         \cup IF d = unified THEN {Name(cable), Name(receiver)} ELSE {}]

MCKey == [d \in MCDevice |-> Name(d)]
MCLegacyKey == [d \in MCDevice |-> Id(d)]

Alike == Permutations({cable, receiver})

(* The devices of a pass: the unified one, or the other two at once, which a
   later sample of the unified one joins. *)
MCPass == {<<unified>>, <<cable, receiver>>, <<receiver, cable>>}

(* Two scenarios, each with up to two samples to come: a start over a file of an
   older version, with a restart, a failing write or a clock that is set back,
   and a fresh installation in which predictions are built. *)
MCInit ==
    /\ Init
    /\ clock = 3 /\ clears = MaxClears
    /\ \/ mishaps = MaxMishaps /\ builds = 0
          /\ file # NoFile /\ Len(file.samples) = 2 /\ file.old
       \/ mishaps = 0 /\ builds = MaxBuilds /\ file = NoFile

MCSpec == MCInit /\ [][Next]_vars
=============================================================================
