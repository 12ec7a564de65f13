------------------------------ MODULE ReadPlan ------------------------------
(***************************************************************************)
(* The read-strength lattice of the device reader and the pure functions   *)
(* that pick the plan of a pass (src-tauri/src/lib.rs).  No state: the     *)
(* reader modules take it with INSTANCE.                                   *)
(***************************************************************************)
EXTENDS Integers, FiniteSets

(* `enum ReadPlan`, weakest first; the derive(Ord) order is the rank. *)
Plans == {"PresenceOnly", "BatteryOnly", "Quick", "Inventory", "Full"}

(* `Option<ReadPlan>::None`. *)
NoPlan == "NoPlan"
OptPlans == Plans \cup {NoPlan}

Rank == [PresenceOnly |-> 0, BatteryOnly |-> 1, Quick |-> 2, Inventory |-> 3,
         Full |-> 4, NoPlan |-> -1]

Stronger(p, q) == IF Rank[p] >= Rank[q] THEN p ELSE q

(* `ReadPlan::uses_projection`. *)
UsesProjection(p) == p \in {"BatteryOnly", "Quick", "Inventory"}

(* request_refresh_with_plan: what the forced-plan slot holds afterwards. *)
Merge(pending, plan) == IF pending = NoPlan THEN plan ELSE Stronger(pending, plan)

(* `enum SnapshotReadiness`; NotSeen is the absent map entry. *)
Levels == {"Detected", "Quick", "Inventory", "DegradedFull", "Full"}
NotSeen == "NotSeen"
LevelRank == [NotSeen |-> 0, Detected |-> 1, Quick |-> 2, Inventory |-> 3,
              DegradedFull |-> 4, Full |-> 5]

(* The readiness of a path only ever goes up while the path stays known. *)
Raise(current, next) == IF LevelRank[next] > LevelRank[current] THEN next ELSE current

NeedsInitialFull(level) == level \in {"Detected", "Quick", "Inventory"}

(* readiness is a function from device paths to Levels \cup {NotSeen}. *)
Initializing(readiness) == \E d \in DOMAIN readiness : NeedsInitialFull(readiness[d])

(* Mutant of NextInitialReadPlan: a device that was only enumerated waits. *)
NextAfterQuick(readiness) ==
    IF \E d \in DOMAIN readiness : readiness[d] \in {"Quick", "Inventory"} THEN "Full" ELSE NoPlan

NextInitialReadPlan(readiness) == IF Initializing(readiness) THEN "Full" ELSE NoPlan

SkipAlreadyComplete(readiness, d, plan) ==
    /\ plan = "Full"
    /\ Initializing(readiness)
    /\ readiness[d] # NotSeen
    /\ ~NeedsInitialFull(readiness[d])

(* initial plan and forced plan win over observation, which wins over the
   battery cadence; nothing at all leaves an enumeration. *)
SelectReadPlan(connected, initial, forced, observing, batteryDue) ==
    CASE initial # NoPlan /\ forced # NoPlan -> Stronger(initial, forced)
      [] initial # NoPlan /\ forced = NoPlan -> initial
      [] initial = NoPlan /\ forced # NoPlan -> forced
      [] OTHER -> CASE connected /\ observing   -> "Quick"
                    [] connected /\ ~observing /\ batteryDue -> "BatteryOnly"
                    [] OTHER -> "PresenceOnly"

(* Mutant of ChooseReadPlan: the burst swallows whatever was requested. *)
ChooseReadPlanSwallowing(connected, initial, forced, observing, batteryDue, burst, pending) ==
    LET requested == SelectReadPlan(connected, initial, forced, observing, batteryDue)
    IN  IF burst THEN "Quick"
        ELSE IF pending /\ requested = "PresenceOnly" THEN "BatteryOnly" ELSE requested

(* A window of fast detection reads Quick unless something stronger was asked
   for; outside of it a pending mouse turns an enumeration into BatteryOnly. *)
ChooseReadPlan(connected, initial, forced, observing, batteryDue, burst, pending) ==
    LET requested == SelectReadPlan(connected, initial, forced, observing, batteryDue)
    IN  IF burst
        THEN IF forced # NoPlan /\ Rank[forced] > Rank["Quick"] THEN forced ELSE "Quick"
        ELSE IF pending /\ requested = "PresenceOnly" THEN "BatteryOnly" ELSE requested

(* Full and Inventory go through the 500 ms read debounce, and so does a
   degraded device's one retry. *)
UseCachedRead(plan, cacheHit, retryPending) ==
    cacheHit /\ ~retryPending /\ plan \notin {"Full", "Inventory"}

(* Mutant of WithholdMouseReady: BatteryOnly reads are forgotten. *)
WithholdOnQuick(plan, previous, next) ==
    plan = "Quick" /\ previous = "offline" /\ next = "ready"

(* mouse_ready values: None, Some(false), Some(true). *)
WithholdMouseReady(plan, previous, next) ==
    plan # "Full" /\ previous = "offline" /\ next = "ready"
=============================================================================
