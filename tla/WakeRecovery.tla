---------------------------- MODULE WakeRecovery ----------------------------
(***************************************************************************)
(* Bounded wake recovery (src-tauri/src/lib.rs).  A wireless mouse that    *)
(* sleeps behind its receiver leaves the receiver's path "armed".  A real  *)
(* idle -> active edge of the system pointer then starts a batch of at     *)
(* most four protocol probes: a settle probe and RetryDelays retries.      *)
(*                                                                         *)
(* Three threads share the state, each step below being one critical       *)
(* section of the code: the device reader (readerPc), the pointer watcher  *)
(* (pointerPc), and whoever reports hotplug, system wake, unlock, window   *)
(* focus or a user's refresh (requesterPc).                                *)
(***************************************************************************)
EXTENDS Integers, FiniteSets

CONSTANTS
    Path,        \* device paths whose plugin declares a wake-recovery contract
    RetryDelays, \* WAKE_RECOVERY_RETRY_DELAYS.len(), 3 in the source
    MaxBatches,  \* MAX_WAKE_RECOVERY_BATCHES_PER_EPISODE, 2 in the source
    MaxEdges     \* bound on the pointer's idle -> active edges (TLC)

ASSUME BoundsAssumption == RetryDelays \in Nat /\ MaxBatches \in Nat /\ MaxEdges \in Nat

RP == INSTANCE ReadPlan

(* The settle probe and the retries. *)
ProbesPerBatch == RetryDelays + 1

VARIABLES
    armed,          \* WakeRecoveryState.armed_paths
    pending,        \* ... .pending: NoBatch or [attempt, due]
    pointerActive,  \* ... .pointer_active
    generation,     \* ... .activity_generation
    consumed,       \* ... .consumed_generation, None as -1
    batches,        \* ... .batches_started
    forced,         \* SessionState.forced_read_plan
    signal,         \* a () queued in the reader's channel
    readerPc,
    plan,           \* plan of the running pass
    probing,        \* wake_probe_due of the running pass
    matched,        \* paths the running pass enumerated
    todo,           \* those of them it has still to visit
    known,          \* paths in SessionState.last_snapshot
    covered,        \* the reader's current wait ends when the pending probe is due
    edgeActive,     \* ActivityEdges.active of the pointer watcher
    pointerPc,
    requesterPc,
    job,            \* what the requester is reporting
    eligible,       \* paths it has read out of last_snapshot and not armed yet
    edges,          \* history: idle -> active edges seen by the recovery state
    probes,         \* history: probe passes started
    episodeProbes   \* history: probe passes of the current missing-device episode

recovery == <<armed, pending, pointerActive, generation, consumed, batches>>
reader == <<readerPc, plan, probing, matched, todo, known>>
pointer == <<edgeActive, pointerPc>>
requester == <<requesterPc, job, eligible>>
history == <<edges, probes, episodeProbes>>
vars == <<recovery, forced, signal, reader, covered, pointer,
          requester, history>>

NoBatch == [attempt |-> 0, due |-> FALSE, on |-> FALSE]
Batch(attempt, due) == [attempt |-> attempt, due |-> due, on |-> TRUE]
Jobs == {"hotplug", "wake", "wakeWithUnlock", "unlock", "refresh", "focus"}

-----------------------------------------------------------------------------
(* Pieces of the critical sections on the wake_recovery mutex. *)

(* Mutant of DisarmTo: the last path leaves and its batch stays. *)
DisarmToKeepingBatch(left) ==
    /\ armed' = left
    /\ UNCHANGED pending
    /\ IF left = {} THEN batches' = 0 /\ episodeProbes' = 0
                    ELSE UNCHANGED <<batches, episodeProbes>>

(* `if armed_paths.is_empty() { pending = None; batches_started = 0 }`. *)
DisarmTo(left) ==
    /\ armed' = left
    /\ IF left = {}
       THEN pending' = NoBatch /\ batches' = 0 /\ episodeProbes' = 0
       ELSE UNCHANGED <<pending, batches, episodeProbes>>

(* A path that starts missing while nothing was armed opens a new episode. *)
Arm(p) ==
    /\ armed' = armed \cup {p}
    /\ IF armed = {}
       THEN batches' = 0 /\ episodeProbes' = 0
       ELSE UNCHANGED <<batches, episodeProbes>>

(* Mutant of CanSchedule: the consumed generation is not checked. *)
CanScheduleSameEdge == pointerActive /\ armed # {} /\ ~pending.on /\ batches < MaxBatches

(* The conditions of try_schedule_wake_recovery. *)
CanSchedule ==
    /\ pointerActive
    /\ armed # {}
    /\ ~pending.on
    /\ consumed # generation
    /\ batches < MaxBatches

(* try_schedule_wake_recovery up to its unlock; the caller sends the signal. *)
Schedule ==
    /\ pending' = Batch(0, FALSE)
    /\ consumed' = generation
    /\ batches' = batches + 1
    /\ covered' = FALSE
    /\ UNCHANGED <<armed, pointerActive, generation>>

-----------------------------------------------------------------------------
Init ==
    /\ armed = {} /\ pending = NoBatch /\ pointerActive = FALSE
    /\ generation = 0 /\ consumed = -1 /\ batches = 0
    /\ forced = RP!NoPlan /\ signal = FALSE
    /\ readerPc = "top" /\ plan = "PresenceOnly" /\ probing = FALSE
    /\ matched = {} /\ todo = {} /\ known = {}
    /\ covered = FALSE
    /\ edgeActive = FALSE /\ pointerPc = "idle"
    /\ requesterPc = "idle" /\ job = "none" /\ eligible = {}
    /\ edges = 0 /\ probes = 0 /\ episodeProbes = 0

-----------------------------------------------------------------------------
(* The device reader. *)

(* Loop top of spawn_device_reader and the enumeration of read_device_once:
   take the forced plan, look whether a probe is due, choose the plan, list
   the devices.  The pass will read the paths of todo; the others it skips
   (backoff, the 500 ms debounce, a peer's initial Full).  The inputs of the
   choice that this module does not track are taken as they come; BatteryOnly
   acts like Quick here, so the battery cadence is not one of them. *)
StartPass ==
    /\ readerPc = "top"
    /\ LET due == pending.on /\ pending.due
       IN  /\ \E initial \in {RP!NoPlan, "Full"}, burst \in BOOLEAN :
                plan' = RP!ChooseReadPlan(known # {}, initial, forced, due, FALSE,
                                          burst, burst)
           /\ probing' = due
           /\ probes' = IF due THEN probes + 1 ELSE probes
           /\ episodeProbes' = IF due THEN episodeProbes + 1 ELSE episodeProbes
    /\ forced' = RP!NoPlan
    /\ \/ /\ matched' \in SUBSET Path
          /\ todo' \in SUBSET (IF plan' = "PresenceOnly" THEN {} ELSE matched')
          /\ readerPc' = "visit"
       \/ /\ readerPc' = "finish"             \* the enumeration failed: PreserveLast
          /\ UNCHANGED <<matched, todo>>
    /\ UNCHANGED <<recovery, signal, known, covered, pointer, requester, edges>>

(* mark_wake_recovery_observation with the component present, or on a
   connection without a contract (then nothing counts as recovered). *)
VisitPresent(p, contract) ==
    /\ readerPc = "visit" /\ p \in todo
    /\ todo' = todo \ {p}
    /\ DisarmTo(armed \ {p})
    /\ IF contract /\ p \in armed /\ plan # "Full"
       THEN readerPc' = "recovered"
       ELSE UNCHANGED readerPc
    /\ UNCHANGED <<pointerActive, generation, consumed, forced, signal,
                   plan, probing, matched, known, covered, pointer, requester, edges,
                   probes>>

(* The missing -> present edge asks for exactly one Full. *)
RequestFullAfterRecovery ==
    /\ readerPc = "recovered"
    /\ forced' = RP!Merge(forced, "Full")
    /\ signal' = TRUE
    /\ readerPc' = "visit"
    /\ UNCHANGED <<recovery, plan, probing, matched, todo, known, covered,
                   pointer, requester, history>>

(* The component is absent from an answer, or the read failed outright:
   arm the path, release the lock, then try to schedule. *)
VisitMissing(p) ==
    /\ readerPc = "visit" /\ p \in todo
    /\ todo' = todo \ {p}
    /\ Arm(p)
    /\ readerPc' = "schedule"
    /\ UNCHANGED <<pending, pointerActive, generation, consumed, forced,
                   signal, plan, probing, matched, known, covered, pointer, requester,
                   edges, probes>>

(* try_schedule_wake_recovery on the reader's thread. *)
ReaderSchedule ==
    /\ readerPc = "schedule"
    /\ IF CanSchedule
       THEN Schedule /\ signal' = TRUE
       ELSE UNCHANGED <<recovery, covered, signal>>
    /\ readerPc' = "visit"
    /\ UNCHANGED <<forced, plan, probing, matched, todo, known, pointer,
                   requester, history>>

(* End of the pass with nothing matched: clear_snapshots. *)
Clear ==
    /\ readerPc = "visit" /\ todo = {} /\ matched = {}
    /\ known' = {}
    /\ armed' = {} /\ pending' = NoBatch /\ pointerActive' = FALSE
    /\ generation' = 0 /\ consumed' = -1 /\ batches' = 0
    /\ episodeProbes' = 0
    /\ readerPc' = "finish"
    /\ UNCHANGED <<forced, signal, plan, probing, matched, todo, covered,
                   pointer, requester, edges, probes>>

(* End of the pass with devices: retain_wake_recovery_paths on the paths that
   have a snapshot to publish.  None has one: PreserveLast, nothing changes. *)
Publish ==
    /\ readerPc = "visit" /\ todo = {} /\ matched # {}
    /\ \E entries \in SUBSET matched :
          /\ matched \cap known \subseteq entries
          /\ IF entries = {}
             THEN UNCHANGED <<armed, pending, batches, episodeProbes, known>>
             ELSE DisarmTo(armed \cap entries) /\ known' = entries
    /\ matched' = {}
    /\ readerPc' = "finish"
    /\ UNCHANGED <<pointerActive, generation, consumed, forced, signal,
                   plan, probing, todo, covered, pointer, requester,
                   edges, probes>>

(* Mutant of FinishProbe: every pass restarts the delay of the pending probe. *)
FinishProbePostponing ==
    /\ readerPc = "finish"
    /\ pending' = IF ~pending.on THEN pending
                  ELSE IF ~probing THEN Batch(pending.attempt, FALSE)
                  ELSE IF armed = {} \/ pending.attempt = RetryDelays THEN NoBatch
                  ELSE Batch(pending.attempt + 1, FALSE)
    /\ probing' = FALSE
    /\ plan' = "PresenceOnly"
    /\ readerPc' = "wait"
    /\ UNCHANGED <<armed, pointerActive, generation, consumed, batches,
                   forced, signal, matched, todo, known, covered, pointer,
                   requester, history>>

(* Mutant of FinishProbe: `<=` where the table of delays has run out. *)
FinishProbeOneMore ==
    /\ readerPc = "finish"
    /\ pending' = IF ~probing \/ ~pending.on THEN pending
                  ELSE IF armed = {} \/ pending.attempt > RetryDelays THEN NoBatch
                  ELSE Batch(pending.attempt + 1, FALSE)
    /\ probing' = FALSE
    /\ plan' = "PresenceOnly"
    /\ readerPc' = "wait"
    /\ UNCHANGED <<armed, pointerActive, generation, consumed, batches,
                   forced, signal, matched, todo, known, covered, pointer,
                   requester, history>>

(* finish_wake_recovery_probe, when the pass began with a probe due. *)
FinishProbe ==
    /\ readerPc = "finish"
    /\ pending' = IF ~probing \/ ~pending.on THEN pending
                  ELSE IF armed = {} \/ pending.attempt = RetryDelays THEN NoBatch
                  ELSE Batch(pending.attempt + 1, FALSE)
    /\ probing' = FALSE
    /\ plan' = "PresenceOnly"
    /\ readerPc' = "wait"
    /\ UNCHANGED <<armed, pointerActive, generation, consumed, batches,
                   forced, signal, matched, todo, known, covered, pointer,
                   requester, history>>

(* wake_recovery_wait: the wait is cut to the pending probe's due time. *)
StartWait ==
    /\ readerPc = "wait"
    /\ covered' = pending.on
    /\ readerPc' = "waiting"
    /\ UNCHANGED <<recovery, forced, signal, plan, probing, matched,
                   todo, known, pointer, requester, history>>

(* recv_timeout returns: a signal (all queued ones are drained), the cut wait
   ran out, or the base interval did. *)
WakeUp ==
    /\ readerPc = "waiting"
    /\ signal' = FALSE
    /\ covered' = FALSE
    /\ readerPc' = "top"
    /\ UNCHANGED <<recovery, forced, plan, probing, matched, todo,
                   known, pointer, requester, history>>

Reader ==
    \/ StartPass
    \/ \E p \in Path : \/ \E contract \in BOOLEAN : VisitPresent(p, contract)
                       \/ VisitMissing(p)
    \/ RequestFullAfterRecovery \/ ReaderSchedule
    \/ Clear \/ Publish \/ FinishProbe \/ StartWait \/ WakeUp

-----------------------------------------------------------------------------
(* The pointer watcher: ActivityEdges::observe and note_system_pointer_activity. *)

PointerIdle ==
    /\ pointerPc = "idle" /\ edgeActive
    /\ edgeActive' = FALSE
    /\ pointerActive' = FALSE
    /\ UNCHANGED <<armed, pending, generation, consumed, batches, forced,
                   signal, reader, covered, pointerPc, requester, history>>

PointerMoves ==
    /\ pointerPc = "idle" /\ ~edgeActive
    /\ edges < MaxEdges
    /\ edgeActive' = TRUE
    /\ pointerActive' = TRUE
    /\ generation' = IF pointerActive THEN generation ELSE generation + 1
    /\ edges' = IF pointerActive THEN edges ELSE edges + 1
    /\ IF pending.on
       THEN consumed' = generation' /\ UNCHANGED pointerPc
       ELSE pointerPc' = "schedule" /\ UNCHANGED consumed
    /\ UNCHANGED <<armed, pending, batches, forced, signal, reader,
                   covered, requester, probes, episodeProbes>>

(* Mutant of PointerSchedule: the batch is recorded and nobody is woken. *)
PointerScheduleQuietly ==
    /\ pointerPc = "schedule"
    /\ IF CanSchedule THEN Schedule ELSE UNCHANGED <<recovery, covered>>
    /\ pointerPc' = "idle"
    /\ UNCHANGED <<forced, signal, reader, edgeActive, requester, history>>

(* try_schedule_wake_recovery on the watcher's thread. *)
PointerSchedule ==
    /\ pointerPc = "schedule"
    /\ IF CanSchedule
       THEN Schedule /\ pointerPc' = "send"
       ELSE UNCHANGED <<recovery, covered>> /\ pointerPc' = "idle"
    /\ UNCHANGED <<forced, signal, reader, edgeActive, requester, history>>

PointerSend ==
    /\ pointerPc = "send"
    /\ signal' = TRUE
    /\ pointerPc' = "idle"
    /\ UNCHANGED <<recovery, forced, reader, covered, edgeActive,
                   requester, history>>

Pointer == PointerIdle \/ PointerMoves \/ PointerSchedule \/ PointerSend

-----------------------------------------------------------------------------
(* Hotplug watcher, handle_system_wake_state, handle_system_unlock_state,
   device_refresh and the window-focus Presence request. *)

RequestOf == [hotplug |-> "PresenceOnly", wake |-> "PresenceOnly", unlock |-> "Quick",
              focus |-> "PresenceOnly", refresh |-> "Full"]

(* reset_wake_recovery_episode: a fresh activity edge is required. *)
ResetEpisode(j) ==
    /\ requesterPc = "idle" /\ j \in {"hotplug", "wake", "wakeWithUnlock", "unlock"}
    /\ pending' = NoBatch /\ pointerActive' = FALSE /\ batches' = 0
    /\ episodeProbes' = 0
    /\ requesterPc' = IF j = "hotplug" THEN "request" ELSE "collect"
    /\ job' = j
    /\ UNCHANGED <<armed, generation, consumed, forced, signal, reader, covered,
                   pointer, eligible, edges, probes>>

(* arm_wake_recovery_after_system_wake: the paths that have a snapshot and whose
   plugin declares a contract, read under one lock and armed under another. *)
CollectAfterWake ==
    /\ requesterPc = "collect"
    /\ eligible' \in SUBSET known
    /\ requesterPc' = "arm"
    /\ UNCHANGED <<recovery, forced, signal, reader, covered, pointer, job, history>>

(* With wake_on_unlock the wake handler leaves the read to the unlock event. *)
ArmAfterWake ==
    /\ requesterPc = "arm"
    /\ armed' = armed \cup eligible /\ eligible' = {}
    /\ IF job = "wakeWithUnlock"
       THEN requesterPc' = "idle" /\ job' = "none"
       ELSE requesterPc' = "request" /\ UNCHANGED job
    /\ UNCHANGED <<pending, pointerActive, generation, consumed, batches, forced,
                   signal, reader, covered, pointer, history>>

(* request_refresh_with_plan: the plan is in place before the signal is sent. *)
RequestPlan(j) ==
    /\ \/ requesterPc = "request" /\ j = job
       \/ requesterPc = "idle" /\ j \in {"focus", "refresh"}
    /\ forced' = RP!Merge(forced, RequestOf[j])
    /\ requesterPc' = "send" /\ job' = "none"
    /\ UNCHANGED <<recovery, signal, reader, covered, pointer, eligible, history>>

SendSignal ==
    /\ requesterPc = "send"
    /\ signal' = TRUE
    /\ requesterPc' = "idle"
    /\ UNCHANGED <<recovery, forced, reader, covered, pointer, job, eligible, history>>

Requester ==
    \/ \E j \in Jobs : ResetEpisode(j) \/ RequestPlan(j)
    \/ CollectAfterWake \/ ArmAfterWake \/ SendSignal

-----------------------------------------------------------------------------
(* Time: the pending probe's due_at passes. *)
ProbeDue ==
    /\ pending.on /\ ~pending.due
    /\ pending' = [pending EXCEPT !.due = TRUE]
    /\ UNCHANGED <<armed, pointerActive, generation, consumed, batches,
                   forced, signal, reader, covered, pointer, requester, history>>

Next == Reader \/ Pointer \/ Requester \/ ProbeDue

Spec == Init /\ [][Next]_vars

(* The reader loops for ever, the watcher finishes what it began, time passes. *)
FairSpec == Spec /\ WF_vars(Reader) /\ WF_vars(ProbeDue)
                 /\ WF_vars(PointerSchedule \/ PointerSend)

-----------------------------------------------------------------------------
(* Properties. *)

ReaderPcs == {"top", "visit", "schedule", "recovered",
              "finish", "wait", "waiting"}

(* The type invariant of the module. *)
TypeOK ==
    /\ armed \subseteq Path
    /\ pending \in [attempt : 0 .. RetryDelays, due : BOOLEAN, on : BOOLEAN]
    /\ pointerActive \in BOOLEAN
    /\ generation \in Nat
    /\ consumed \in Nat \cup {-1}
    /\ batches \in 0 .. MaxBatches
    /\ forced \in RP!OptPlans
    /\ signal \in BOOLEAN
    /\ readerPc \in ReaderPcs
    /\ plan \in RP!Plans
    /\ probing \in BOOLEAN
    /\ matched \subseteq Path /\ todo \subseteq matched /\ known \subseteq Path
    /\ covered \in BOOLEAN
    /\ edgeActive \in BOOLEAN
    /\ pointerPc \in {"idle", "schedule", "send"}
    /\ requesterPc \in {"idle", "collect", "arm", "request", "send"}
    /\ job \in Jobs \cup {"none"} /\ eligible \subseteq Path
    /\ requesterPc \in {"collect", "arm"} => job \in {"wake", "wakeWithUnlock", "unlock"}
    /\ requesterPc = "request" => job \in {"hotplug", "wake", "unlock"}
    /\ edges \in Nat /\ probes \in Nat /\ episodeProbes \in Nat

(* A batch never outlives the reason for it: while one is pending some path is
   still missing its component.  Every place that removes an armed path has
   to drop the batch with the last one. *)
PendingImpliesArmed == pending.on => armed # {}

(* Probes that the pending batch can still start.  One that is in flight when
   a new batch begins is charged to the new batch by finish_wake_recovery_probe. *)
Remaining ==
    IF pending.on THEN ProbesPerBatch - pending.attempt - (IF probing THEN 1 ELSE 0)
                  ELSE 0

(* Probes that an activity edge which no batch has used yet can still buy. *)
Credit == IF pointerActive /\ consumed # generation THEN ProbesPerBatch ELSE 0

(* "Continuous movement shares one activity generation, so exhausting a retry
   batch cannot start another batch until a real idle -> active edge", and "a
   missing-device episode has a hard global cap": over a whole session there are
   at most four probe passes per edge, whatever hotplug, wake, unlock and
   disconnect do to the state in between, and between the moments when nothing
   is missing (or the episode is reset) at most two batches of them, however
   many edges arrive. *)
ProbesBounded ==
    /\ probes <= ProbesPerBatch * edges
    /\ episodeProbes <= ProbesPerBatch * MaxBatches

(* No lost wakeup: the reader never sits in recv_timeout past the due time of a
   pending batch, or beside a forced plan, without a signal that is queued or
   about to be sent by the thread that is between the two locks. *)
NoLostWakeup ==
    readerPc = "waiting" =>
        /\ pending.on => covered \/ signal \/ pointerPc = "send"
        /\ forced # RP!NoPlan => signal \/ requesterPc = "send"

(* A batch comes to an end: its probes run out or what it waits for recovers.
   Nobody has to move the pointer again for that. *)
BatchEnds == pending.on ~> ~pending.on

(* "Schedule exactly one Full read on the missing -> present edge": whatever
   weaker plans, bursts and events arrive around it, the pass after a recovery
   has its Full. *)
RecoveryGetsFull == readerPc = "recovered" ~> (readerPc \in {"visit", "finish"} /\ plan = "Full")

(* "Only the first real pointer activity after the resume triggers the bounded
   Quick probe": a pass that is charged as a probe, while an armed device has
   a snapshot, executes a protocol read. *)
ProbeReadsProtocol ==
    probing /\ readerPc = "visit" /\ armed \cap known # {} => plan # "PresenceOnly"
=============================================================================
