---------------------------- MODULE DeviceReader ----------------------------
(***************************************************************************)
(* The background device reader (src-tauri/src/lib.rs): the loop of        *)
(* spawn_device_reader and the per-device cascade of read_device_once.     *)
(* Each pass picks one plan for every device, visits the enumerated        *)
(* devices one by one, and publishes a snapshot map that replaces the old  *)
(* one.  Devices sleep, wake, fail, leave and come back at any moment;     *)
(* commands and system events put stronger plans into the forced slot      *)
(* while a pass is running.  The other writer of the map is the worker of  *)
(* a command that writes a device (device_mutate_blocking): it builds a    *)
(* snapshot from the cached outputs while it holds device_io and stores it *)
(* afterwards, whatever the reader has published or forgotten by then.     *)
(*                                                                         *)
(* A snapshot is reduced to its mouse_ready field, the one that decides    *)
(* between the waiting page and the dashboard, and to the mouseOnline of   *)
(* its cached outputs, from which a command computes that field anew; time *)
(* is reduced to the expiry of a backoff and of the 500 ms read debounce.  *)
(***************************************************************************)
EXTENDS Integers, FiniteSets

CONSTANTS
    Path,          \* device paths
    Receiver,      \* those of wireless receivers: the plugin reports mouse_ready
                   \* and declares a wake-recovery component
    NoProjection,  \* those whose plugin cannot project its read workflow
    MaxChanges,    \* bound on the changes of the devices' condition
    MaxRequests    \* bound on commands and system events

ASSUME PathAssumption == Receiver \subseteq Path /\ NoProjection \subseteq Path
ASSUME DeviceBounds == MaxChanges \in Nat /\ MaxRequests \in Nat

RP == INSTANCE ReadPlan

VARIABLES
    link,        \* the condition of each device
    changes,     \* how often the devices' condition has changed
    snap,        \* SessionState.last_snapshot: mouse_ready, or None
    raw,         \* the mouseOnline among its capabilities, the cached outputs
    level,       \* .snapshot_readiness
    retry,       \* .degraded_full_retry_paths
    backoff,     \* paths of .backoff_state that are backing off
    cached,      \* paths of .last_read_at read within READ_DEBOUNCE_TTL
    armed,       \* .wake_recovery.armed_paths
    forced,      \* .forced_read_plan
    pc,          \* the reader: "top" of the loop or "visit"
    plan,        \* the running pass: its plan,
    matched,     \* the devices it enumerated,
    todo,        \* those it has still to visit,
    draft,       \* and the entries it will publish,
    draftRaw,    \* with their outputs
    job,         \* the command or event that has reset backoffs and not asked yet
    requests,    \* how many commands and events there have been
    order,       \* the snapshot that a command has built of a path and not stored
                 \* yet; "stored" when it has not asked for its Quick yet
    wanted,      \* history: paths owed a Full that somebody asked for
    asked,       \* history: the running pass took a forced Full
    settled,     \* history: the running pass gave some device its initial Full
    wasted,      \* history: paths whose whole workflow ran for nobody
    inserted,    \* history: paths whose entry a command put where no readiness is
    overtaken    \* history: paths that a command has stored during the running pass

env == <<link, changes>>
entries == <<snap, raw>>
store == <<entries, level, retry, backoff, cached, armed>>
drafts == <<draft, draftRaw>>
pass == <<pc, plan, matched, todo, drafts>>
requester == <<job, requests>>
waste == <<settled, wasted>>
late == <<inserted, overtaken>>
vars == <<env, store, forced, pass, requester, order, wanted, asked, waste, late>>

-----------------------------------------------------------------------------
(* Devices and what they answer. *)

(* asleep: the receiver answers for a mouse that sleeps.  flaky: some step of
   the workflow fails.  partial: the step that fails is the mouse component's.
   dead: the workflow fails.  unparsable: the plugin's package does. *)
Links(p) == {"unplugged", "awake", "flaky", "dead", "unparsable"}
              \cup (IF p \in Receiver THEN {"asleep", "partial"} ELSE {})

Unanswering == {"unplugged", "dead"}

(* mouse_ready: None, Some(false), Some(true); absent is no snapshot at all. *)
Mouse == {"unknown", "offline", "ready"}
absent == "absent"

MouseReading(p) ==
    IF p \notin Receiver THEN "unknown" ELSE IF link[p] = "asleep" THEN "offline" ELSE "ready"
HasFailedOutput(p) == link[p] \in {"flaky", "partial"}
HasComponent(p) == p \notin Receiver \/ link[p] \in {"awake", "flaky"}

(* full_snapshot_quality. *)
Complete(p) == HasComponent(p) /\ ~HasFailedOutput(p)

Known == {p \in Path : snap[p] # absent}

-----------------------------------------------------------------------------
Init ==
    /\ link \in [Path -> {"unplugged", "awake"}] /\ changes = 0
    /\ snap = [p \in Path |-> absent]
    /\ raw = [p \in Path |-> "unknown"]
    /\ level = [p \in Path |-> RP!NotSeen]
    /\ retry = [p \in Path |-> "none"]
    /\ backoff = {} /\ cached = {} /\ armed = {}
    /\ forced = RP!NoPlan
    /\ pc = "top" /\ plan = "PresenceOnly" /\ matched = {} /\ todo = {}
    /\ draft = [p \in Path |-> absent] /\ draftRaw = [p \in Path |-> "unknown"]
    /\ job = "none" /\ requests = 0 /\ order = [p \in Path |-> absent]
    /\ wanted = {} /\ asked = FALSE /\ settled = FALSE /\ wasted = {}
    /\ inserted = {} /\ overtaken = {}

-----------------------------------------------------------------------------
(* The loop top and the enumeration.  The pending flags come from the mouse of
   the selected device, which may be any; quick observation and the battery
   cadence are taken as they come. *)

ReaderPlan(p) ==
    \E selected \in IF Known = {} THEN {absent} ELSE Known,
       observing, batteryDue, inWindow \in BOOLEAN :
        LET pending == selected # absent /\ snap[selected] = "offline"
        IN  p = RP!ChooseReadPlan(Known # {}, RP!NextInitialReadPlan(level), forced,
                                  observing, batteryDue, pending /\ inWindow, pending)

StartPass ==
    /\ pc = "top"
    /\ plan' \in {p \in RP!Plans : ReaderPlan(p)}
    /\ forced' = RP!NoPlan
    /\ asked' = (forced = "Full") /\ settled' = FALSE
    /\ backoff' \in {backoff, backoff \ armed}   \* a due wake probe clears the armed ones
    /\ matched' = {p \in Path : link[p] # "unplugged"}
    /\ todo' = matched'
    /\ pc' = "visit"
    /\ draft' = [p \in Path |-> absent] /\ draftRaw' = [p \in Path |-> "unknown"]
    /\ wanted' = IF asked' THEN wanted \cap matched' ELSE wanted
    /\ UNCHANGED <<env, entries, level, retry, cached, armed, requester, order, wasted, late>>

(* refresh_devices failed and lists nothing: the last snapshots stay. *)
StartPassEnumerationFails ==
    /\ pc = "top" /\ changes < MaxChanges
    /\ changes' = changes + 1
    /\ plan' \in {p \in RP!Plans : ReaderPlan(p)}
    /\ forced' = RP!NoPlan
    /\ wanted' = {}
    /\ UNCHANGED <<link, store, pc, matched, todo, drafts, requester, order, asked, waste, late>>

-----------------------------------------------------------------------------
(* The visit of one device: exactly one of the actions below. *)

Visiting(p) == pc = "visit" /\ p \in todo

(* What every visit does to the pass, and what a visit that raises the
   readiness of its device does to the history of the entries without one. *)
Entry(p, mouse, outputs) ==
    /\ todo' = todo \ {p}
    /\ draft' = [draft EXCEPT ![p] = mouse]
    /\ draftRaw' = [draftRaw EXCEPT ![p] = outputs]
    /\ UNCHANGED <<pc, plan, matched>>
GainsReadiness(p) == inserted' = inserted \ {p} /\ UNCHANGED overtaken

VisitPresence(p) ==
    /\ Visiting(p) /\ plan = "PresenceOnly"
    /\ Entry(p, IF snap[p] = absent THEN "unknown" ELSE snap[p], raw[p])
    /\ level' = [level EXCEPT ![p] = IF @ = RP!NotSeen THEN "Detected" ELSE @]
    /\ GainsReadiness(p)
    /\ UNCHANGED <<env, entries, retry, backoff, cached, armed, forced, requester, order,
                   wanted, asked, waste>>

(* take_pending_degraded_full_retry: a Full visit spends the retry. *)
RetryPending(p) == plan = "Full" /\ retry[p] = "Pending"
TakeRetry(p) == retry' = [retry EXCEPT ![p] = IF RetryPending(p) THEN "Attempted" ELSE @]

(* Mutant of SkipsComplete: every peer is read again. *)
SkipsNobody(p) == FALSE

SkipsComplete(p) == RP!SkipAlreadyComplete(level, p, plan) /\ ~RetryPending(p)
HitsCache(p) == RP!UseCachedRead(plan, p \in cached, RetryPending(p)) /\ snap[p] # absent

(* The visits that publish what is known and read nothing: a peer still needs
   its initial Full, the package does not parse, the debounce, the backoff. *)
VisitKeeps(p) ==
    /\ Visiting(p) /\ plan # "PresenceOnly"
    /\ SkipsComplete(p) \/ link[p] = "unparsable" \/ HitsCache(p) \/ p \in backoff
    /\ Entry(p, snap[p], raw[p])
    /\ TakeRetry(p)
    /\ wanted' = IF plan = "Full" /\ ~SkipsComplete(p)
                    /\ (link[p] = "unparsable" \/ p \in backoff)
                 THEN wanted \ {p} ELSE wanted
    /\ UNCHANGED <<env, entries, level, backoff, cached, armed, forced, requester, order,
                   asked, waste, late>>

Reads(p) ==
    /\ Visiting(p) /\ plan # "PresenceOnly"
    /\ ~SkipsComplete(p) /\ link[p] # "unparsable" /\ ~HitsCache(p) /\ p \notin backoff

(* Mutant of ArmedByFailure: the contract is not looked at. *)
ArmedByAnyFailure(p) == armed \cup {p}

(* mark_wake_recovery_failure, which needs a contract. *)
ArmedByFailure(p) == IF p \in Receiver THEN armed \cup {p} ELSE armed

(* The device does not answer: back off, keep the last snapshot, arm. *)
VisitFails(p) ==
    /\ Reads(p) /\ link[p] \in Unanswering
    /\ Entry(p, snap[p], raw[p])
    /\ TakeRetry(p)
    /\ backoff' = backoff \cup {p}
    /\ armed' = ArmedByFailure(p)
    /\ wanted' = IF plan = "Full" THEN wanted \ {p} ELSE wanted
    /\ UNCHANGED <<env, entries, level, cached, forced, requester, order, asked, waste, late>>

(* mark_wake_recovery_observation, the part the reader sees. *)
Observe(p) == armed' = IF HasComponent(p) THEN armed \ {p} ELSE armed \cup {p}
Recovered(p) == p \in armed /\ HasComponent(p) /\ plan # "Full"

(* A Quick, Inventory or BatteryOnly read whose projection is not valid: the
   answer counts as an observation and nothing of it is published. *)
VisitFallsBack(p) ==
    /\ Reads(p) /\ link[p] \notin Unanswering
    /\ RP!UsesProjection(plan) /\ p \in NoProjection
    /\ Entry(p, snap[p], raw[p])
    /\ Observe(p)
    /\ backoff' = backoff \ {p}
    /\ forced' = IF Recovered(p) THEN RP!Merge(forced, "Full") ELSE forced
    /\ wanted' = IF Recovered(p) THEN wanted \cup {p} ELSE wanted
    /\ UNCHANGED <<env, entries, level, retry, cached, requester, order, asked, waste, late>>

(* ... whose projection is: the snapshot is patched, a mouse that comes online
   is withheld until the Full that this read asks for.  Only Quick patches the
   outputs too; without a snapshot to patch the entry holds nothing read. *)
VisitProjected(p) ==
    /\ Reads(p) /\ link[p] \notin Unanswering
    /\ RP!UsesProjection(plan) /\ p \notin NoProjection
    /\ LET patched  == IF snap[p] = absent THEN "unknown"
                       ELSE IF MouseReading(p) = "unknown" THEN snap[p] ELSE MouseReading(p)
           withheld == RP!WithholdMouseReady(plan, snap[p], patched)
           wantsFull == Recovered(p) \/ withheld
           outputs == IF plan = "Quick" /\ snap[p] # absent THEN MouseReading(p) ELSE raw[p]
       IN  /\ Entry(p, IF withheld THEN "offline" ELSE patched, outputs)
           /\ forced' = IF wantsFull THEN RP!Merge(forced, "Full") ELSE forced
           /\ wanted' = IF wantsFull THEN wanted \cup {p} ELSE wanted
    /\ level' = [level EXCEPT ![p] =
                   RP!Raise(@, IF plan = "Inventory" THEN "Inventory" ELSE "Quick")]
    /\ Observe(p)
    /\ backoff' = backoff \ {p}
    /\ cached' = cached \cup {p}
    /\ GainsReadiness(p)
    /\ UNCHANGED <<env, entries, retry, requester, order, asked, waste>>

(* Mutant of RetryAfter: the attempt is forgotten with the retry it spends. *)
RetryAfterForgetful(p) ==
    IF Complete(p) THEN "none"
    ELSE IF HasComponent(p) THEN "Pending" ELSE retry[p]

(* update_degraded_full_retry, after the visit has taken a pending retry: a
   failed step is retried once until a complete Full. *)
RetryAfter(p) ==
    IF Complete(p) THEN "none"
    ELSE IF RetryPending(p) THEN "Attempted"
    ELSE IF retry[p] = "none" /\ HasComponent(p) THEN "Pending" ELSE retry[p]

(* The whole workflow: a complete reading replaces the snapshot, a degraded one
   keeps the last mouse_ready where it has none of its own. *)
VisitFull(p) ==
    /\ Reads(p) /\ link[p] \notin Unanswering
    /\ plan = "Full"
    /\ LET kept == ~Complete(p) /\ MouseReading(p) = "unknown" /\ snap[p] # absent
           again == RetryAfter(p) = "Pending"
       IN  /\ Entry(p, IF kept THEN snap[p] ELSE MouseReading(p), MouseReading(p))
           /\ forced' = IF again THEN RP!Merge(forced, "Full") ELSE forced
           /\ wanted' = IF again THEN wanted \cup {p} ELSE wanted \ {p}
    /\ retry' = [retry EXCEPT ![p] = RetryAfter(p)]
    /\ level' = [level EXCEPT ![p] =
                   RP!Raise(@, IF Complete(p) THEN "Full" ELSE "DegradedFull")]
    /\ Observe(p)
    /\ backoff' = backoff \ {p}
    /\ cached' = cached \cup {p}
    /\ LET initial == level[p] \in {RP!NotSeen, "Detected", "Quick", "Inventory"}
       IN  /\ settled' = (settled \/ initial)
           /\ wasted' = IF asked \/ settled' \/ RetryPending(p)
                        THEN wasted ELSE wasted \cup {p}
    /\ GainsReadiness(p)
    /\ UNCHANGED <<env, entries, requester, order, asked>>

-----------------------------------------------------------------------------
(* The end of the pass, after device_io is released. *)

Done == pc = "visit" /\ todo = {}

(* Nothing was enumerated: clear_snapshots and the readiness map. *)
Clear ==
    /\ Done /\ matched = {}
    /\ snap' = [p \in Path |-> absent] /\ raw' = [p \in Path |-> "unknown"]
    /\ level' = [p \in Path |-> RP!NotSeen]
    /\ retry' = [p \in Path |-> "none"]
    /\ backoff' = {} /\ cached' = {} /\ armed' = {}
    /\ wanted' = {} /\ inserted' = {} /\ overtaken' = {}
    /\ pc' = "top"
    /\ UNCHANGED <<env, forced, plan, matched, todo, drafts, requester, order, asked, waste>>

(* Devices are there and none has an entry: everything stays. *)
PreserveLast ==
    /\ Done /\ matched # {} /\ \A p \in Path : draft[p] = absent
    /\ pc' = "top" /\ overtaken' = {}
    /\ UNCHANGED <<env, store, forced, plan, matched, todo, drafts, requester, order, wanted,
                   asked, waste, inserted>>

(* Mutant of Publish: the readiness of a device that left is kept. *)
PublishKeepingReadiness ==
    /\ Done /\ \E p \in Path : draft[p] # absent
    /\ snap' = draft /\ raw' = draftRaw
    /\ retry' = [p \in Path |-> IF draft[p] = absent THEN "none" ELSE retry[p]]
    /\ armed' = {p \in armed : draft[p] # absent}
    /\ pc' = "top"
    /\ inserted' = {p \in inserted : draft[p] # absent} /\ overtaken' = {}
    /\ UNCHANGED <<env, level, backoff, cached, forced, plan, matched, todo, drafts,
                   requester, order, wanted, asked, waste>>

(* The entries replace the snapshot map; readiness, retries and wake recovery
   forget the paths that have none.  Backoff and debounce do not. *)
Publish ==
    /\ Done /\ \E p \in Path : draft[p] # absent
    /\ snap' = draft /\ raw' = draftRaw
    /\ level' = [p \in Path |-> IF draft[p] = absent THEN RP!NotSeen ELSE level[p]]
    /\ retry' = [p \in Path |-> IF draft[p] = absent THEN "none" ELSE retry[p]]
    /\ armed' = {p \in armed : draft[p] # absent}
    /\ pc' = "top"
    /\ inserted' = {p \in inserted : draft[p] # absent} /\ overtaken' = {}
    /\ UNCHANGED <<env, backoff, cached, forced, plan, matched, todo, drafts, requester,
                   order, wanted, asked, waste>>

Visit(p) ==
    \/ VisitPresence(p) \/ VisitKeeps(p) \/ VisitFails(p)
    \/ VisitFallsBack(p) \/ VisitProjected(p) \/ VisitFull(p)

Reader == StartPass \/ (\E p \in Path : Visit(p)) \/ Clear \/ PreserveLast \/ Publish

-----------------------------------------------------------------------------
(* Commands and system events.  Those that are evidence of activity reset every
   backoff first; the reader may run between the reset and the request. *)

RequestOf == [refresh |-> "Full", hotplug |-> "PresenceOnly", wake |-> "PresenceOnly",
              unlock |-> "Quick", quick |-> "Quick", battery |-> "BatteryOnly",
              focus |-> "PresenceOnly"]

ResetBackoff(j) ==
    /\ job = "none" /\ requests < MaxRequests
    /\ j \in {"refresh", "hotplug", "wake", "unlock"}
    /\ backoff' = {}
    /\ cached' = IF j = "refresh" THEN cached ELSE {}
    /\ \E eligible \in SUBSET (Known \cap Receiver) :
          armed' = IF j \in {"wake", "unlock"} THEN armed \cup eligible ELSE armed
    /\ job' = j
    /\ requests' = requests + 1
    /\ UNCHANGED <<env, entries, level, retry, forced, pass, order, wanted, asked, waste, late>>

Request(j) ==
    /\ \/ job = j /\ UNCHANGED requests
       \/ /\ job = "none" /\ j \in {"quick", "battery", "focus"}
          /\ requests < MaxRequests /\ requests' = requests + 1
    /\ forced' = RP!Merge(forced, RequestOf[j])
    /\ wanted' = IF j = "refresh" THEN wanted \cup Known ELSE wanted
    /\ job' = "none"
    /\ UNCHANGED <<env, store, pass, order, asked, waste, late>>

(* device_mutate_blocking.  While it holds device_io, so never while the reader
   visits, it writes a device that answers and computes mouse_ready from the
   cached outputs; without any it reads the whole workflow first. *)
CommandWrites(p) ==
    /\ requests < MaxRequests /\ requests' = requests + 1
    /\ pc = "top" \/ todo = {}
    /\ order[p] = absent
    /\ link[p] \notin Unanswering \cup {"unparsable"}
    /\ order' = [order EXCEPT ![p] = IF raw[p] = "unknown" THEN MouseReading(p) ELSE raw[p]]
    /\ UNCHANGED <<env, store, forced, pass, job, wanted, asked, waste, late>>

(* store_snapshot, after device_io: it looks neither at what is published now
   nor at the readiness, and withholds nothing. *)
CommandStores(p) ==
    /\ order[p] \in Mouse
    /\ snap' = [snap EXCEPT ![p] = order[p]] /\ raw' = [raw EXCEPT ![p] = order[p]]
    /\ order' = [order EXCEPT ![p] = "stored"]
    /\ inserted' = IF level[p] = RP!NotSeen THEN inserted \cup {p} ELSE inserted
    /\ overtaken' = IF pc = "visit" THEN overtaken \cup {p} ELSE overtaken
    /\ UNCHANGED <<env, level, retry, backoff, cached, armed, forced, pass, requester, wanted,
                   asked, waste>>

(* ... and its end: the debounce and the backoff of the device, a Quick read. *)
CommandEnds(p) ==
    /\ order[p] = "stored" /\ order' = [order EXCEPT ![p] = absent]
    /\ cached' = cached \ {p} /\ backoff' = backoff \ {p}
    /\ forced' = RP!Merge(forced, "Quick")
    /\ UNCHANGED <<env, entries, level, retry, armed, pass, requester, wanted, asked, waste,
                   late>>

Command(p) == CommandWrites(p) \/ CommandStores(p) \/ CommandEnds(p)

Requester ==
    \/ \E j \in DOMAIN RequestOf : ResetBackoff(j) \/ Request(j)
    \/ \E p \in Path : Command(p)

-----------------------------------------------------------------------------
(* The world: devices change, backoffs and the debounce run out. *)
Change(p) ==
    /\ changes < MaxChanges
    /\ \E l \in Links(p) \ {link[p]} : link' = [link EXCEPT ![p] = l]
    /\ changes' = changes + 1
    /\ UNCHANGED <<store, forced, pass, requester, order, wanted, asked, waste, late>>

BackoffExpires(p) ==
    /\ p \in backoff /\ backoff' = backoff \ {p}
    /\ UNCHANGED <<env, entries, level, retry, cached, armed, forced, pass, requester, order,
                   wanted, asked, waste, late>>

DebounceExpires(p) ==
    /\ p \in cached /\ cached' = cached \ {p}
    /\ UNCHANGED <<env, entries, level, retry, backoff, armed, forced, pass, requester, order,
                   wanted, asked, waste, late>>

World ==
    \/ StartPassEnumerationFails
    \/ \E p \in Path : Change(p) \/ BackoffExpires(p) \/ DebounceExpires(p)

Next == Reader \/ Requester \/ World

Spec == Init /\ [][Next]_vars

(* The reader's thread never stops and clocks run.  Nothing is assumed of
   devices, commands or system events. *)
FairSpec ==
    /\ Spec /\ WF_vars(Reader)
    /\ \A p \in Path : WF_vars(BackoffExpires(p)) /\ WF_vars(DebounceExpires(p))

-----------------------------------------------------------------------------
(* Properties. *)

(* The type invariant of the module. *)
TypeOK ==
    /\ link \in [Path -> UNION {Links(p) : p \in Path}]
    /\ changes \in 0 .. MaxChanges
    /\ snap \in [Path -> Mouse \cup {absent}] /\ raw \in [Path -> Mouse]
    /\ level \in [Path -> RP!Levels \cup {RP!NotSeen}]
    /\ retry \in [Path -> {"none", "Pending", "Attempted"}]
    /\ backoff \subseteq Path /\ cached \subseteq Path /\ armed \subseteq Receiver
    /\ forced \in RP!OptPlans
    /\ pc \in {"top", "visit"} /\ plan \in RP!Plans
    /\ matched \subseteq Path /\ todo \subseteq matched
    /\ draft \in [Path -> Mouse \cup {absent}] /\ draftRaw \in [Path -> Mouse]
    /\ job \in DOMAIN RequestOf \cup {"none"} /\ requests \in 0 .. MaxRequests
    /\ order \in [Path -> Mouse \cup {absent, "stored"}]
    /\ wanted \subseteq Path /\ asked \in BOOLEAN /\ settled \in BOOLEAN
    /\ wasted \subseteq Path /\ inserted \subseteq Path /\ overtaken \subseteq Path

(* Between two passes readiness is known of published devices only, so a device
   that comes back is never taken for one that has had its Full; and the only
   entries that no readiness knows are those that the late store of a command
   has put back, which is never taken for a reading. *)
ReadinessMatchesSnapshots ==
    pc = "top" => \A p \in Path :
        /\ level[p] # RP!NotSeen => snap[p] # absent
        /\ snap[p] # absent /\ level[p] = RP!NotSeen => p \in inserted

(* "Do not repeatedly rerun the expensive Full workflow on peers that are
   already complete", and a degraded one is not reread "every 500 ms without
   bound": a whole workflow runs only for a device that has not had one, for
   its one retry, in a pass that somebody asked to be Full, or behind a device
   that has just had its initial Full in the same pass (the skip looks at the
   readiness of the moment, so a pass does not stop at the last one). *)
NoWastedFull == wasted = {}

(* "When the mouse goes from offline to online keep the waiting page until Full
   has completed the static capabilities" (lib.rs:9802): whatever is queued,
   cached, backing off or interrupted, the reader publishes that change only in a
   Full pass.  The comment promises more than the code does: the store of a
   command shows the mouse as its cached outputs have it, which a withheld Quick
   read has already patched, and the entry of a pass that such a store has
   overtaken is judged against a snapshot that is no longer there.  Both are
   excused here, and nothing else is. *)
NoHalfSnapshot ==
    [][\A p \in Path : snap[p] = "offline" /\ snap'[p] = "ready"
           => plan = "Full" \/ p \in overtaken \/ CommandStores(p)]_vars

(* A requested Full is not lost: once no device is waiting for its initial Full
   and nothing is queued, every device that was owed a Full (by a manual
   refresh, a withheld mouse, a recovery edge, a degraded read) has had it tried,
   unless it backs off or has left. *)
FullRequestServed ==
    pc = "top" /\ forced # "Full" /\ ~RP!Initializing(level) => wanted = {}

(* A mouse that stays awake is shown as ready in the end, whatever happened
   before: sleep, failures, backoffs, unplugging, any commands. *)
AwakeMouseShown ==
    \A p \in Receiver : <>[](link[p] = "awake") => <>[](snap[p] = "ready")

(* The reader does not read the whole workflow for ever: when every device in
   the end answers or is gone, it falls back to lighter plans. *)
FullReadsStop ==
    (\A p \in Path : <>[](link[p] \notin {"dead", "unparsable"})) => <>[](plan # "Full")
=============================================================================
