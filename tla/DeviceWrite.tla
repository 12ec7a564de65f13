----------------------------- MODULE DeviceWrite -----------------------------
(***************************************************************************)
(* Writing to a device while the background reader polls it                *)
(* (src-tauri/src/lib.rs: begin_device_write, device_mutate_blocking_impl, *)
(* store_snapshot, and the reader's pass over the same device).            *)
(*                                                                         *)
(* A command's worker thread queues on write_in_progress with a condition  *)
(* variable, takes device_io, writes, gives both back, and only then       *)
(* stores its snapshot, drops the debounce entry and asks for a Quick      *)
(* read.  The reader takes device_io alone and publishes after releasing   *)
(* it, so either side can overwrite the other's snapshot with an older one *)
(* and the protocol has to repair it.  A pass does not always do so: only  *)
(* Quick and Full renew the fields that commands change, BatteryOnly      *)
(* renews the debounce without them, and Quick reads nothing with a        *)
(* package that cannot be projected.                                       *)
(*                                                                         *)
(* A device is a function from fields to the command that wrote them last. *)
(***************************************************************************)
EXTENDS Integers, FiniteSets

CONSTANTS
    Writer,     \* commands, each with a worker thread of its own
    Field,      \* what a command changes and a Quick read covers
    Asked       \* plans that others than the commands put into forced_read_plan

RP == INSTANCE ReadPlan

ReaderPlans == RP!Plans \ {"Inventory"}   \* nobody asks for Inventory

ASSUME AskedAssumption == Asked \subseteq ReaderPlans

Factory == "factory"
Untouched == [f \in Field |-> Factory]   \* also a local variable that is not in use

VARIABLES
    device,     \* what the device holds
    snapshot,   \* its entry in SessionState.last_snapshot
    fresh,      \* last_read_at is within the debounce
    forced,     \* forced_read_plan
    writing,    \* the Mutex<bool> write_in_progress
    io,         \* holder of the device_io mutex
    wpc,        \* worker threads
    draft,      \* the snapshot a worker has built
    rpc,        \* the reader thread
    rplan,
    rdraft,     \* the entry the running pass will publish
    excused     \* history: a write or read failed, a read was skipped, fell back or was
                \* forestalled by BatteryOnly, and no read of the fields followed

shared == <<device, snapshot, fresh, forced, writing, io>>
worker == <<wpc, draft>>
reader == <<rpc, rplan, rdraft>>
vars == <<shared, worker, reader, excused>>

Free == "free"
TheReader == "reader"

Init ==
    /\ device = Untouched /\ snapshot = device
    /\ fresh = FALSE /\ forced = RP!NoPlan /\ writing = FALSE /\ io = Free
    /\ wpc = [w \in Writer |-> "idle"]
    /\ draft = [w \in Writer |-> Untouched]
    /\ rpc = "top" /\ rplan = "PresenceOnly" /\ rdraft = Untouched
    /\ excused = FALSE

Goto(w, to) == wpc' = [wpc EXCEPT ![w] = to]

-----------------------------------------------------------------------------
(* begin_device_write: Condvar::wait_timeout_while on the flag. *)

Enqueue(w) ==
    /\ wpc[w] = "idle" /\ Goto(w, "queued")
    /\ UNCHANGED <<shared, draft, reader, excused>>

(* The flag is down: take it, notified, expired or just arrived. *)
BeginWrite(w) ==
    /\ wpc[w] \in {"queued", "expired"} /\ ~writing
    /\ writing' = TRUE
    /\ Goto(w, "locking")
    /\ UNCHANGED <<device, snapshot, fresh, forced, io, draft, reader, excused>>

Wait(w) ==
    /\ wpc[w] = "queued" /\ writing /\ Goto(w, "asleep")
    /\ UNCHANGED <<shared, draft, reader, excused>>

(* The 25 s pass, and the mutex has to be taken again. *)
Expire(w) ==
    /\ wpc[w] = "asleep" /\ Goto(w, "expired")
    /\ UNCHANGED <<shared, draft, reader, excused>>

(* Mutant of RefuseExpired: the thread that gives up answers as if it had its
   turn. *)
ProceedExpired(w) ==
    /\ wpc[w] = "expired" /\ writing /\ Goto(w, "locking")
    /\ UNCHANGED <<shared, draft, reader, excused>>

RefuseExpired(w) ==
    /\ wpc[w] = "expired" /\ writing /\ Goto(w, "failed")
    /\ UNCHANGED <<shared, draft, reader, excused>>

-----------------------------------------------------------------------------
(* device_mutate_blocking_impl under its locks. *)

TakeIo(w) ==
    /\ wpc[w] = "locking" /\ io = Free
    /\ io' = w /\ Goto(w, "building")
    /\ UNCHANGED <<device, snapshot, fresh, forced, writing, draft, reader,
                   excused>>

(* base_outputs comes from the cached snapshot, not from the device. *)
ReadBase(w) ==
    /\ wpc[w] = "building"
    /\ draft' = [draft EXCEPT ![w] = snapshot]
    /\ Goto(w, "mutating")
    /\ UNCHANGED <<shared, reader, excused>>

(* What the command changes is its argument. *)
Mutate(w) ==
    /\ wpc[w] = "mutating"
    /\ \E f \in Field : /\ device' = [device EXCEPT ![f] = w]
                       /\ draft' = [draft EXCEPT ![w][f] = w]
    /\ Goto(w, "releaseIo")
    /\ UNCHANGED <<snapshot, fresh, forced, writing, io, reader, excused>>

(* No plugin, no permission, or the write or its verification failed: the
   guards are dropped and the command answers with an error.  Some of the
   packets may have reached the device. *)
MutateFails(w) ==
    /\ wpc[w] \in {"building", "mutating"}
    /\ \/ UNCHANGED <<device, excused>>
       \/ /\ wpc[w] = "mutating"
          /\ \E f \in Field : device' = [device EXCEPT ![f] = w]
          /\ excused' = TRUE
    /\ draft' = [draft EXCEPT ![w] = Untouched]
    /\ Goto(w, "abandonIo")
    /\ UNCHANGED <<snapshot, fresh, forced, writing, io, reader>>

(* The guards are dropped innermost first; WriteFlagGuard clears the flag under
   its mutex and notifies after it. *)
ReleaseIo(w) ==
    /\ wpc[w] \in {"releaseIo", "abandonIo"}
    /\ io' = Free
    /\ Goto(w, IF wpc[w] = "releaseIo" THEN "releaseFlag" ELSE "abandonFlag")
    /\ UNCHANGED <<device, snapshot, fresh, forced, writing, draft, reader,
                   excused>>

ReleaseFlag(w) ==
    /\ wpc[w] \in {"releaseFlag", "abandonFlag"}
    /\ writing' = FALSE
    /\ Goto(w, IF wpc[w] = "releaseFlag" THEN "notify" ELSE "abandonNotify")
    /\ UNCHANGED <<device, snapshot, fresh, forced, io, draft, reader, excused>>

AfterNotify(w) == IF wpc[w] = "notify" THEN "remember" ELSE "failed"

(* Mutant of Notify: only a write that succeeded wakes the next one. *)
NotifyOnSuccess(w) ==
    /\ wpc[w] \in {"notify", "abandonNotify"}
    /\ \/ /\ \E v \in Writer : /\ wpc[v] = "asleep" /\ wpc[w] = "notify"
                               /\ wpc' = [wpc EXCEPT ![w] = AfterNotify(w), ![v] = "queued"]
       \/ /\ wpc[w] = "abandonNotify" \/ \A v \in Writer : wpc[v] # "asleep"
          /\ Goto(w, AfterNotify(w))
    /\ UNCHANGED <<shared, draft, reader, excused>>

(* notify_one. *)
Notify(w) ==
    /\ wpc[w] \in {"notify", "abandonNotify"}
    /\ \/ \E v \in Writer : /\ wpc[v] = "asleep"
                            /\ wpc' = [wpc EXCEPT ![w] = AfterNotify(w), ![v] = "queued"]
       \/ /\ \A v \in Writer : wpc[v] # "asleep"
          /\ Goto(w, AfterNotify(w))
    /\ UNCHANGED <<shared, draft, reader, excused>>

-----------------------------------------------------------------------------
(* ... and after them. *)

(* remember_software_profile: saved, or its error is the command's answer. *)
Remember(w) ==
    /\ wpc[w] = "remember"
    /\ \/ Goto(w, "store") /\ UNCHANGED <<draft, excused>>
       \/ /\ Goto(w, "failed") /\ excused' = TRUE
          /\ draft' = [draft EXCEPT ![w] = Untouched]
    /\ UNCHANGED <<shared, reader>>

Store(w) ==
    /\ wpc[w] = "store"
    /\ snapshot' = draft[w]
    /\ draft' = [draft EXCEPT ![w] = Untouched]
    /\ Goto(w, "uncache")
    /\ UNCHANGED <<device, fresh, forced, writing, io, reader, excused>>

(* Mutant of Uncache: the debounce entry stays. *)
UncacheNothing(w) ==
    /\ wpc[w] = "uncache" /\ Goto(w, "request")
    /\ UNCHANGED <<shared, draft, reader, excused>>

Uncache(w) ==
    /\ wpc[w] = "uncache"
    /\ fresh' = FALSE
    /\ Goto(w, "request")
    /\ UNCHANGED <<device, snapshot, forced, writing, io, draft, reader, excused>>

RequestQuick(w) ==
    /\ wpc[w] = "request"
    /\ forced' = RP!Merge(forced, "Quick")
    /\ Goto(w, "answered")
    /\ UNCHANGED <<device, snapshot, fresh, writing, io, draft, reader, excused>>

Worker(w) ==
    \/ BeginWrite(w) \/ Wait(w) \/ Expire(w) \/ RefuseExpired(w)
    \/ TakeIo(w) \/ ReadBase(w) \/ Mutate(w) \/ MutateFails(w)
    \/ ReleaseIo(w) \/ ReleaseFlag(w) \/ Notify(w)
    \/ Remember(w) \/ Store(w) \/ Uncache(w) \/ RequestQuick(w)

-----------------------------------------------------------------------------
(* One pass of the reader over the device, which has peers. *)


(* request_refresh_with_plan from elsewhere: focus, hotplug, the battery button
   and its timer, a manual or automatic Full. *)
Ask(plan) ==
    /\ forced' = RP!Merge(forced, plan)
    /\ UNCHANGED <<device, snapshot, fresh, writing, io, worker, reader, excused>>

(* The forced plan or a stronger one: a peer's initial Full, the observation of
   a waiting receiver, a due battery reading. *)
StartPass ==
    /\ rpc = "top"
    /\ rplan' \in {plan \in ReaderPlans : RP!Rank[plan] >= RP!Rank[forced]}
    /\ forced' = RP!NoPlan
    /\ rpc' = "locking"
    /\ UNCHANGED <<device, snapshot, fresh, writing, io, worker, rdraft, excused>>

(* Mutant of ReaderTakeIo: under device_io it also waits for the write flag,
   the inversion that reapply_software_profile avoids. *)
ReaderTakeIoThenFlag ==
    /\ \/ /\ rpc = "locking" /\ io = Free
          /\ io' = TheReader /\ rpc' = "flag"
       \/ /\ rpc = "flag" /\ ~writing
          /\ rpc' = "reading" /\ UNCHANGED io
    /\ UNCHANGED <<device, snapshot, fresh, forced, writing, worker, rplan, rdraft,
                   excused>>

ReaderTakeIo ==
    /\ rpc = "locking" /\ io = Free
    /\ io' = TheReader
    /\ rpc' = "reading"
    /\ UNCHANGED <<device, snapshot, fresh, forced, writing, worker, rplan, rdraft,
                   excused>>

(* PresenceOnly and the debounce keep the entry of this moment. *)
KeepEntry ==
    /\ rpc = "reading"
    /\ rplan = "PresenceOnly" \/ RP!UseCachedRead(rplan, fresh, FALSE)
    /\ rdraft' = snapshot
    /\ rpc' = "release"
    /\ UNCHANGED <<shared, worker, rplan, excused>>

Reading(plans) == rpc = "reading" /\ rplan \in plans /\ ~RP!UseCachedRead(rplan, fresh, FALSE)

(* A peer waits for its initial Full: this device is passed over. *)
SkipDevice ==
    /\ Reading({"Full"})
    /\ rdraft' = snapshot
    /\ excused' = TRUE
    /\ rpc' = "release"
    /\ UNCHANGED <<shared, worker, rplan>>

ReadDevice ==
    /\ Reading({"Quick", "Full"})
    /\ rdraft' = device
    /\ fresh' = TRUE
    /\ excused' = FALSE
    /\ rpc' = "release"
    /\ UNCHANGED <<device, snapshot, forced, writing, io, worker, rplan>>

(* A command has dropped the debounce entry and its Quick is still to come. *)
VerificationDue ==
    \/ RP!Rank[forced] >= RP!Rank["Quick"]
    \/ \E w \in Writer : wpc[w] = "request"

(* BatteryOnly patches the battery of the present entry, and counts as a read
   for the debounce like any other. *)
ReadBattery ==
    /\ Reading({"BatteryOnly"})
    /\ rdraft' = snapshot
    /\ fresh' = TRUE
    /\ excused' = (excused \/ VerificationDue)
    /\ rpc' = "release"
    /\ UNCHANGED <<device, snapshot, forced, writing, io, worker, rplan>>

(* The package has no valid projection for the plan: the entry stays and the
   debounce is not renewed. *)
FallBack ==
    /\ Reading({"BatteryOnly", "Quick"})
    /\ rdraft' = snapshot
    /\ excused' = (excused \/ rplan = "Quick")
    /\ rpc' = "release"
    /\ UNCHANGED <<shared, worker, rplan>>

(* The read fails, or the device is passed over because an earlier one did. *)
ReadFails ==
    /\ Reading({"BatteryOnly", "Quick", "Full"})
    /\ rdraft' = snapshot
    /\ excused' = TRUE
    /\ rpc' = "release"
    /\ UNCHANGED <<shared, worker, rplan>>

ReaderReleaseIo ==
    /\ rpc = "release"
    /\ io' = Free
    /\ rpc' = "publish"
    /\ UNCHANGED <<device, snapshot, fresh, forced, writing, worker, rplan, rdraft,
                   excused>>

(* store_snapshots, with device_io released. *)
Publish ==
    /\ rpc = "publish"
    /\ snapshot' = rdraft
    /\ rdraft' = Untouched /\ rplan' = "PresenceOnly"
    /\ rpc' = "top"
    /\ UNCHANGED <<device, fresh, forced, writing, io, worker, excused>>

Reader ==
    \/ StartPass \/ ReaderTakeIo \/ KeepEntry \/ SkipDevice
    \/ ReadDevice \/ ReadBattery \/ FallBack
    \/ ReaderReleaseIo \/ Publish

DebounceExpires ==
    /\ fresh /\ fresh' = FALSE
    /\ UNCHANGED <<device, snapshot, forced, writing, io, worker, reader, excused>>

Next ==
    \/ \E w \in Writer : Enqueue(w) \/ Worker(w)
    \/ Reader \/ ReadFails \/ DebounceExpires
    \/ \E plan \in Asked : Ask(plan)

Spec == Init /\ [][Next]_vars

(* Threads run; a mutex is granted in the end to a thread that keeps asking
   while it keeps becoming free. *)
FairSpec ==
    /\ Spec /\ WF_vars(Reader) /\ SF_vars(ReaderTakeIo)
    /\ \A w \in Writer : WF_vars(Worker(w)) /\ SF_vars(TakeIo(w))

-----------------------------------------------------------------------------
(* Properties. *)

WriterPcs == {"idle", "queued", "asleep", "expired", "locking", "building", "mutating",
              "releaseIo", "abandonIo", "releaseFlag", "abandonFlag", "notify",
              "abandonNotify", "remember", "store", "uncache", "request", "answered",
              "failed"}
State == [Field -> Writer \cup {Factory}]

(* The type invariant of the module. *)
TypeOK ==
    /\ device \in State /\ snapshot \in State /\ rdraft \in State
    /\ draft \in [Writer -> State]
    /\ fresh \in BOOLEAN /\ writing \in BOOLEAN /\ excused \in BOOLEAN
    /\ forced \in ReaderPlans \cup {RP!NoPlan}
    /\ io \in Writer \cup {Free, TheReader}
    /\ wpc \in [Writer -> WriterPcs]
    /\ rpc \in {"top", "locking", "reading", "release", "publish"}
    /\ rplan \in ReaderPlans

Holding == {"locking", "building", "mutating", "releaseIo", "abandonIo", "releaseFlag",
            "abandonFlag"}

(* The flag belongs to at most one worker, from its turn until its guard is
   dropped, whoever expires, barges in or fails meanwhile. *)
WritesAreSerialized ==
    /\ \A v, w \in Writer : wpc[v] \in Holding /\ wpc[w] \in Holding => v = w
    /\ writing <=> \E w \in Writer : wpc[w] \in Holding

(* No stranded writer: while the flag is down nobody sleeps in the queue unless
   some thread is on its way to take the flag or to notify. *)
NoStrandedWriter ==
    ~writing /\ (\E w \in Writer : wpc[w] = "asleep")
      => \E w \in Writer : wpc[w] \in {"queued", "expired", "notify", "abandonNotify"}

(* "After a write drop the debounce entry so that the next read really reads":
   the reader and the workers overwrite each other's snapshots with older ones,
   and other passes and requests come in between.  When every command has been
   answered and no plan that reads the fields is queued, the published snapshot
   is what the device holds, unless the read that should have seen to it did not
   take place: it failed, was skipped for a peer or had no projection, or a
   BatteryOnly pass renewed the debounce while it was still to come. *)
SnapshotConverges ==
    /\ rpc = "top" /\ ~VerificationDue /\ ~excused
    /\ \A w \in Writer : wpc[w] \in {"idle", "queued", "asleep", "expired", "answered", "failed"}
    => snapshot = device

(* Every queued command is answered, with its snapshot or an error: the write
   flag and device_io are never waited for in a circle, a notification is never
   lost for good. *)
EveryCommandAnswered ==
    \A w \in Writer : wpc[w] = "queued" ~> wpc[w] \in {"answered", "failed"}
=============================================================================
