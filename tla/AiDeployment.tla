----------------------------- MODULE AiDeployment -----------------------------
(***************************************************************************)
(* The directories of the installed local AI bundle                        *)
(* (src-tauri/src/local_ai_update.rs: activate_directory,                  *)
(* rollback_deployment, install_update, rollback;                          *)
(* src-tauri/src/local_ai_runtime.rs: resolve_installation).               *)
(*                                                                         *)
(* Two threads rename these directories and nothing keeps them apart: that *)
(* of the install and rollback commands, of which there is one at a time,  *)
(* and the automatic rollback.  Each rename is a step.  A deployment is    *)
(* its version; a version works if its handshake succeeds.  Any rename and *)
(* any removal may fail; a removal that fails may leave a part.            *)
(***************************************************************************)
EXTENDS Naturals, Sequences, FiniteSets

CONSTANTS
    Version, NoVersion,
    Damaged,    \* what is left of a deployment that was removed in part
    Builtin     \* what ships with the application, or NoVersion

ASSUME VersionAssumption ==
    /\ NoVersion \notin Version /\ Damaged \notin Version /\ NoVersion # Damaged
    /\ Builtin \in Version \cup {NoVersion}

VARIABLES
    current, previous,  \* bundle/current, bundle/previous
    swap,       \* .rollback-swap-<pid> of this process
    staging,    \* .staging-<pid>-<nonce>
    works,      \* the versions whose handshake succeeds
    at,         \* where each thread is
    undo        \* the threads whose rollback undoes a deployment that was refused

directories == <<current, previous, swap, staging>>
deployment == <<directories, works, at, undo>>

Slot == Version \cup {NoVersion, Damaged}
Thread == {"command", "supervisor"}
Activating == {"discard", "park", "activate", "first"}
Renaming == Activating \cup {"prepare", "promote", "preserve"}

DeploymentTypeOK ==
    /\ {current, previous, swap, staging} \subseteq Slot
    /\ works \in SUBSET Version
    /\ at \in [Thread -> Renaming \cup {"idle", "check", "decide", "stop", "start", "halt",
                                        "disable"}]
    /\ undo \in SUBSET Thread
    /\ (staging # NoVersion <=> at["command"] \in Activating)

DeploymentInit ==
    /\ current \in Slot \ {Builtin} /\ previous \in Slot \ {Builtin}
    /\ previous = current => current \in {NoVersion, Damaged}
    /\ swap = NoVersion /\ staging = NoVersion
    /\ works \in SUBSET Version
    /\ at = [t \in Thread |-> "idle"] /\ undo = {}

(* resolve_installation; nothing at all is NoVersion. *)
Resolve == IF current # NoVersion THEN current ELSE Builtin

Goes(t, from, to) == at[t] = from /\ at' = [at EXCEPT ![t] = to]

(* What a thread does with an error: the command reports it, the automatic
   rollback switches local AI off. *)
Refused(t) == IF t = "command" THEN "idle" ELSE "disable"

-----------------------------------------------------------------------------
(* activate_directory *)

(* install_update downloads, copies and validates outside of the directories. *)
Stage(v) ==
    /\ v \in works \ {Builtin, current, previous}
    /\ Goes("command", "idle", "discard")
    /\ staging' = v
    /\ UNCHANGED <<current, previous, swap, works, undo>>

Discard ==
    /\ Goes("command", "discard", "park")
    /\ previous' = NoVersion
    /\ UNCHANGED <<current, swap, staging, works, undo>>

(* remove_dir_all fails. *)
DiscardFails ==
    /\ previous # NoVersion /\ Goes("command", "discard", "idle")
    /\ previous' \in {previous, Damaged}
    /\ staging' = NoVersion
    /\ UNCHANGED <<current, swap, works, undo>>

Park ==
    /\ previous = NoVersion \/ current = NoVersion
    /\ Goes("command", "park", IF current = NoVersion THEN "first" ELSE "activate")
    /\ IF current # NoVersion
       THEN previous' = current /\ current' = NoVersion
       ELSE UNCHANGED <<current, previous>>
    /\ UNCHANGED <<swap, staging, works, undo>>

(* The rename fails, or there is something to return to again. *)
ParkFails ==
    /\ current # NoVersion /\ Goes("command", "park", "idle")
    /\ staging' = NoVersion
    /\ UNCHANGED <<current, previous, swap, works, undo>>

Activate ==
    /\ current = NoVersion
    /\ Goes("command", "activate", "check") \/ Goes("command", "first", "check")
    /\ current' = staging /\ staging' = NoVersion
    /\ UNCHANGED <<previous, swap, works, undo>>

(* The rename fails, or there is a deployment again: the old one comes back,
   if there was one and it is still there.  An error of that rename, too, is
   ignored. *)
ActivateFails(restores) ==
    /\ Goes("command", "activate", "idle") \/ Goes("command", "first", "idle")
    /\ IF restores /\ at["command"] = "activate" /\ current = NoVersion /\ previous # NoVersion
       THEN current' = previous /\ previous' = NoVersion
       ELSE UNCHANGED <<current, previous>>
    /\ staging' = NoVersion
    /\ UNCHANGED <<swap, works, undo>>

-----------------------------------------------------------------------------
(* rollback_deployment *)

NothingToRollBack(t) ==
    /\ previous = NoVersion
    /\ Goes(t, "prepare", Refused(t)) /\ undo' = undo \ {t}
    /\ UNCHANGED <<directories, works>>

(* Mutant of Prepare: the replaced deployment is deleted, not set aside. *)
PrepareByDeleting(t) ==
    /\ previous # NoVersion
    /\ Goes(t, "prepare", "promote")
    /\ swap' = NoVersion /\ current' = NoVersion
    /\ UNCHANGED <<previous, staging, works, undo>>

(* A swap that is there is taken for a stale one and removed. *)
Prepare(t) ==
    /\ previous # NoVersion
    /\ Goes(t, "prepare", "promote")
    /\ swap' = current /\ current' = NoVersion
    /\ UNCHANGED <<previous, staging, works, undo>>

(* The swap cannot be removed, or what is installed cannot be set aside. *)
PrepareFails(t) ==
    /\ previous # NoVersion
    /\ Goes(t, "prepare", Refused(t)) /\ undo' = undo \ {t}
    /\ \/ swap # NoVersion /\ swap' \in {swap, Damaged}
       \/ current # NoVersion /\ swap' = NoVersion
    /\ UNCHANGED <<current, previous, staging, works>>

Promote(t) ==
    /\ previous # NoVersion /\ current = NoVersion
    /\ Goes(t, "promote", "preserve")
    /\ current' = previous /\ previous' = NoVersion
    /\ UNCHANGED <<swap, staging, works, undo>>

(* The rename fails, or the other thread was there.  That the deployment
   which was set aside comes back may fail as well, without an error. *)
PromoteFails(t, restores) ==
    /\ Goes(t, "promote", Refused(t)) /\ undo' = undo \ {t}
    /\ IF restores /\ swap # NoVersion /\ current = NoVersion
       THEN current' = swap /\ swap' = NoVersion
       ELSE UNCHANGED <<current, swap>>
    /\ UNCHANGED <<previous, staging, works>>

(* The end of rollback_deployment: an undone deployment stays an error. *)
Preserve(t) ==
    /\ Goes(t, "preserve", IF t \in undo \/ (swap # NoVersion /\ previous # NoVersion)
                           THEN Refused(t) ELSE "check")
    /\ undo' = undo \ {t}
    /\ IF swap # NoVersion /\ previous = NoVersion
       THEN previous' = swap /\ swap' = NoVersion
       ELSE UNCHANGED <<previous, swap>>
    /\ UNCHANGED <<current, staging, works>>

(* The replaced deployment stays in the swap, and this is an error. *)
PreserveFails(t) ==
    /\ swap # NoVersion
    /\ Goes(t, "preserve", Refused(t)) /\ undo' = undo \ {t}
    /\ UNCHANGED <<directories, works>>

-----------------------------------------------------------------------------
(* status: the handshake of what is now installed. *)

(* Mutant of Accept: what is installed is left to the next start. *)
AcceptWithoutRestart(t) ==
    /\ Resolve \in works
    /\ Goes(t, "check", "idle")
    /\ UNCHANGED <<directories, works, undo>>

Accept(t) ==
    /\ Resolve \in works
    /\ Goes(t, "check", IF t = "command" THEN "decide" ELSE "stop")
    /\ UNCHANGED <<directories, works, undo>>

Refuse(t) ==
    /\ Goes(t, "check", "prepare")
    /\ undo' = undo \cup {t}
    /\ UNCHANGED <<directories, works>>

BeginRollback(t) ==
    /\ Goes(t, "idle", "prepare")
    /\ UNCHANGED <<directories, works, undo>>

(* The process is gone: its temporary directories have names that no later
   process uses. *)
LoseProcess ==
    /\ swap' = NoVersion /\ staging' = NoVersion
    /\ at' = [t \in Thread |-> "idle"] /\ undo' = {}
    /\ UNCHANGED <<current, previous, works>>
=============================================================================
