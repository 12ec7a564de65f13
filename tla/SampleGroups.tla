----------------------------- MODULE SampleGroups -----------------------------
(***************************************************************************)
(* Which battery samples are of one device                                 *)
(* (src-tauri/src/battery_history.rs: SampleGroup, build_sample_groups).   *)
(*                                                                         *)
(* A sample carries the tags of what its device reports of itself: its     *)
(* component with its device id, its identity group, its name and each of  *)
(* its aliases.  Two of them with a tag in common are of one device; so    *)
(* are two that a third connects.  The keys by which the frontend names a  *)
(* device are tags as well.                                                *)
(***************************************************************************)
EXTENDS Naturals, Sequences, FiniteSets, SequencesExt

CONSTANTS
    Device,     \* devices, under the identities they report
    Tags,       \* the tags of their samples
    Key,        \* sample_device_key, one of them
    LegacyKey   \* sample_legacy_key, another one

ASSUME KeysAreTags == \A d \in Device : {Key[d], LegacyKey[d]} \subseteq Tags[d]

TagsOf(s) == Tags[s.dev]
KeysOf(s) == {Key[s.dev], LegacyKey[s.dev]}

Group(s) == [tags |-> TagsOf(s), keys |-> KeysOf(s)]

Matches(g, s) == g.tags \cap TagsOf(s) # {}

(* absorb, add_sample *)
Joined(groups) ==
    [tags |-> UNION {g.tags : g \in groups}, keys |-> UNION {g.keys : g \in groups}]

(* What is left of a list: its elements at the places of I, in their order. *)
Keep(list, I) ==
    LET kept[n \in 0..Len(list)] ==
            IF n = 0 THEN <<>>
            ELSE IF n \in I THEN Append(kept[n - 1], list[n]) ELSE kept[n - 1]
    IN  kept[Len(list)]

(* Mutant of AddSample: the other groups that match are left alone. *)
AddToFirst(groups, s) ==
    LET matching == {i \in DOMAIN groups : Matches(groups[i], s)}
        first == CHOOSE i \in matching : \A j \in matching : i <= j
    IN  IF matching = {} THEN Append(groups, Group(s))
        ELSE [groups EXCEPT ![first] = Joined({@, Group(s)})]

(* One turn of build_sample_groups: the first group that matches takes the
   sample and absorbs the other ones. *)
AddSample(groups, s) ==
    LET matching == {i \in DOMAIN groups : Matches(groups[i], s)}
        first == CHOOSE i \in matching : \A j \in matching : i <= j
        joined == [groups EXCEPT ![first] =
                       Joined({Group(s)} \cup {groups[i] : i \in matching})]
    IN  IF matching = {} THEN Append(groups, Group(s))
        ELSE Keep(joined, DOMAIN groups \ (matching \ {first}))

build_sample_groups(samples) ==
    LET groups[n \in 0..Len(samples)] ==
            IF n = 0 THEN <<>> ELSE AddSample(groups[n - 1], samples[n])
    IN  groups[Len(samples)]

(* The groups that a key names. *)
Named(samples, key) == {g \in ToSet(build_sample_groups(samples)) : key \in g.keys}

-----------------------------------------------------------------------------
(* What it is to mean. *)

Touch(s, t) == TagsOf(s) \cap TagsOf(t) # {}

(* A set of samples that no other one of S touches. *)
Closed(S, C) == \A s \in S, t \in C : Touch(s, t) => s \in C

(* The samples that a chain of common tags connects to those of T: what is in
   every closed set around T. *)
Connected(S, T) == {s \in S : \A C \in SUBSET S : T \subseteq C /\ Closed(S, C) => s \in C}

DeviceOf(S, key) == Connected(S, {s \in S : key \in KeysOf(s)})
=============================================================================
