---------------------------- MODULE BatteryHistory ----------------------------
(***************************************************************************)
(* The battery history (src-tauri/src/battery_history.rs and its callers   *)
(* in lib.rs): the samples in memory, their file, and the cache of the     *)
(* responses that are built from them.                                     *)
(*                                                                         *)
(* A pass of a reader records, a command clears, a thread loads the file   *)
(* at the start, the background and the popup build responses.  What a     *)
(* thread does under the lock of the samples is one step; the file is      *)
(* written after it, through one temporary file that they all share.       *)
(***************************************************************************)
EXTENDS SampleGroups

CONSTANTS
    Popup,      \* requests of battery_history_get
    Pass,       \* the devices of a pass that report a reading, in their order
    NoFile, Unreadable, NoCache,
    Retention,  \* for how many samples one of them is kept
    MaxSamples, \* bound on the samples that are about, and on the clock
    MaxClears,  \* bound on the clear commands
    MaxBuilds,  \* bound on the responses that are built
    MaxMishaps  \* bound on restarts, on writes that fail and on clocks set back

ASSUME HistoryBounds == {Retention, MaxSamples, MaxClears, MaxBuilds, MaxMishaps} \subseteq Nat
ASSUME PassAssumption == \A pass \in Pass : pass \in Seq(Device) \ {<<>>} /\ IsInjective(pass)
ASSUME DistinctThreads == Popup \cap {"reader", "builder", "loader", "clear"} = {}

VARIABLES
    memory, last,   \* BatteryHistoryState: samples, last_record
    due,            \* last_persist: nothing has been saved, the first change will be
    file, tmp,      \* battery_history.json and its .json.tmp
    cache,          \* PredictionCache: the samples its responses are built from
    gate,           \* prediction_refresh: who holds it
    at, held,       \* each thread: where it is, the samples it has copied
    clock,          \* Utc::now, at the last pass
    kept,           \* history: samples that nobody has cleared or dropped
    cleared,        \* history: samples that a command has cleared
    races,          \* history: what has met
    clears, builds, mishaps     \* what may still happen

store == <<memory, last, due>>
disk == <<file, tmp>>
history == <<kept, cleared, races>>
bounds == <<clears, builds, mishaps>>
vars == <<store, disk, cache, gate, at, held, clock, history, bounds>>

Thread == {"reader", "builder", "loader", "clear"} \cup Popup
Sample == [at : 1..MaxSamples, dev : Device]
File == [samples : Seq(Sample), old : BOOLEAN]

ASSUME DistinctFiles == NoFile # Unreadable /\ {NoFile, Unreadable} \cap File = {}

InOrderOnce(list) ==
    \A i, j \in DOMAIN list : i < j => list[i].at <= list[j].at /\ list[i] # list[j]

(* Every variable has its type, and as long as the clock has not been set back
   the samples are in the order of their times and none is there twice: of the
   list that record_samples appends to, load_from_disk merges into while it
   grows, and clear_history filters.  The samples of one pass share their time. *)
TypeOK ==
    /\ memory \in Seq(Sample) /\ last \subseteq Sample /\ due \in BOOLEAN
    /\ ("back" \notin races => InOrderOnce(memory))
    /\ {file, tmp} \ {NoFile, Unreadable} \subseteq File
    /\ cache = NoCache \/ cache \in SUBSET Sample
    /\ gate \in Popup \cup {NoCache}
    /\ at \in [Thread -> {"idle", "load", "write", "rename", "merge", "invalidate",
                          "build", "build10d", "set"}]
    /\ held \in [Thread -> Seq(Sample)]
    /\ clock \in 0..MaxSamples
    /\ kept \subseteq Sample /\ cleared \subseteq Sample
    /\ races \subseteq {"early", "partial", "late", "files", "stale", "back"}
    /\ clears \in 0..MaxClears /\ builds \in 0..MaxBuilds /\ mishaps \in 0..MaxMishaps

(* The file of an earlier session, with the samples of some devices, or none. *)
Init ==
    /\ memory = <<>> /\ last = {} /\ due = TRUE
    /\ \E devices \in SeqOf(Device, 2), old \in BOOLEAN :
          LET samples == [i \in DOMAIN devices |-> [at |-> i, dev |-> devices[i]]]
          IN  /\ \/ file = [samples |-> samples, old |-> old]
                 \/ file = NoFile /\ devices = <<>>
              /\ kept = ToSet(samples) /\ clock \in Len(samples)..MaxSamples
    /\ tmp = NoFile /\ cache = NoCache /\ gate = NoCache
    /\ at = [t \in Thread |-> IF t = "loader" THEN "load" ELSE "idle"]
    /\ held = [t \in Thread |-> <<>>]
    /\ cleared = {} /\ races = {}
    /\ clears \in 0..MaxClears /\ builds \in 0..MaxBuilds /\ mishaps \in 0..MaxMishaps

Goes(t, from, to) == at[t] = from /\ at' = [at EXCEPT ![t] = to]
Mishap == mishaps > 0 /\ mishaps' = mishaps - 1 /\ UNCHANGED <<clears, builds>>
Builds == builds > 0 /\ builds' = builds - 1 /\ UNCHANGED <<clears, mishaps>>

-----------------------------------------------------------------------------
(* The file: save_history writes the temporary file and renames it. *)

Saving(t) == at[t] \in {"write", "rename"}
Alone(t) == \A u \in Thread \ {t} : ~Saving(u)
Meets(t) == IF Alone(t) THEN {} ELSE {"files"}

(* Lists that were copied while the loader was at work are out of the way. *)
Settled == IF at'["loader"] = "idle" /\ ~(\E t \in Thread : at'[t] \in {"write", "rename"})
           THEN {"partial"} ELSE {}

Contents(f) == IF f \in {NoFile, Unreadable} THEN {} ELSE ToSet(f.samples)
FileSamples == Contents(file)

AfterSave(t) ==
    CASE t = "loader" -> "merge"
      [] t = "clear" -> "invalidate"
      [] OTHER -> "idle"

(* Two writes at a time leave one of their contents, or a mixture. *)
Write(t) ==
    /\ Goes(t, "write", "rename")
    /\ tmp' \in {[samples |-> held[t], old |-> FALSE]} \cup IF Alone(t) THEN {} ELSE {Unreadable}
    /\ races' = races \cup Meets(t)
    /\ UNCHANGED <<store, file, cache, gate, held, clock, kept, cleared, bounds>>

Rename(t) ==
    /\ tmp # NoFile
    /\ Goes(t, "rename", AfterSave(t))
    /\ file' = tmp /\ tmp' = NoFile
    /\ races' = (races \ Settled) \cup Meets(t)
                      \cup (IF at["loader"] = "load" THEN {"early"} ELSE {})
    /\ held' = IF t = "loader" THEN held ELSE [held EXCEPT ![t] = <<>>]
    /\ UNCHANGED <<store, cache, gate, clock, kept, cleared, bounds>>

(* The error is ignored, but for that of a clear, which ends there. *)
SaveFails(t) ==
    /\ \/ at[t] = "rename" /\ tmp = NoFile /\ UNCHANGED bounds
       \/ Saving(t) /\ Mishap
    /\ at' = [at EXCEPT ![t] = IF t = "clear" THEN "idle" ELSE AfterSave(t)]
    /\ races' = (races \ Settled) \cup Meets(t) \cup IF t = "clear" THEN {"files", "stale"} ELSE {}
    /\ held' = IF t = "loader" THEN held ELSE [held EXCEPT ![t] = <<>>]
    /\ UNCHANGED <<store, disk, cache, gate, clock, kept, cleared>>

-----------------------------------------------------------------------------
(* load_from_disk *)

Load ==
    /\ at["loader"] = "load"
    /\ \/ /\ file = NoFile
          /\ at' = [at EXCEPT !["loader"] = "idle"]
          /\ UNCHANGED <<memory, file, held, races>>
       \/ /\ file = Unreadable
          /\ at' = [at EXCEPT !["loader"] = "idle"]
          /\ memory' = <<>> /\ file' = NoFile /\ UNCHANGED held
          /\ races' = races \cup IF memory = <<>> THEN {} ELSE {"early"}
       \/ /\ file \notin {NoFile, Unreadable}
          /\ at' = [at EXCEPT !["loader"] = IF file.old THEN "write" ELSE "merge"]
          /\ held' = [held EXCEPT !["loader"] = file.samples]
          /\ UNCHANGED <<memory, file, races>>
    /\ UNCHANGED <<last, due, tmp, cache, gate, clock, kept, cleared, bounds>>

(* Mutants of Merged: one of the two sides is taken. *)
DiskOnly(onDisk, inMemory) == onDisk
MemoryOnly(onDisk, inMemory) == IF inMemory = <<>> THEN onDisk ELSE inMemory
(* ... or both, as they are. *)
Concatenated(onDisk, inMemory) == onDisk \o inMemory

(* sort_by_key: a sample goes behind those that are not later. *)
Insert(list, s) ==
    LET before == {i \in DOMAIN list : list[i].at <= s.at}
    IN  Keep(list, before) \o <<s>> \o Keep(list, DOMAIN list \ before)

Sorted(list) ==
    LET sorted[n \in 0..Len(list)] == IF n = 0 THEN <<>> ELSE Insert(sorted[n - 1], list[n])
    IN  sorted[Len(list)]

(* merge_samples: of the memory only what is later than all of the file. *)
Merged(onDisk, inMemory) ==
    Sorted(onDisk \o Keep(inMemory, {i \in DOMAIN inMemory :
                                        \A s \in ToSet(onDisk) : s.at < inMemory[i].at}))

Newest(samples) ==
    {s \in ToSet(samples) : \A u \in ToSet(samples) : Key[u.dev] = Key[s.dev] => u.at <= s.at}

Merge ==
    /\ Goes("loader", "merge", "idle")
    /\ memory' = Merged(held["loader"], memory)
    /\ last' = Newest(memory')
    /\ held' = [held EXCEPT !["loader"] = <<>>]
    /\ races' = races \ Settled
    /\ UNCHANGED <<due, disk, cache, gate, clock, kept, cleared, bounds>>

-----------------------------------------------------------------------------
(* record_samples.  The pass that a popup asks for is one of the reader's. *)

Alive(s) == clock' < s.at + Retention

(* The samples of a pass, one per device, under one time. *)
Readings(pass, now) == [i \in DOMAIN pass |-> [at |-> now, dev |-> pass[i]]]

Used == ToSet(memory) \cup last \cup FileSamples \cup kept \cup cleared

(* Changed readings, or those after DEDUP_INTERVAL.  A pass takes longer than the
   clock's resolution, and even a clock that was set back shows no device the
   same instant again.  Samples that have outlived their retention go.
   PERSIST_INTERVAL has passed, or it has not. *)
Record(pass) ==
    /\ at["reader"] = "idle" /\ clock < MaxSamples
    /\ clock' = clock + 1
    /\ LET new == Readings(pass, clock')
       IN  /\ ToSet(new) \cap Used = {} /\ Cardinality(Used) + Len(new) <= MaxSamples
           /\ memory' = Keep(memory, {i \in DOMAIN memory : Alive(memory[i])}) \o new
           /\ last' = {s \in last : \A i \in DOMAIN pass : Key[s.dev] # Key[pass[i]]}
                       \cup {new[i] : i \in {i \in DOMAIN pass : \A j \in DOMAIN pass :
                                                j > i => Key[pass[j]] # Key[pass[i]]}}
           /\ kept' = {s \in kept : Alive(s)} \cup ToSet(new)
    /\ due' = FALSE
    /\ \/ ~due /\ UNCHANGED <<at, held>>
       \/ Goes("reader", "idle", "write") /\ held' = [held EXCEPT !["reader"] = memory']
    /\ races' = races \cup IF at'["reader"] = "write" /\ at["loader"] # "idle"
                          THEN {"partial"} ELSE {}
    /\ UNCHANGED <<disk, cache, gate, cleared, bounds>>

(* The wall clock is set back, by one unit of its time or, in several steps, by
   more. *)
StepBack ==
    /\ Mishap /\ clock > 0 /\ clock' = clock - 1
    /\ races' = races \cup {"back"}
    /\ UNCHANGED <<store, disk, cache, gate, at, held, kept, cleared>>

-----------------------------------------------------------------------------
(* battery_history_clear *)

(* Mutant of Forgets: the newest readings are kept to compare with. *)
ForgetsNot(gone) == UNCHANGED last

Forgets(gone) == last' = last \ gone

(* gone: what the code removes; meant: what the user wants removed of all that is
   kept; known: of what the memory holds. *)
Clears(gone, meant, known) ==
    /\ clears > 0 /\ clears' = clears - 1 /\ UNCHANGED <<builds, mishaps>>
    /\ Goes("clear", "idle", "write")
    /\ memory' = Keep(memory, {i \in DOMAIN memory : memory[i] \notin gone})
    /\ Forgets(gone)
    /\ held' = [held EXCEPT !["clear"] = memory']
    /\ kept' = kept \ meant /\ cleared' = cleared \cup known
    /\ races' = races \cup (IF at["loader"] = "idle" THEN {} ELSE {"late", "partial"})
                      \cup (IF \E t \in Thread : at[t] \in {"build10d", "set"}
                            THEN {"stale"} ELSE {})
    /\ UNCHANGED <<due, disk, cache, gate, clock>>

ClearAll == Clears(ToSet(memory) \cup last, kept, ToSet(memory))

(* The samples of the group that a key names, in memory and of last. *)
Gone(key) ==
    {s \in ToSet(memory) \cup last :
        key \in KeysOf(s) \/ \E g \in Named(memory, key) : Matches(g, s)}

ClearDevice(key) ==
    Clears(Gone(key), DeviceOf(kept \cup ToSet(memory), key), DeviceOf(ToSet(memory), key))

Invalidate ==
    /\ Goes("clear", "invalidate", "idle")
    /\ cache' = NoCache
    /\ UNCHANGED <<store, disk, gate, held, clock, history, bounds>>

-----------------------------------------------------------------------------
(* battery_history_get, and the builders of responses. *)

(* The end of a pass has a prediction computed in the background. *)
Precompute ==
    /\ Builds /\ Goes("builder", "idle", "build")
    /\ UNCHANGED <<store, disk, cache, gate, held, clock, history>>

(* The cache is missing, or older than PREDICTION_CACHE_TTL; a request that
   has waited at the gate looks at it once more. *)
Get(p) ==
    /\ gate = NoCache /\ gate' = p
    /\ Builds /\ Goes(p, "idle", "build")
    /\ UNCHANGED <<store, disk, cache, held, clock, history>>

(* build_response_pair_with_analysis reads the samples for each range. *)
Build(t) ==
    /\ Goes(t, "build", "build10d") \/ Goes(t, "build10d", "set")
    /\ held' = [held EXCEPT ![t] =
                    @ \o Keep(memory, {i \in DOMAIN memory : memory[i] \notin ToSet(@)})]
    /\ UNCHANGED <<store, disk, cache, gate, clock, history, bounds>>

SetCache(t) ==
    /\ Goes(t, "set", "idle")
    /\ cache' = ToSet(held[t])
    /\ gate' = IF t \in Popup THEN NoCache ELSE gate
    /\ held' = [held EXCEPT ![t] = <<>>]
    /\ UNCHANGED <<store, disk, clock, history, bounds>>

(* A setting that predictions depend on is changed. *)
SettingsChange ==
    /\ cache # NoCache /\ cache' = NoCache
    /\ UNCHANGED <<store, disk, gate, at, held, clock, history, bounds>>

(* The application stops and starts again: what it had not saved is lost, what
   it had not cleared from the file is back. *)
Restart ==
    /\ Mishap
    /\ memory' = <<>> /\ last' = {} /\ due' = TRUE
    /\ cache' = NoCache /\ gate' = NoCache
    /\ at' = [t \in Thread |-> IF t = "loader" THEN "load" ELSE "idle"]
    /\ held' = [t \in Thread |-> <<>>]
    /\ kept' = FileSamples /\ cleared' = cleared \ FileSamples
    /\ races' = races \cap {"back"}
    /\ UNCHANGED <<disk, clock>>

Next ==
    \/ \E t \in Thread : Write(t) \/ Rename(t) \/ SaveFails(t) \/ Build(t) \/ SetCache(t)
    \/ \E pass \in Pass : Record(pass)
    \/ \E d \in Device : ClearDevice(Key[d])
    \/ \E p \in Popup : Get(p)
    \/ Load \/ Merge \/ StepBack \/ Precompute
    \/ ClearAll \/ Invalidate \/ SettingsChange \/ Restart

Spec == Init /\ [][Next]_vars

-----------------------------------------------------------------------------
(* Properties. *)

(* build_sample_groups puts every sample into exactly one group, and two of them
   into the same group exactly if a chain of common names, aliases and ids
   connects them: a sample that links two groups joins them, in whatever order
   the samples were recorded. *)
GroupsAreDevices ==
    LET groups == build_sample_groups(memory)
        Members(g) == {s \in ToSet(memory) : Matches(g, s)}
    IN  /\ \A s \in ToSet(memory) : Cardinality({i \in DOMAIN groups : Matches(groups[i], s)}) = 1
        /\ \A g \in ToSet(groups) : \A s \in Members(g) : Members(g) = Connected(ToSet(memory), {s})

(* Once the loader has merged the file into what was recorded while it was
   reading (load_from_disk, merge_samples), no sample of either side is missing
   that nobody has cleared and that has not outlived its retention.  Excused:
   the file was replaced by a save before the loader had read it, or was found
   unreadable, which empties the memory ("early"); and the clock was set back,
   for merge_samples drops what is not later than the whole file ("back"). *)
NothingForgotten ==
    at["loader"] = "idle" /\ races \cap {"early", "back"} = {} => kept \subseteq ToSet(memory)

(* What battery_history_clear has removed does not come back: neither in memory
   nor as a reading that new ones are compared with; nor in the file, once the
   command has ended; nor in a cached response, which would show it until its
   time to live has passed.  Excused: the loader was still merging the file it
   had read before ("late"), a save of another thread met that of the clear or
   its own save failed ("files"), and a response was being built from samples
   read before, or the failed save kept the cache from being invalidated
   ("stale"). *)
ClearedStaysCleared ==
    /\ "late" \notin races => cleared \cap (ToSet(memory) \cup last) = {}
    /\ at["clear"] = "idle" /\ races \cap {"late", "files"} = {} => cleared \cap FileSamples = {}
    /\ at["clear"] = "idle" /\ races \cap {"late", "stale"} = {} /\ cache # NoCache
          => cleared \cap cache = {}

(* No save takes a sample out of the file that nobody has cleared: what is
   written is all of the memory (record_samples, clear_history), and a restart
   loses only what had not been saved.  Excused: saves that happen while the
   loader is at work, two saves that meet in the temporary file, and what a
   merge has dropped after the clock was set back. *)
SavedStaysSaved ==
    [][(races \cup races') \cap {"early", "partial", "files", "back"} = {}
          => kept' \cap FileSamples \subseteq FileSamples']_vars
=============================================================================
