---------------------------- MODULE ProtocolEngine ----------------------------
(***************************************************************************)
(* The protocol engine on one HID path: workflows, mutations and their     *)
(* transactions, and the exchanges they are made of                        *)
(* (crates/mira-plugin-runtime/src/engine.rs).                             *)
(*                                                                         *)
(* Calls are serialized by device_io.  What is not sequential is the       *)
(* device: it answers late, not at all or with an error, and reports       *)
(* events of its own.  An answer carries the function it belongs to (the   *)
(* first three bytes, or the RACE id) and neither the arguments nor a      *)
(* number of the request.                                                  *)
(*                                                                         *)
(* A question is a command with its argument; the answers to two commands  *)
(* are told apart, those to two arguments of one command are not.          *)
(***************************************************************************)
EXTENDS Integers, Sequences, SequencesExt

CONSTANTS
    Workflow,       \* the plugin's read workflow: a sequence of steps
    ChunkPolicy,    \* onFailure of the steps that read the onboard memory
    RollbackPolicy, \* onFailure of the step that writes the old value back
    Projections,    \* the sets of steps that a read asks for, all of them among it
    Supported,      \* the features the device has
    Chunks,         \* number of chunks of the onboard memory
    Packets,        \* packets of a multi-packet answer on a framed transport
    Retries,        \* readRetries
    Drains,         \* staleDrainReads, on a framed transport
    MaxReports,     \* MAX_REPORTS
    MaxFaults, MaxEvents, MaxJobs    \* bounds on what the device and the host do

ASSUME PolicyAssumption == {ChunkPolicy, RollbackPolicy} \subseteq {"abort", "continue"}
ASSUME SizeAssumption ==
    {Chunks, Packets, Retries, MaxReports} \subseteq Nat \ {0} /\ Drains \in Nat
ASSUME BoundAssumption == {MaxFaults, MaxEvents, MaxJobs} \subseteq Nat

Chunk == 1..Chunks
Old == 0
New == 1

Ask(what, n) == [what |-> what, n |-> n]
Step(ask, policy, needs) == [ask |-> ask, policy |-> policy, needs |-> needs]

(* A read workflow looks features up and reads registers and tables. *)
ReadQuestion == [what : {"index", "value", "table"}, n : Nat]
ASSUME WorkflowAssumption ==
    Workflow \in Seq([ask : ReadQuestion, policy : {"abort", "continue"},
                      needs : SUBSET ReadQuestion])

Steps == {Workflow[i] : i \in DOMAIN Workflow}
Value == Ask("value", 0)
Questions ==
    {s.ask : s \in Steps} \cup {Value, Ask("start", 0), Ask("end", 0)}
    \cup {Ask("chunk", c) : c \in Chunk} \cup {Ask("put", c) : c \in Chunk}
    \cup {Ask("set", v) : v \in {Old, New}}

VARIABLES
    reg,        \* the register that a mutation changes
    mem,        \* the onboard sector: whose chunk is stored where, and patched
    buffer,     \* what arrived since a memory write was started
    transit,    \* reports that the device will still deliver
    input,      \* reports queued in the open handle
    handle,     \* "closed", "cached" in HidHandleCache, or taken by a "session"
    features,   \* FeatureIndexCache: for each feature whose answer is stored
    transport,
    job,        \* the call of the host
    phase,      \* the session of the call that runs: a workflow or a write
    pc,
    todo,       \* what is left of the session
    tries, got, \* of the exchange under way: read attempts, collected packets
    outputs,
    image,      \* the sector that was read and is patched and written
    reports,
    deadline, budget,   \* of the session, and of the transaction
    result,
    tainted,    \* history: an answer was outstanding when its like was asked
    faults, events, jobs

device == <<reg, mem, buffer>>
wire == <<transit, input, handle>>
caches == <<features, transport>>
call == <<job, phase, image, budget, result, jobs>>
session == <<pc, todo, tries, got, outputs, reports, deadline>>
bounds == <<faults, events>>
vars == <<device, wire, caches, call, session, tainted, bounds>>

Blank == [of |-> 0, patched |-> FALSE]
Original == [c \in Chunk |-> [of |-> c, patched |-> FALSE]]
Idle == [kind |-> "none", targets |-> {}, tx |-> FALSE, memory |-> FALSE, direct |-> FALSE,
         before |-> Old]
Nothing == <<>>

(* BTreeMap::insert, HashMap::insert *)
Insert(map, key, value) ==
    [k \in DOMAIN map \cup {key} |-> IF k = key THEN value ELSE map[k]]

Init ==
    /\ reg = Old /\ mem = Original /\ buffer = Nothing
    /\ transit = Nothing /\ input = Nothing /\ handle = "closed"
    /\ features = Nothing /\ transport \in {"output-input", "framed"}
    /\ job = Idle /\ phase = "idle" /\ pc = "open"
    /\ todo = Nothing /\ tries = 0 /\ got = Nothing /\ outputs = Nothing
    /\ image = Original /\ reports = 0 /\ deadline = "none" /\ budget = "none"
    /\ result = "none" /\ tainted = FALSE
    /\ faults = 0 /\ events = 0 /\ jobs = 0

Fault == faults < MaxFaults /\ faults' = faults + 1 /\ UNCHANGED events

-----------------------------------------------------------------------------
(* The device and the system's queue of input reports. *)

PacketsOf(q) == IF transport = "framed" /\ q.what = "table" THEN Packets ELSE 1
Report(q, k, last, value, data) ==
    [ask |-> q, part |-> k, last |-> last, refused |-> FALSE, value |-> value, data |-> data]
Event == Report(Ask("event", 0), 1, TRUE, 0, Blank)

Answer(q) ==
    LET value == CASE q.what = "index" -> IF q.n \in Supported THEN q.n ELSE 0
                   [] q.what = "value" -> reg
                   [] OTHER -> 0
        data == IF q.what = "chunk" THEN mem[q.n] ELSE Blank
    IN  [k \in 1..PacketsOf(q) |-> Report(q, k, k = PacketsOf(q), value, data)]

Refusal(q) == <<[Report(q, 1, TRUE, 0, Blank) EXCEPT !.refused = TRUE]>>

(* The device carries out what it is sent. *)
Execute(q, content) ==
    /\ reg' = IF q.what = "set" THEN q.n ELSE reg
    /\ buffer' = CASE q.what = "start" -> Nothing
                   [] q.what = "put" -> Append(buffer, content)
                   [] OTHER -> buffer
    /\ mem' = IF q.what = "end" /\ Len(buffer) = Chunks THEN buffer ELSE mem

(* A report reaches the open handle, or nobody. *)
Deliver ==
    /\ transit # Nothing
    /\ transit' = Tail(transit)
    /\ input' = IF handle = "closed" THEN input ELSE Append(input, Head(transit))
    /\ UNCHANGED <<device, handle, caches, call, session, tainted, bounds>>

(* Mutant of Hotplug: a handle that a session uses is closed under it. *)
HotplugAnyHandle ==
    /\ handle # "closed" /\ events < MaxEvents
    /\ events' = events + 1
    /\ handle' = "closed" /\ input' = Nothing
    /\ UNCHANGED <<device, transit, caches, call, session, tainted, faults>>

(* The hotplug watcher empties HidHandleCache; a handle that a session has taken
   is given back later. *)
Hotplug ==
    /\ handle = "cached" /\ events < MaxEvents
    /\ events' = events + 1
    /\ handle' = "closed" /\ input' = Nothing
    /\ UNCHANGED <<device, transit, caches, call, session, tainted, faults>>

(* A button, a battery level, the wheel. *)
Notify ==
    /\ handle # "closed" /\ events < MaxEvents
    /\ events' = events + 1
    /\ input' = Append(input, Event)
    /\ UNCHANGED <<device, transit, handle, caches, call, session, tainted, faults>>

-----------------------------------------------------------------------------
(* The host's calls, and the sessions a call consists of. *)

(* compute_projection: the steps that yield the targets, and what they refer
   to, directly or not. *)
Projection(targets) ==
    LET Close[k \in 0..Len(Workflow)] ==
            IF k = 0 THEN targets
            ELSE Close[k - 1] \cup UNION {s.needs : s \in {t \in Steps : t.ask \in Close[k - 1]}}
    IN  Close[Len(Workflow)]

ReadMemory == [c \in Chunk |-> Step(Ask("chunk", c), ChunkPolicy, {})]

(* execute_memory_mutation: the patch lies in the first chunk; a sector that it
   does not change is not written. *)
Patched == [image EXCEPT ![1].patched = TRUE]
WriteMemory ==
    IF Patched = image THEN Nothing
    ELSE <<Step(Ask("start", 0), "abort", {})>>
         \o [c \in Chunk |-> Step(Ask("put", c), "abort", {})]
         \o <<Step(Ask("end", 0), "abort", {})>>

Mutation ==
    (IF job.memory THEN WriteMemory ELSE <<Step(Value, "abort", {})>>)
    \o (IF job.direct THEN <<Step(Ask("set", New), "abort", {}), Step(Value, "abort", {})>>
        ELSE Nothing)

StepsOf(p) ==
    CASE p = "read" -> Workflow
      [] p = "snapshot" -> <<Step(Value, "abort", {})>>
      [] p \in {"image", "readback"} -> ReadMemory
      [] p = "write" -> Mutation
      [] p = "rollback" -> <<Step(Ask("set", job.before), RollbackPolicy, {})>>

Misplaced == \E c \in Chunk : mem[c].of # c
Mistaken == \E f \in DOMAIN features : features[f].asks # {Ask("index", f)}

Begin(j, first) ==
    /\ phase = "idle" /\ jobs < MaxJobs
    /\ jobs' = jobs + 1
    /\ job' = j /\ phase' = first /\ result' = "none"
    /\ budget' = IF j.tx THEN "ahead" ELSE "none"
    /\ outputs' = Nothing /\ image' = Original
    /\ tainted' = (Misplaced \/ Mistaken)
    /\ UNCHANGED <<device, wire, caches, pc, todo, tries, got, reports, deadline, bounds>>

(* read_device_with_projection, read_device *)
Read ==
    \E targets \in Projections :
        Begin([Idle EXCEPT !.kind = "read", !.targets = targets], "read")

(* mutate, mutate_in_transaction *)
Mutate ==
    \E tx, memory, direct \in BOOLEAN :
        /\ memory \/ direct
        /\ Begin([Idle EXCEPT !.kind = "mutate", !.tx = tx, !.memory = memory,
                              !.direct = direct],
                 IF tx THEN "snapshot" ELSE IF memory THEN "image" ELSE "write")

Goto(p) == phase' = p /\ UNCHANGED result
End(r) == phase' = "idle" /\ result' = r

MutationFails == IF job.tx THEN Goto("rollback") ELSE End("error")

(* What the caller of a session that failed does. *)
AfterFailure ==
    CASE phase \in {"read", "snapshot"} -> End("error")
      [] phase = "rollback" -> End("inconsistent")
      [] OTHER -> MutationFails

(* take_or_open_device *)
Open ==
    /\ phase # "idle" /\ pc = "open"
    /\ \/ /\ handle' = "session" /\ pc' = "step" /\ todo' = StepsOf(phase)
          /\ outputs' = Nothing /\ reports' = 0 /\ deadline' = "none"
          /\ UNCHANGED <<phase, result, bounds>>
       \/ /\ handle = "closed" /\ Fault /\ AfterFailure
          /\ UNCHANGED <<handle, pc, todo, outputs, reports, deadline>>
    /\ UNCHANGED <<device, transit, input, caches, job, image, budget, jobs, tries, got, tainted>>

(* A failed session drops its handle; a step that may fail is passed over. *)
StepFails(queue) ==
    /\ tries' = 0 /\ got' = Nothing
    /\ IF Head(todo).policy = "continue"
       THEN /\ todo' = Tail(todo) /\ pc' = "step" /\ input' = queue
            /\ UNCHANGED <<handle, phase, result, outputs>>
       ELSE /\ todo' = Nothing /\ pc' = "open" /\ outputs' = Nothing
            /\ handle' = "closed" /\ input' = Nothing
            /\ AfterFailure

-----------------------------------------------------------------------------
(* A step before its question is sent. *)

AtStep == pc = "step" /\ todo # Nothing
Now == Head(todo).ask
Needs == Head(todo).needs

(* Outside of the projection, or skipIfZero: the feature that a step refers to is
   not there. *)
Selected == phase = "read" => Now \in Projection(job.targets)

Skip ==
    /\ AtStep /\ (~Selected \/ \E n \in Needs \cap DOMAIN outputs : outputs[n].value = 0)
    /\ todo' = Tail(todo)
    /\ UNCHANGED <<device, wire, caches, call, pc, tries, got, outputs, reports, deadline,
                   tainted, bounds>>

Ready == AtStep /\ Selected /\ \A n \in Needs \cap DOMAIN outputs : outputs[n].value # 0

(* resolve_workflow_params *)
MissingParam ==
    /\ Ready /\ ~(Needs \subseteq DOMAIN outputs)
    /\ StepFails(input)
    /\ UNCHANGED <<device, transit, caches, job, image, budget, jobs, reports, deadline, tainted,
                   bounds>>

Cached == Now.what = "index" /\ Now.n \in DOMAIN features

UseCache ==
    /\ Ready /\ Needs \subseteq DOMAIN outputs /\ Cached
    /\ outputs' = Insert(outputs, Now, features[Now.n])
    /\ todo' = Tail(todo)
    /\ UNCHANGED <<device, wire, caches, call, pc, tries, got, reports, deadline, tainted,
                   bounds>>

Asking == Ready /\ Needs \subseteq DOMAIN outputs /\ ~Cached

(* build_command refuses the parameters; execute_command returns before it puts
   the session's deadline back, and the transport's stays. *)
BuildFails ==
    /\ Asking /\ Fault
    /\ deadline' = IF deadline = "none" THEN "ahead" ELSE deadline
    /\ StepFails(input)
    /\ UNCHANGED <<device, transit, caches, job, image, budget, jobs, reports, tainted>>

(* The transaction's deadline is inherited by its snapshot, its write and its
   rollback; the onboard memory is read and read back without it. *)
Passed ==
    \/ deadline = "passed"
    \/ budget = "passed" /\ phase \in {"snapshot", "write", "rollback"}

Tick ==
    /\ phase # "idle" /\ Fault
    /\ \/ deadline = "ahead" /\ deadline' = "passed" /\ UNCHANGED budget
       \/ budget = "ahead" /\ budget' = "passed" /\ UNCHANGED deadline
    /\ UNCHANGED <<device, wire, caches, job, phase, image, result, jobs, pc, todo, tries, got,
                   outputs, reports, tainted>>

-----------------------------------------------------------------------------
(* One exchange: output_input_exchange or framed_exchange. *)

Fragments == IF transport = "framed" /\ Now.what = "put" THEN 2 ELSE 1
Answered == ~(phase = "write" /\ Now.what = "set")

(* The stale drain of a framed transport. *)
Drained ==
    IF transport = "framed" THEN SubSeq(input, Drains + 1, Len(input)) ELSE input

(* History: an answer that can be taken for the one to `Now` is outstanding. *)
Leftover ==
    \E r \in ToSet(Drained \o transit) :
        r.ask # Event.ask /\ (r.ask.what = Now.what \/ PacketsOf(Now) > 1)

Content == IF Now.what = "put" THEN Patched[Now.n] ELSE mem[1]

(* The limit of reports or the deadline is met before the question is sent, or
   the write fails. *)
SendFails ==
    /\ Asking
    /\ reports' = IF reports + Fragments > MaxReports THEN MaxReports + 1 ELSE reports + Fragments
    /\ \/ reports' > MaxReports /\ UNCHANGED bounds
       \/ Passed /\ UNCHANGED bounds
       \/ Fault
    /\ StepFails(Drained)
    /\ UNCHANGED <<device, transit, caches, job, image, budget, jobs, deadline, tainted>>

(* The question goes out.  The device carries it out and answers, refuses it,
   or is not there, or its answer is lost in whole or in part. *)
Send ==
    /\ Asking
    /\ reports + Fragments <= MaxReports /\ ~Passed
    /\ reports' = reports + Fragments
    /\ \/ Execute(Now, Content) /\ transit' = transit \o Answer(Now) /\ UNCHANGED bounds
       \/ /\ Execute(Now, Content) /\ Fault
          /\ \E k \in 0 .. PacketsOf(Now) - 1 :
                transit' = transit \o SubSeq(Answer(Now), 1, k)
       \/ UNCHANGED <<device, transit>> /\ Fault
       \/ UNCHANGED device /\ transit' = transit \o Refusal(Now) /\ Fault
    /\ input' = Drained
    /\ tainted' = (tainted \/ Leftover)
    /\ IF Answered THEN pc' = "reading" /\ UNCHANGED todo
                   ELSE pc' = "step" /\ todo' = Tail(todo)
    /\ UNCHANGED <<handle, caches, call, tries, got, outputs, deadline>>

(* Mutant of Matches: any input report is the answer. *)
MatchesAny(r) == r.part = 1

Matches(r) == r.part = 1 /\ r.ask.what = Now.what

(* Mutant of Miss: a report for somebody else costs no attempt. *)
MissUncounted(queue) ==
    /\ input' = queue
    /\ UNCHANGED <<handle, phase, result, pc, todo, tries, got, outputs>>

(* One of the read attempts is used up. *)
Miss(queue) ==
    IF tries + 1 = Retries
    THEN StepFails(queue)
    ELSE /\ tries' = tries + 1 /\ input' = queue
         /\ UNCHANGED <<handle, phase, result, pc, todo, got, outputs>>

Verifying == phase = "write" /\ Now = Value /\ Len(todo) = 1 /\ job.direct

(* Mutant of Passes: the answer of the verification read is not compared. *)
PassesAlways(value) == TRUE

(* verify_assertions *)
Passes(value) == Verifying => value = New

(* The answer is complete: parsed, remembered, compared. *)
Accept(packets, queue) ==
    LET answer == [asks |-> {r.ask : r \in ToSet(packets)},
                   value |-> Head(packets).value, data |-> Head(packets).data]
    IN  IF Passes(answer.value)
        THEN /\ outputs' = Insert(outputs, Now, answer)
             /\ tries' = 0 /\ got' = Nothing
             /\ features' = IF Now.what = "index" THEN Insert(features, Now.n, answer)
                                                  ELSE features
             /\ todo' = Tail(todo) /\ pc' = "step" /\ input' = queue
             /\ UNCHANGED <<handle, phase, result>>
        ELSE StepFails(queue) /\ UNCHANGED features

Reading == pc = "reading" /\ input # Nothing /\ ~Passed
Unread == UNCHANGED <<device, transit, transport, job, image, budget, jobs, reports, deadline,
                      tainted, bounds>>

(* The first packet: an error frame, the answer, or a report that is not for us. *)
Receive ==
    /\ Reading /\ got = Nothing
    /\ LET r == Head(input)
           rest == Tail(input)
       IN  \/ Matches(r) /\ r.refused /\ StepFails(rest) /\ UNCHANGED features
           \/ Matches(r) /\ ~r.refused /\ r.last /\ Accept(<<r>>, rest)
           \/ /\ Matches(r) /\ ~r.refused /\ ~r.last
              /\ got' = <<r>> /\ input' = rest
              /\ UNCHANGED <<handle, phase, result, pc, todo, tries, outputs, features>>
           \/ ~Matches(r) /\ Miss(rest) /\ UNCHANGED features
    /\ Unread

Unrelated(r) == r.ask = Event.ask

(* A packet that follows.  It carries no number: whatever has the frame's type
   is added, another first packet ends the exchange. *)
Continue ==
    /\ Reading /\ got # Nothing
    /\ LET r == Head(input)
           rest == Tail(input)
           all == Append(got, r)
           follows == ~Unrelated(r) /\ (r.part > 1 \/ r.last)
       IN  \/ /\ Unrelated(r)
              /\ input' = rest
              /\ UNCHANGED <<handle, phase, result, pc, todo, tries, got, outputs, features>>
           \/ /\ ~Unrelated(r) /\ ~follows
              /\ StepFails(rest) /\ UNCHANGED features
           \/ /\ follows /\ Len(all) < Packets
              /\ got' = all /\ input' = rest
              /\ UNCHANGED <<handle, phase, result, pc, todo, tries, outputs, features>>
           \/ follows /\ Len(all) = Packets /\ Accept(all, rest)
    /\ Unread

(* read_timeout returns nothing: because nothing comes, or too early. *)
Timeout ==
    /\ pc = "reading" /\ input = Nothing
    /\ \/ transit = Nothing /\ UNCHANGED bounds
       \/ transit # Nothing /\ Fault
    /\ IF got = Nothing THEN Miss(input) ELSE StepFails(input)
    /\ UNCHANGED <<device, transit, caches, job, image, budget, jobs, reports, deadline, tainted>>

(* The deadline of the session or of the exchange passes between two reads. *)
Expire ==
    /\ pc = "reading"
    /\ \/ Passed /\ UNCHANGED bounds
       \/ ~Passed /\ Fault
    /\ StepFails(input)
    /\ UNCHANGED <<device, transit, caches, job, image, budget, jobs, reports, deadline, tainted>>

-----------------------------------------------------------------------------
(* The end of a session, and what comes after it in a call. *)

Complete == \A c \in Chunk : Ask("chunk", c) \in DOMAIN outputs
ImageRead == [c \in Chunk |-> outputs[Ask("chunk", c)].data]

(* Mutant of AfterImage: a chunk that is missing stays zero. *)
AfterImageZeroed ==
    /\ image' = [c \in Chunk |-> IF Ask("chunk", c) \in DOMAIN outputs
                                 THEN outputs[Ask("chunk", c)].data ELSE Blank]
    /\ Goto("write")

(* read_memory_mutation; a wrong CRC is only reported. *)
AfterImage ==
    IF Complete THEN image' = ImageRead /\ Goto("write")
                ELSE MutationFails /\ UNCHANGED image

AfterReadback ==
    IF Complete /\ ImageRead = Patched THEN End("ok") ELSE MutationFails

(* return_device, then the next part of the call. *)
Finish ==
    /\ pc = "step" /\ todo = Nothing
    /\ handle' = "cached" /\ pc' = "open"
    /\ \/ phase = "read" /\ End("ok") /\ UNCHANGED <<job, image>>
       \/ /\ phase = "snapshot" /\ job' = [job EXCEPT !.before = outputs[Value].value]
          /\ Goto(IF job.memory THEN "image" ELSE "write") /\ UNCHANGED image
       \/ phase = "image" /\ AfterImage /\ UNCHANGED job
       \/ /\ phase = "write" /\ UNCHANGED <<job, image>>
          /\ IF job.memory THEN Goto("readback") ELSE End("ok")
       \/ phase = "readback" /\ AfterReadback /\ UNCHANGED <<job, image>>
       \/ phase = "rollback" /\ End("restored") /\ UNCHANGED <<job, image>>
    /\ UNCHANGED <<device, transit, input, caches, budget, jobs, todo, tries, got, outputs,
                   reports, deadline, tainted, bounds>>

Engine ==
    \/ Open \/ Skip \/ MissingParam \/ UseCache \/ BuildFails \/ SendFails \/ Send
    \/ Receive \/ Continue \/ Timeout \/ Expire \/ Finish

Next == Read \/ Mutate \/ Engine \/ Deliver \/ Notify \/ Hotplug \/ Tick

Spec == Init /\ [][Next]_vars

(* The thread of the call runs, and reports on their way arrive. *)
FairSpec == Spec /\ WF_vars(Engine) /\ WF_vars(Deliver)

-----------------------------------------------------------------------------
(* Properties. *)

Contents == [of : 0..Chunks, patched : BOOLEAN]
Sector == [Chunk -> Contents]
Deadlines == {"none", "ahead", "passed"}
Reports ==
    {r \in [ask : Questions \cup {Event.ask}, part : 1..Packets, last : BOOLEAN,
            refused : BOOLEAN, value : Nat, data : Contents] :
        /\ ~r.last => r.part < Packets
        /\ r.ask.what = "value" => r.value \in {Old, New}}
Values == [asks : SUBSET (Questions \cup {Event.ask}), value : Nat, data : Contents]

(* The type invariant: a session has its handle and nobody else has it, an
   exchange under way belongs to a step, and the old value that a transaction
   would write back is one the register can have. *)
TypeOK ==
    /\ reg \in {Old, New} /\ mem \in Sector /\ buffer \in Seq(Contents)
    /\ transit \in Seq(Reports) /\ input \in Seq(Reports) /\ got \in Seq(Reports)
    /\ handle \in {"closed", "cached", "session"}
    /\ (pc # "open" <=> handle = "session") /\ (phase = "idle" => pc = "open")
    /\ DOMAIN features \subseteq Nat /\ \A f \in DOMAIN features : features[f] \in Values
    /\ transport \in {"output-input", "framed"}
    /\ phase \in {"idle", "read", "snapshot", "image", "write", "readback", "rollback"}
    /\ pc \in {"open", "step", "reading"} /\ (pc = "reading" => todo # Nothing)
    /\ tries \in 0 .. Retries - 1 /\ Len(got) < Packets
    /\ DOMAIN outputs \subseteq Questions /\ \A q \in DOMAIN outputs : outputs[q] \in Values
    /\ image \in Sector /\ reports \in 0 .. MaxReports + 1
    /\ {deadline, budget} \subseteq Deadlines
    /\ job.kind \in {"none", "read", "mutate"} /\ job.before \in {Old, New}
    /\ result \in {"none", "ok", "error", "restored", "inconsistent"}
    /\ tainted \in BOOLEAN
    /\ faults \in 0..MaxFaults /\ events \in 0..MaxEvents /\ jobs \in 0..MaxJobs

(* What a workflow or the cache of feature indices took for the answer to a
   question is the answer to it, in all its packets, whatever arrives around
   it; unless the answer to one of its kind was still outstanding. *)
OwnAnswers ==
    ~tainted => /\ \A q \in DOMAIN outputs : outputs[q].asks = {q}
                /\ ~Mistaken

(* "Done" and "restored" are true: the device holds the new value, and the
   patched sector; or what it held before, if the workflow that restores it was
   answered at all. *)
HonestResult ==
    /\ result = "ok" /\ job.kind = "mutate" /\ ~tainted
       => (job.direct => reg = New) /\ (job.memory => mem[1].patched)
    /\ result = "restored" /\ Ask("set", job.before) \in DOMAIN outputs /\ ~tainted
       => reg = job.before

(* "The memory patch only touches specific byte offsets": every other chunk of
   the sector keeps its place and its bytes, whichever step of a write fails. *)
PatchStaysInPlace == \A c \in Chunk : mem[c].of = c
SectorKept == ~tainted => PatchStaysInPlace

(* "No workflow occupies the HID channel without a bound." *)
SessionEnds == phase # "idle" ~> phase = "idle"
=============================================================================
