------------------------ MODULE ProtocolEngine_proofs ------------------------
(***************************************************************************)
(* Type correctness of ProtocolEngine, and what a call may be relied on    *)
(* for: answers that are its own, results that are true and a sector that  *)
(* keeps its layout.  For every workflow, number of chunks, packets and    *)
(* attempts, limit of reports, and number of faults, events and calls.     *)
(***************************************************************************)
EXTENDS ProtocolEngine, SequenceTheorems, TLAPS

-----------------------------------------------------------------------------
(* Questions and steps. *)

LEMMA Sizes ==
  /\ Chunks \in Nat \ {0} /\ Packets \in Nat \ {0} /\ Retries \in Nat \ {0}
  /\ MaxReports \in Nat \ {0} /\ Drains \in Nat
  /\ MaxFaults \in Nat /\ MaxEvents \in Nat /\ MaxJobs \in Nat
  /\ ChunkPolicy \in {"abort", "continue"} /\ RollbackPolicy \in {"abort", "continue"}
  BY SizeAssumption, BoundAssumption, PolicyAssumption

StepSet == [ask : Questions, policy : {"abort", "continue"}, needs : SUBSET ReadQuestion]

(* The questions of the read workflow. *)
LEMMA WorkflowSteps ==
  /\ Workflow \in Seq(StepSet)
  /\ \A i \in DOMAIN Workflow : Workflow[i].ask \in ReadQuestion
<1> DEFINE Reads == [ask : ReadQuestion, policy : {"abort", "continue"},
                     needs : SUBSET ReadQuestion]
<1>1. Workflow \in Seq(Reads)
  BY WorkflowAssumption
<1>2. \A i \in DOMAIN Workflow : Workflow[i] \in Reads /\ Workflow[i].ask \in Questions
  <2>1. \A i \in DOMAIN Workflow : Workflow[i] \in Reads
    <3> HIDE DEF Reads
    <3>1. QED BY <1>1, ElementOfSeq, LenProperties
  <2>2. QED BY <2>1 DEF Questions, Steps
<1>3. \A i \in DOMAIN Workflow : Workflow[i] \in StepSet
  BY <1>2 DEF StepSet
<1>4. Len(Workflow) \in Nat /\ DOMAIN Workflow = 1..Len(Workflow)
      /\ Workflow = [i \in 1..Len(Workflow) |-> Workflow[i]]
  <2> HIDE DEF Reads
  <2>1. QED BY <1>1, LenProperties
<1>5. QED BY <1>2, <1>3, <1>4

LEMMA QuestionFacts ==
  ASSUME NEW q \in Questions
  PROVE  /\ q.n \in Nat /\ q = Ask(q.what, q.n) /\ q.what # "event"
         /\ q.what \in {"index", "value", "table"} => q \in ReadQuestion
         /\ q.what \in {"chunk", "put"} => q.n \in Chunk
         /\ q.what = "set" => q.n \in {Old, New}
<1>1. CASE q \in {s.ask : s \in Steps}
  <2>1. q \in ReadQuestion
    BY <1>1, WorkflowSteps DEF Steps
  <2>2. QED BY <2>1 DEF ReadQuestion, Ask
<1>2. CASE q \in {Value, Ask("start", 0), Ask("end", 0)}
  BY <1>2 DEF Value, Ask, ReadQuestion
<1>3. CASE q \in {Ask("chunk", c) : c \in Chunk} \cup {Ask("put", c) : c \in Chunk}
  BY <1>3, Sizes DEF Ask, Chunk
<1>4. CASE q \in {Ask("set", v) : v \in {Old, New}}
  BY <1>4 DEF Ask, Old, New
<1>5. QED BY <1>1, <1>2, <1>3, <1>4 DEF Questions

LEMMA QuestionMembers ==
  /\ Value \in Questions /\ Ask("start", 0) \in Questions /\ Ask("end", 0) \in Questions
  /\ \A c \in Chunk : Ask("chunk", c) \in Questions /\ Ask("put", c) \in Questions
  /\ \A v \in {Old, New} : Ask("set", v) \in Questions
  /\ Event.ask \notin Questions /\ Event.ask.what = "event"
<1>1. Event.ask.what = "event"
  BY DEF Event, Report, Ask
<1>2. Event.ask \notin Questions
  BY <1>1, QuestionFacts
<1>3. QED BY <1>1, <1>2 DEF Questions

(* The steps of a session that does not read the plugin's workflow: they are
   carried out in any case. *)
LEMMA ReadMemorySteps ==
  /\ ReadMemory \in Seq(StepSet) /\ Len(ReadMemory) = Chunks
  /\ \A c \in Chunk : /\ ReadMemory[c].ask = Ask("chunk", c)
                      /\ ReadMemory[c].needs = {}
<1>1. \A c \in Chunk : Step(Ask("chunk", c), ChunkPolicy, {}) \in StepSet
  BY QuestionMembers, Sizes DEF Step, StepSet
<1>2. QED BY <1>1, Sizes DEF ReadMemory, Chunk, Step

Puts == [c \in Chunk |-> Step(Ask("put", c), "abort", {})]

LEMMA WriteMemorySteps ==
  WriteMemory # Nothing =>
    /\ WriteMemory \in Seq(StepSet) /\ Len(WriteMemory) = Chunks + 2
    /\ WriteMemory[1] = Step(Ask("start", 0), "abort", {})
    /\ \A c \in Chunk : WriteMemory[c + 1] = Step(Ask("put", c), "abort", {})
    /\ WriteMemory[Chunks + 2] = Step(Ask("end", 0), "abort", {})
<1> SUFFICES ASSUME WriteMemory # Nothing
             PROVE  /\ WriteMemory \in Seq(StepSet) /\ Len(WriteMemory) = Chunks + 2
                    /\ WriteMemory[1] = Step(Ask("start", 0), "abort", {})
                    /\ \A c \in Chunk : WriteMemory[c + 1] = Step(Ask("put", c), "abort", {})
                    /\ WriteMemory[Chunks + 2] = Step(Ask("end", 0), "abort", {})
  OBVIOUS
<1> DEFINE first == Step(Ask("start", 0), "abort", {})
           final == Step(Ask("end", 0), "abort", {})
<1>1. first \in StepSet /\ final \in StepSet /\ \A c \in Chunk : Puts[c] \in StepSet
  BY QuestionMembers DEF Step, StepSet, Puts
<1>2. Puts \in Seq(StepSet) /\ Len(Puts) = Chunks
  BY <1>1, Sizes DEF Puts, Chunk
<1>3. WriteMemory = <<first>> \o Puts \o <<final>>
  BY DEF WriteMemory, Puts
<1>4. \A c \in Chunk : Puts[c] = Step(Ask("put", c), "abort", {})
  BY DEF Puts
<1> HIDE DEF first, final, Puts
<1>5. <<first>> \in Seq(StepSet) /\ <<final>> \in Seq(StepSet)
      /\ Len(<<first>>) = 1 /\ Len(<<final>>) = 1
  BY <1>1
<1>6. <<first>> \o Puts \in Seq(StepSet) /\ Len(<<first>> \o Puts) = Chunks + 1
      /\ (<<first>> \o Puts)[1] = first /\ \A c \in Chunk : (<<first>> \o Puts)[c + 1] = Puts[c]
  BY <1>2, <1>5, Sizes DEF Chunk
<1>7. WriteMemory \in Seq(StepSet) /\ Len(WriteMemory) = Chunks + 2
      /\ WriteMemory[1] = first /\ WriteMemory[Chunks + 2] = final
      /\ \A c \in Chunk : WriteMemory[c + 1] = Puts[c]
  BY <1>3, <1>5, <1>6, Sizes DEF Chunk
<1>8. QED BY <1>4, <1>7 DEF first, final

(* What precedes a step that writes the sector. *)
Ordered(s) ==
    \A i \in 1..Len(s) :
        /\ s[i].needs = {} /\ s[i].policy = "abort"
        /\ s[i].ask.what \in {"value", "start", "put", "end", "set"}
        /\ s[i].ask.what = "put" =>
              /\ i > 1
              /\ \/ s[i].ask.n = 1 /\ s[i - 1].ask.what = "start"
                 \/ s[i].ask.n > 1 /\ s[i - 1].ask = Ask("put", s[i].ask.n - 1)
        /\ s[i].ask.what = "end" => i > 1 /\ s[i - 1].ask = Ask("put", Chunks)

LEMMA WriteMemoryOrdered == WriteMemory \in Seq(StepSet) /\ Ordered(WriteMemory)
                            /\ \A i \in 1..Len(WriteMemory) : WriteMemory[i].ask.what # "set"
<1>1. CASE WriteMemory = Nothing
  BY <1>1, EmptySeq DEF Ordered, Nothing
<1>2. CASE WriteMemory # Nothing
  <2> DEFINE s == WriteMemory
  <2>1. /\ s \in Seq(StepSet) /\ Len(s) = Chunks + 2
        /\ s[1] = Step(Ask("start", 0), "abort", {})
        /\ \A c \in Chunk : s[c + 1] = Step(Ask("put", c), "abort", {})
        /\ s[Chunks + 2] = Step(Ask("end", 0), "abort", {})
    BY <1>2, WriteMemorySteps
  <2> HIDE DEF s
  <2>2. \A i \in 1..Len(s) : i = 1 \/ i = Chunks + 2 \/ (i - 1 \in Chunk /\ i = (i - 1) + 1)
    BY <2>1, Sizes DEF Chunk
  <2>3. ASSUME NEW i \in 1..Len(s)
        PROVE  /\ s[i].needs = {} /\ s[i].policy = "abort"
               /\ s[i].ask.what \in {"start", "put", "end"}
               /\ s[i].ask.what = "put" =>
                     /\ i > 1
                     /\ \/ s[i].ask.n = 1 /\ s[i - 1].ask.what = "start"
                        \/ s[i].ask.n > 1 /\ s[i - 1].ask = Ask("put", s[i].ask.n - 1)
               /\ s[i].ask.what = "end" => i > 1 /\ s[i - 1].ask = Ask("put", Chunks)
    <3>1. CASE i = 1
      BY <2>1, <3>1 DEF Step, Ask
    <3>2. CASE i = Chunks + 2
      <4>1. Chunks \in Chunk /\ i - 1 = Chunks + 1 /\ i > 1
        BY <3>2, Sizes DEF Chunk
      <4>2. s[i - 1] = Step(Ask("put", Chunks), "abort", {})
        BY <2>1, <4>1
      <4>3. QED BY <2>1, <3>2, <4>1, <4>2 DEF Step, Ask
    <3>3. CASE i - 1 \in Chunk /\ i = (i - 1) + 1
      <4>1. s[i] = Step(Ask("put", i - 1), "abort", {}) /\ i > 1
        BY <2>1, <3>3, Sizes DEF Chunk
      <4>2. CASE i - 1 = 1
        BY <2>1, <4>1, <4>2 DEF Step, Ask
      <4>3. CASE i - 1 # 1
        <5>1. i - 2 \in Chunk /\ i - 1 = (i - 2) + 1 /\ i - 1 > 1
          BY <3>3, <4>3, Sizes DEF Chunk
        <5>2. s[i - 1] = Step(Ask("put", i - 2), "abort", {})
          BY <2>1, <5>1
        <5>3. (i - 1) - 1 = i - 2
          BY <5>1
        <5>4. QED BY <4>1, <5>1, <5>2, <5>3 DEF Step, Ask
      <4>4. QED BY <4>2, <4>3
    <3>4. QED BY <2>2, <3>1, <3>2, <3>3
  <2>4. QED BY <2>1, <2>3 DEF Ordered, s
<1>3. QED BY <1>1, <1>2

LEMMA MutationSteps ==
  /\ Mutation \in Seq(StepSet) /\ Ordered(Mutation)
  /\ job.direct => /\ Len(Mutation) > 1 /\ Mutation[Len(Mutation)].ask = Value
                   /\ \A i \in 1..Len(Mutation) :
                         Mutation[i].ask.what = "set" => i < Len(Mutation)
<1> DEFINE one == Step(Value, "abort", {})
           set == Step(Ask("set", New), "abort", {})
           first == IF job.memory THEN WriteMemory ELSE <<one>>
           second == IF job.direct THEN <<set, one>> ELSE Nothing
<1>1. one \in StepSet /\ set \in StepSet
  BY QuestionMembers DEF Step, StepSet
<1>2. /\ one.needs = {} /\ one.policy = "abort" /\ one.ask = Value /\ one.ask.what = "value"
      /\ set.needs = {} /\ set.policy = "abort" /\ set.ask.what = "set"
  BY DEF Step, Value, Ask
<1> HIDE DEF one, set
<1>3. first \in Seq(StepSet) /\ Ordered(first)
      /\ \A i \in 1..Len(first) : first[i].ask.what # "set"
  <2>1. CASE job.memory
    BY <2>1, WriteMemoryOrdered
  <2>2. CASE ~job.memory
    BY <1>1, <1>2, <2>2 DEF Ordered
  <2>3. QED BY <2>1, <2>2
<1>4. /\ second \in Seq(StepSet)
      /\ job.direct => Len(second) = 2 /\ second[1] = set /\ second[2] = one
      /\ \A i \in 1..Len(second) : second[i] = set \/ second[i] = one
  BY <1>1, EmptySeq DEF Nothing
<1> HIDE DEF first
<1>5. Mutation = first \o second
  BY DEF Mutation, first, one, set
<1> HIDE DEF second
<1> DEFINE s == first \o second
<1>6. /\ s \in Seq(StepSet) /\ Len(s) = Len(first) + Len(second)
      /\ Len(first) \in Nat /\ Len(second) \in Nat
      /\ \A i \in 1..Len(first) : s[i] = first[i]
      /\ \A i \in 1..Len(second) : s[Len(first) + i] = second[i]
  BY <1>3, <1>4
<1> HIDE DEF s
<1>7. ASSUME NEW i \in 1..Len(s)
      PROVE  \/ i \in 1..Len(first) /\ s[i] = first[i]
                /\ (i > 1 => i - 1 \in 1..Len(first) /\ s[i - 1] = first[i - 1])
             \/ i > Len(first) /\ (s[i] = set \/ s[i] = one)
  <2>1. CASE i \in 1..Len(first)
    BY <1>6, <2>1
  <2>2. CASE i \notin 1..Len(first)
    <3>1. i - Len(first) \in 1..Len(second) /\ Len(first) + (i - Len(first)) = i
      BY <1>6, <2>2
    <3>2. s[i] = second[i - Len(first)]
      BY <1>6, <3>1
    <3>3. QED BY <1>4, <1>6, <2>2, <3>1, <3>2
  <2>3. QED BY <2>1, <2>2
<1>8. Ordered(s)
  BY <1>2, <1>3, <1>7 DEF Ordered
<1>9. ASSUME job.direct
      PROVE  /\ Len(s) > 1 /\ s[Len(s)].ask = Value
             /\ \A i \in 1..Len(s) : s[i].ask.what = "set" => i < Len(s)
  <2>1. Len(second) = 2 /\ second[1] = set /\ second[2] = one
    BY <1>4, <1>9
  <2>2. s[Len(first) + 2] = one /\ Len(s) = Len(first) + 2
    BY <1>6, <2>1
  <2>3. QED BY <1>2, <1>6, <2>2
<1>10. QED BY <1>5, <1>6, <1>8, <1>9 DEF s

(* The steps of every session. *)
LEMMA StepsFacts ==
  ASSUME NEW p \in {"read", "snapshot", "image", "write", "readback", "rollback"},
         job.before \in {Old, New}
  PROVE  /\ StepsOf(p) \in Seq(StepSet)
         /\ \A i \in 1..Len(StepsOf(p)) :
               /\ p # "read" => StepsOf(p)[i].needs = {}
               /\ p = "read" => StepsOf(p)[i].ask.what \in {"index", "value", "table"}
               /\ p = "snapshot" => StepsOf(p)[i].ask = Value
               /\ p \in {"image", "readback"} => StepsOf(p)[i].ask.what = "chunk"
               /\ p = "rollback" => StepsOf(p)[i].ask = Ask("set", job.before)
         /\ p = "write" => StepsOf(p) = Mutation
         /\ p = "snapshot" => Len(StepsOf(p)) = 1 /\ StepsOf(p)[1].policy = "abort"
         /\ p = "rollback" => Len(StepsOf(p)) = 1
<1>1. CASE p = "read"
  BY <1>1, WorkflowSteps DEF StepsOf, ReadQuestion
<1>2. CASE p = "snapshot"
  <2> DEFINE one == Step(Value, "abort", {})
  <2>1. one \in StepSet /\ one.needs = {} /\ one.policy = "abort" /\ one.ask = Value
    BY QuestionMembers DEF Step, StepSet
  <2>2. StepsOf(p) = <<one>>
    BY <1>2 DEF StepsOf
  <2> HIDE DEF one
  <2>3. StepsOf(p) \in Seq(StepSet) /\ Len(StepsOf(p)) = 1 /\ StepsOf(p)[1] = one
    BY <2>1, <2>2
  <2>4. \A i \in 1..Len(StepsOf(p)) : StepsOf(p)[i] = one
    BY <2>3
  <2>5. QED BY <1>2, <2>1, <2>3, <2>4, Zenon
<1>3. CASE p \in {"image", "readback"}
  <2>1. StepsOf(p) = ReadMemory
    BY <1>3 DEF StepsOf
  <2>2. \A i \in 1..Len(ReadMemory) : i \in Chunk
    BY ReadMemorySteps DEF Chunk
  <2>3. \A i \in 1..Len(ReadMemory) : ReadMemory[i].ask.what = "chunk" /\ ReadMemory[i].needs = {}
    <3>1. \A c \in Chunk : Ask("chunk", c).what = "chunk"
      BY DEF Ask
    <3>2. QED BY <2>2, <3>1, ReadMemorySteps
  <2>4. p # "read" /\ p # "snapshot" /\ p # "rollback" /\ p # "write"
    BY <1>3
  <2>5. QED BY <1>3, <2>1, <2>3, <2>4, ReadMemorySteps, Zenon
<1>4. CASE p = "write"
  BY <1>4, MutationSteps DEF StepsOf, Ordered
<1>5. CASE p = "rollback"
  <2> DEFINE one == Step(Ask("set", job.before), RollbackPolicy, {})
  <2>1. one \in StepSet /\ one.needs = {} /\ one.ask = Ask("set", job.before)
    BY QuestionMembers, Sizes DEF Step, StepSet
  <2>2. StepsOf(p) = <<one>>
    BY <1>5 DEF StepsOf
  <2> HIDE DEF one
  <2>3. StepsOf(p) \in Seq(StepSet) /\ Len(StepsOf(p)) = 1 /\ StepsOf(p)[1] = one
    BY <2>1, <2>2
  <2>4. \A i \in 1..Len(StepsOf(p)) : StepsOf(p)[i] = one
    BY <2>3
  <2>5. QED BY <1>5, <2>1, <2>3, <2>4, Zenon
<1>6. QED BY <1>1, <1>2, <1>3, <1>4, <1>5

-----------------------------------------------------------------------------
(* What is left of a session is the end of its steps. *)

Suffix(t, s) == \E k \in 0..Len(s) : t = SubSeq(s, k + 1, Len(s))

LEMMA SuffixEnds ==
  ASSUME NEW S, NEW s \in Seq(S)
  PROVE  Suffix(s, s) /\ Suffix(<<>>, s)
<1>1. s = SubSeq(s, 0 + 1, Len(s))
  OBVIOUS
<1>2. <<>> = SubSeq(s, Len(s) + 1, Len(s))
  OBVIOUS
<1>3. Len(s) \in Nat /\ 0 \in 0..Len(s) /\ Len(s) \in 0..Len(s)
  OBVIOUS
<1>4. QED BY <1>1, <1>2, <1>3 DEF Suffix

LEMMA SuffixFacts ==
  ASSUME NEW S, NEW s \in Seq(S), NEW t, Suffix(t, s)
  PROVE  /\ t \in Seq(S)
         /\ t # <<>> =>
              /\ Suffix(Tail(t), s)
              /\ \E k \in 1..Len(s) :
                    /\ Head(t) = s[k] /\ Len(t) = Len(s) - k + 1
                    /\ k < Len(s) => Tail(t) # <<>> /\ Head(Tail(t)) = s[k + 1]
                    /\ k = Len(s) => Tail(t) = <<>>
<1>1. PICK k \in 0..Len(s) : t = SubSeq(s, k + 1, Len(s))
  BY DEF Suffix
<1>2. /\ t \in Seq(S) /\ Len(t) = Len(s) - k /\ \A i \in 1..Len(t) : t[i] = s[k + i]
  BY <1>1
<1>3. ASSUME t # <<>>
      PROVE  /\ Suffix(Tail(t), s)
             /\ \E j \in 1..Len(s) :
                   /\ Head(t) = s[j] /\ Len(t) = Len(s) - j + 1
                   /\ j < Len(s) => Tail(t) # <<>> /\ Head(Tail(t)) = s[j + 1]
                   /\ j = Len(s) => Tail(t) = <<>>
  <2>1. k < Len(s) /\ k + 1 \in 1..Len(s) /\ Len(t) > 0
    BY <1>2, <1>3, EmptySeq
  <2>2. Tail(t) = SubSeq(s, (k + 1) + 1, Len(s)) /\ k + 1 \in 0..Len(s)
    BY <1>1, <1>2, <2>1
  <2>3. Suffix(Tail(t), s)
    BY <2>2 DEF Suffix
  <2>4. Head(t) = s[k + 1] /\ Len(t) = Len(s) - (k + 1) + 1
    BY <1>2, <2>1
  <2>5. ASSUME k + 1 < Len(s) PROVE Tail(t) # <<>> /\ Head(Tail(t)) = s[(k + 1) + 1]
    <3>1. Len(t) > 1 /\ t[2] = s[k + 2]
      BY <1>2, <2>5
    <3>2. Len(Tail(t)) > 0 /\ Tail(t)[1] = t[2] /\ Tail(t) \in Seq(S)
      BY <1>2, <3>1
    <3>3. \A u \in Seq(S) : Len(u) > 0 => u # <<>> /\ Head(u) = u[1]
      OBVIOUS
    <3>4. (k + 1) + 1 = k + 2
      OBVIOUS
    <3>5. QED BY <3>1, <3>2, <3>3, <3>4
  <2>6. ASSUME k + 1 = Len(s) PROVE Tail(t) = <<>>
    BY <1>2, <2>1, <2>6
  <2>7. QED BY <2>1, <2>3, <2>4, <2>5, <2>6
<1>4. QED BY <1>2, <1>3

-----------------------------------------------------------------------------
(* The types, in parts. *)

Jobs == [kind : {"none", "read", "mutate"}, targets : Projections \cup {{}},
         tx : BOOLEAN, memory : BOOLEAN, direct : BOOLEAN, before : {Old, New}]
Sessions == {"read", "snapshot", "image", "write", "readback", "rollback"}

DeviceOK == reg \in {Old, New} /\ mem \in Sector /\ buffer \in Seq(Contents)
WireOK == transit \in Seq(Reports) /\ input \in Seq(Reports)
HandleOK ==
    /\ handle \in {"closed", "cached", "session"}
    /\ (pc # "open" <=> handle = "session") /\ (phase = "idle" => pc = "open")
CachesOK ==
    /\ DOMAIN features \subseteq Nat /\ \A f \in DOMAIN features : features[f] \in Values
    /\ transport \in {"output-input", "framed"}

(* A call that reads is a session that reads; a result is that of a call that
   has ended. *)
CallOK ==
    /\ phase \in Sessions \cup {"idle"} /\ image \in Sector /\ job \in Jobs
    /\ result \in {"none", "ok", "error", "restored", "inconsistent"}
    /\ phase = "read" => job.kind = "read"
    /\ result # "none" => phase = "idle"

(* What is left to do are the last steps of the session; attempts and packets
   are those of the exchange under way, and the first of them has matched. *)
SessionOK ==
    /\ pc \in {"open", "step", "reading"}
    /\ got \in Seq(Reports) /\ Len(got) < Packets /\ tries \in 0 .. Retries - 1
    /\ pc # "open" => Suffix(todo, StepsOf(phase))
    /\ pc = "reading" => todo # Nothing
    /\ pc # "reading" => got = Nothing /\ tries = 0
    /\ got # Nothing => Matches(Head(got))

(* The old value of the register was read when the snapshot is complete. *)
OutputsOK ==
    /\ DOMAIN outputs \subseteq Questions /\ \A q \in DOMAIN outputs : outputs[q] \in Values
    /\ Value \in DOMAIN outputs => outputs[Value].value \in {Old, New}
    /\ phase = "snapshot" /\ pc # "open" /\ todo = Nothing => Value \in DOMAIN outputs
LimitsOK ==
    /\ reports \in 0 .. MaxReports + 1 /\ {deadline, budget} \subseteq Deadlines
    /\ faults \in 0..MaxFaults /\ events \in 0..MaxEvents /\ jobs \in 0..MaxJobs

Typed ==
    /\ DeviceOK /\ WireOK /\ HandleOK /\ CachesOK /\ CallOK /\ SessionOK /\ OutputsOK
    /\ LimitsOK /\ tainted \in BOOLEAN

LEMMA TypedIsTypeOK == Typed => TypeOK
<1> SUFFICES ASSUME Typed PROVE TypeOK
  OBVIOUS
<1>1. job.kind \in {"none", "read", "mutate"} /\ job.before \in {Old, New}
  BY DEF Typed, CallOK, Jobs
<1>2. QED
  BY <1>1 DEF Typed, DeviceOK, WireOK, HandleOK, CachesOK, CallOK, SessionOK, OutputsOK, LimitsOK,
     Sessions, TypeOK

(* The step that a session is at. *)
LEMMA NowFacts ==
  ASSUME CallOK, SessionOK, phase # "idle", pc # "open", todo # Nothing
  PROVE  /\ todo \in Seq(StepSet) /\ Len(todo) > 0 /\ Head(todo) \in StepSet
         /\ Now \in Questions
         /\ Head(todo).policy \in {"abort", "continue"}
         /\ Suffix(Tail(todo), StepsOf(phase))
         /\ \E k \in 1..Len(StepsOf(phase)) :
               /\ Head(todo) = StepsOf(phase)[k] /\ Len(todo) = Len(StepsOf(phase)) - k + 1
               /\ k < Len(StepsOf(phase))
                    => Tail(todo) # Nothing /\ Head(Tail(todo)) = StepsOf(phase)[k + 1]
               /\ k = Len(StepsOf(phase)) => Tail(todo) = Nothing
<1>1. phase \in Sessions /\ job.before \in {Old, New}
  BY DEF CallOK, Jobs
<1>2. StepsOf(phase) \in Seq(StepSet)
  BY <1>1, StepsFacts DEF Sessions
<1>3. Suffix(todo, StepsOf(phase)) /\ todo # <<>>
  BY DEF SessionOK, Nothing
<1>4. /\ todo \in Seq(StepSet)
      /\ Suffix(Tail(todo), StepsOf(phase))
      /\ \E k \in 1..Len(StepsOf(phase)) :
            /\ Head(todo) = StepsOf(phase)[k] /\ Len(todo) = Len(StepsOf(phase)) - k + 1
            /\ k < Len(StepsOf(phase))
                 => Tail(todo) # <<>> /\ Head(Tail(todo)) = StepsOf(phase)[k + 1]
            /\ k = Len(StepsOf(phase)) => Tail(todo) = <<>>
  BY <1>2, <1>3, SuffixFacts
<1>5. Len(todo) > 0 /\ Head(todo) \in StepSet
  BY <1>3, <1>4, EmptySeq
<1>6. Head(todo).ask \in Questions /\ Head(todo).policy \in {"abort", "continue"}
  BY <1>5 DEF StepSet
<1>7. QED BY <1>4, <1>5, <1>6 DEF Now, Nothing

-----------------------------------------------------------------------------
(* The ways in which an exchange, or a step before it, goes on. *)

(* What is left of the reports in the handle. *)
Remains(queue) ==
    queue \in Seq(Reports) /\ \A i \in DOMAIN queue : \E j \in DOMAIN input : queue[i] = input[j]

LEMMA RemainsFacts ==
  ASSUME WireOK
  PROVE  /\ Remains(input) /\ Remains(Drained)
         /\ input # Nothing => Remains(Tail(input)) /\ Head(input) \in Reports
                               /\ \E j \in DOMAIN input : Head(input) = input[j]
<1>1. input \in Seq(Reports)
  BY DEF WireOK
<1>2. Remains(input)
  BY <1>1 DEF Remains
<1>3. Remains(Drained)
  <2>1. CASE transport = "framed"
    <3>1. Drained = SubSeq(input, Drains + 1, Len(input)) /\ Drains \in Nat
      BY <2>1, Sizes DEF Drained
    <3>2. /\ Drained \in Seq(Reports)
          /\ \A i \in 1..Len(Drained) : Drained[i] = input[Drains + i]
                                        /\ Drains + i \in 1..Len(input)
      BY <1>1, <3>1
    <3>3. QED BY <1>1, <3>2 DEF Remains
  <2>2. CASE transport # "framed"
    BY <1>2, <2>2 DEF Drained
  <2>3. QED BY <2>1, <2>2
<1>4. ASSUME input # Nothing
      PROVE  /\ Remains(Tail(input)) /\ Head(input) \in Reports
             /\ \E j \in DOMAIN input : Head(input) = input[j]
  <2>1. Len(input) > 0 /\ Len(input) \in Nat
    BY <1>1, <1>4, EmptySeq DEF Nothing
  <2>2. Tail(input) \in Seq(Reports)
        /\ \A i \in 1..Len(Tail(input)) : Tail(input)[i] = input[i + 1] /\ i + 1 \in 1..Len(input)
    BY <1>1, <2>1
  <2>3. Remains(Tail(input))
    BY <1>1, <2>2 DEF Remains
  <2>4. Head(input) = input[1] /\ 1 \in DOMAIN input /\ input[1] \in Reports
    BY <1>1, <2>1
  <2>5. QED BY <2>3, <2>4
<1>5. QED BY <1>2, <1>3, <1>4

Fails == (\E queue : Remains(queue) /\ StepFails(queue)) /\ UNCHANGED features

Reply(packets) ==
    [asks |-> {r.ask : r \in ToSet(packets)}, value |-> Head(packets).value,
     data |-> Head(packets).data]

Replies(packets) ==
    \/ got = Nothing /\ packets = <<Head(input)>> /\ Matches(Head(input)) /\ ~Head(input).refused
    \/ got # Nothing /\ packets = Append(got, Head(input)) /\ ~Unrelated(Head(input))

Accepts(packets) ==
    /\ pc = "reading" /\ input # Nothing /\ Replies(packets)
    /\ Passes(Reply(packets).value)
    /\ outputs' = Insert(outputs, Now, Reply(packets))
    /\ features' = IF Now.what = "index" THEN Insert(features, Now.n, Reply(packets)) ELSE features
    /\ todo' = Tail(todo) /\ pc' = "step" /\ tries' = 0 /\ got' = Nothing
    /\ Remains(input') /\ UNCHANGED <<handle, phase, result>>

ReadsOn ==
    /\ pc = "reading" /\ Remains(input') /\ tries' \in 0 .. Retries - 1
    /\ \/ got' = got
       \/ /\ got = Nothing /\ got' = <<Head(input)>> /\ input # Nothing
          /\ Matches(Head(input)) /\ ~Head(input).refused /\ ~Head(input).last
       \/ /\ got # Nothing /\ got' = Append(got, Head(input)) /\ input # Nothing
          /\ ~Unrelated(Head(input)) /\ Len(got') < Packets
    /\ UNCHANGED <<handle, phase, result, pc, todo, outputs, features>>

LEMMA MissCases ==
  ASSUME SessionOK, pc = "reading", NEW queue, Remains(queue), Miss(queue), UNCHANGED features
  PROVE  Fails \/ (ReadsOn /\ got' = got)
<1>1. CASE tries + 1 = Retries
  BY <1>1 DEF Miss, Fails
<1>2. CASE tries + 1 # Retries
  <2>1. tries' = tries + 1 /\ tries' \in 0 .. Retries - 1
    BY <1>2, Sizes DEF Miss, SessionOK
  <2>2. QED BY <1>2, <2>1 DEF Miss, ReadsOn
<1>3. QED BY <1>1, <1>2

LEMMA AcceptCases ==
  ASSUME WireOK, pc = "reading", input # Nothing, NEW packets, Replies(packets), NEW queue,
         Remains(queue), Accept(packets, queue)
  PROVE  Fails \/ Accepts(packets)
<1>1. CASE Passes(Reply(packets).value)
  BY <1>1 DEF Accept, Reply, Accepts
<1>2. CASE ~Passes(Reply(packets).value)
  BY <1>2 DEF Accept, Reply, Fails
<1>3. QED BY <1>1, <1>2

Exchange ==
    MissingParam \/ BuildFails \/ SendFails \/ Receive \/ Continue \/ Timeout \/ Expire

LEMMA Exchanges ==
  ASSUME Typed, Exchange
  PROVE  /\ phase # "idle" /\ pc # "open" /\ todo # Nothing
         /\ UNCHANGED <<device, transit, transport, job, image, tainted>>
         /\ Fails \/ ReadsOn \/ \E packets : Accepts(packets)
<1>0. WireOK /\ SessionOK /\ HandleOK
  BY DEF Typed
<1>1. phase # "idle" /\ pc # "open" /\ todo # Nothing
  <2>1. pc \in {"step", "reading"} /\ todo # Nothing
    BY <1>0 DEF Exchange, MissingParam, BuildFails, SendFails, Receive, Continue, Timeout, Expire,
       Asking, Ready, AtStep, Reading, SessionOK
  <2>2. QED BY <1>0, <2>1 DEF HandleOK
<1>2. UNCHANGED <<device, transit, transport, job, image, tainted>>
  BY DEF Exchange, MissingParam, BuildFails, SendFails, Receive, Continue, Timeout, Expire,
     Unread, caches
<1> SUFFICES Fails \/ ReadsOn \/ \E packets : Accepts(packets)
  BY <1>1, <1>2
<1>3. CASE MissingParam \/ BuildFails \/ SendFails \/ Expire
  BY <1>0, <1>3, RemainsFacts DEF MissingParam, BuildFails, SendFails, Expire, Fails, caches
<1>4. CASE Timeout
  <2>1. pc = "reading" /\ UNCHANGED features
    BY <1>4 DEF Timeout, caches
  <2>2. Miss(input) \/ StepFails(input)
    BY <1>4 DEF Timeout
  <2>3. QED BY <1>0, <2>1, <2>2, RemainsFacts, MissCases DEF Fails
<1>5. CASE Receive
  <2> DEFINE r == Head(input)
             rest == Tail(input)
  <2>1. pc = "reading" /\ input # Nothing /\ got = Nothing
    BY <1>5 DEF Receive, Reading
  <2>2. \/ Matches(r) /\ r.refused /\ StepFails(rest) /\ UNCHANGED features
        \/ Matches(r) /\ ~r.refused /\ r.last /\ Accept(<<r>>, rest)
        \/ /\ Matches(r) /\ ~r.refused /\ ~r.last
           /\ got' = <<r>> /\ input' = rest
           /\ UNCHANGED <<handle, phase, result, pc, todo, tries, outputs, features>>
        \/ ~Matches(r) /\ Miss(rest) /\ UNCHANGED features
    BY <1>5 DEF Receive
  <2>3. Remains(rest)
    BY <1>0, <2>1, RemainsFacts
  <2>4. CASE Matches(r) /\ r.refused /\ StepFails(rest) /\ UNCHANGED features
    BY <2>3, <2>4 DEF Fails
  <2>5. CASE Matches(r) /\ ~r.refused /\ r.last /\ Accept(<<r>>, rest)
    <3>1. Replies(<<r>>)
      BY <2>1, <2>5 DEF Replies
    <3>2. QED BY <1>0, <2>1, <2>3, <2>5, <3>1, AcceptCases
  <2>6. CASE /\ Matches(r) /\ ~r.refused /\ ~r.last
             /\ got' = <<r>> /\ input' = rest
             /\ UNCHANGED <<handle, phase, result, pc, todo, tries, outputs, features>>
    BY <1>0, <2>1, <2>3, <2>6 DEF ReadsOn, SessionOK
  <2>7. CASE ~Matches(r) /\ Miss(rest) /\ UNCHANGED features
    BY <1>0, <2>1, <2>3, <2>7, MissCases
  <2>8. QED BY <2>2, <2>4, <2>5, <2>6, <2>7
<1>6. CASE Continue
  <2> DEFINE r == Head(input)
             rest == Tail(input)
             all == Append(got, r)
  <2>1. pc = "reading" /\ input # Nothing /\ got # Nothing
    BY <1>6 DEF Continue, Reading
  <2>2. \/ /\ Unrelated(r) /\ input' = rest
           /\ UNCHANGED <<handle, phase, result, pc, todo, tries, got, outputs, features>>
        \/ StepFails(rest) /\ UNCHANGED features
        \/ /\ ~Unrelated(r) /\ Len(all) < Packets
           /\ got' = all /\ input' = rest
           /\ UNCHANGED <<handle, phase, result, pc, todo, tries, outputs, features>>
        \/ ~Unrelated(r) /\ Accept(all, rest)
    BY <1>6 DEF Continue
  <2>3. Remains(rest)
    BY <1>0, <2>1, RemainsFacts
  <2>4. tries \in 0 .. Retries - 1
    BY <1>0 DEF SessionOK
  <2>5. CASE ~Unrelated(r) /\ Accept(all, rest)
    <3>1. Replies(all)
      BY <2>1, <2>5 DEF Replies
    <3>2. QED BY <1>0, <2>1, <2>3, <2>5, <3>1, AcceptCases
  <2>6. CASE StepFails(rest) /\ UNCHANGED features
    BY <2>3, <2>6 DEF Fails
  <2>7. CASE /\ Unrelated(r) /\ input' = rest
             /\ UNCHANGED <<handle, phase, result, pc, todo, tries, got, outputs, features>>
    BY <2>1, <2>3, <2>4, <2>7 DEF ReadsOn
  <2>8. CASE /\ ~Unrelated(r) /\ Len(all) < Packets
             /\ got' = all /\ input' = rest
             /\ UNCHANGED <<handle, phase, result, pc, todo, tries, outputs, features>>
    BY <2>1, <2>3, <2>4, <2>8 DEF ReadsOn
  <2>9. QED BY <2>2, <2>5, <2>6, <2>7, <2>8
<1>7. QED BY <1>3, <1>4, <1>5, <1>6 DEF Exchange

(* A step that fails. *)
PassesOver ==
    /\ Head(todo).policy = "continue" /\ todo' = Tail(todo) /\ pc' = "step" /\ Remains(input')
    /\ UNCHANGED <<handle, phase, result, outputs>>
GivesUp ==
    /\ todo' = Nothing /\ pc' = "open" /\ outputs' = Nothing
    /\ handle' = "closed" /\ input' = Nothing /\ AfterFailure

LEMMA FailsCases == Fails => tries' = 0 /\ got' = Nothing /\ (PassesOver \/ GivesUp)
  BY DEF Fails, StepFails, PassesOver, GivesUp

LEMMA FailureEnds ==
  AfterFailure =>
    \/ phase' = "idle" /\ result' \in {"error", "inconsistent"}
    \/ phase' = "rollback" /\ UNCHANGED result
  BY DEF AfterFailure, MutationFails, End, Goto

(* The steps of the engine and of its surroundings. *)
LEMMA Turns ==
  Next => \/ Read \/ Mutate \/ Open \/ Skip \/ UseCache \/ Exchange \/ Send \/ Finish
          \/ Deliver \/ Notify \/ Hotplug \/ Tick
  BY DEF Next, Engine, Exchange

-----------------------------------------------------------------------------
(* What a question brings. *)

LEMMA PatchedSector == ASSUME image \in Sector PROVE Patched \in Sector
<1>1. 1 \in Chunk
  BY Sizes DEF Chunk
<1>2. image[1] \in Contents
  BY <1>1 DEF Sector
<1>3. [image[1] EXCEPT !.patched = TRUE] \in Contents
  BY <1>2 DEF Contents
<1>4. QED BY <1>1, <1>3 DEF Patched, Sector

LEMMA ReportTypes ==
  ASSUME NEW q \in Questions \cup {Event.ask}, NEW k \in 1..Packets, NEW last \in BOOLEAN,
         ~last => k < Packets, NEW value \in Nat,
         q.what = "value" => value \in {Old, New}, NEW data \in Contents
  PROVE  Report(q, k, last, value, data) \in Reports
<1> DEFINE r == Report(q, k, last, value, data)
<1>1. /\ r.ask = q /\ r.part = k /\ r.last = last /\ r.value = value /\ r.data = data
      /\ r \in [ask : Questions \cup {Event.ask}, part : 1..Packets, last : BOOLEAN,
                refused : BOOLEAN, value : Nat, data : Contents]
  BY DEF Report
<1> HIDE DEF r
<1>2. r \in Reports
  BY <1>1 DEF Reports
<1>3. QED BY <1>2 DEF r

LEMMA PacketsFacts ==
  ASSUME NEW q
  PROVE  /\ PacketsOf(q) \in 1..Packets
         /\ PacketsOf(q) > 1 => PacketsOf(q) = Packets /\ q.what = "table"
  BY Sizes DEF PacketsOf

LEMMA AnswerFacts ==
  ASSUME DeviceOK, NEW q \in Questions
  PROVE  /\ Answer(q) \in Seq(Reports) /\ Len(Answer(q)) = PacketsOf(q)
         /\ \A i \in 1..Len(Answer(q)) :
               /\ Answer(q)[i].ask = q /\ (~Answer(q)[i].last => PacketsOf(q) > 1)
               /\ q.what = "value" => Answer(q)[i].value = reg
               /\ q.what = "chunk" => Answer(q)[i].data = mem[q.n]
<1> DEFINE value == CASE q.what = "index" -> IF q.n \in Supported THEN q.n ELSE 0
                      [] q.what = "value" -> reg
                      [] OTHER -> 0
           data == IF q.what = "chunk" THEN mem[q.n] ELSE Blank
           R(k) == Report(q, k, k = PacketsOf(q), value, data)
<1>1. q.n \in Nat /\ (q.what = "chunk" => q.n \in Chunk)
  BY QuestionFacts
<1>2. value \in Nat /\ (q.what = "value" => value = reg) /\ reg \in {Old, New}
  BY <1>1 DEF DeviceOK, Old, New
<1>3. data \in Contents /\ (q.what = "chunk" => data = mem[q.n])
  BY <1>1, Sizes DEF DeviceOK, Sector, Contents, Blank
<1>4. Answer(q) = [k \in 1..PacketsOf(q) |-> R(k)]
  BY DEF Answer
<1> HIDE DEF value, data
<1>5. ASSUME NEW k \in 1..PacketsOf(q)
      PROVE  /\ R(k) \in Reports /\ R(k).ask = q /\ R(k).value = value /\ R(k).data = data
             /\ ~R(k).last => PacketsOf(q) > 1
  <2>1. k \in 1..Packets /\ (k = PacketsOf(q)) \in BOOLEAN
        /\ (~(k = PacketsOf(q)) => k < Packets /\ PacketsOf(q) > 1)
    BY PacketsFacts
  <2>2. R(k) \in Reports
    BY <1>2, <1>3, <2>1, ReportTypes
  <2>3. R(k).ask = q /\ R(k).value = value /\ R(k).data = data /\ R(k).last = (k = PacketsOf(q))
    BY DEF Report
  <2>4. QED BY <2>1, <2>2, <2>3
<1> HIDE DEF R
<1>6. Answer(q) \in Seq(Reports) /\ Len(Answer(q)) = PacketsOf(q)
      /\ \A i \in 1..Len(Answer(q)) : Answer(q)[i] = R(i)
  BY <1>4, <1>5, PacketsFacts
<1>7. QED BY <1>2, <1>3, <1>5, <1>6

LEMMA RefusalFacts ==
  ASSUME NEW q \in Questions
  PROVE  /\ Refusal(q) \in Seq(Reports) /\ Len(Refusal(q)) = 1
         /\ Refusal(q)[1].ask = q /\ Refusal(q)[1].last /\ Refusal(q)[1].refused
<1> DEFINE r == Report(q, 1, TRUE, 0, Blank)
           e == [r EXCEPT !.refused = TRUE]
<1>1. r \in Reports
  <2>1. Blank \in Contents /\ 1 \in 1..Packets /\ TRUE \in BOOLEAN /\ 0 \in Nat /\ 0 \in {Old, New}
    BY Sizes DEF Blank, Contents, Old
  <2>2. QED BY <2>1, ReportTypes
<1>2. r.ask = q /\ r.last = TRUE
  BY DEF Report
<1> HIDE DEF r
<1>3. e \in Reports /\ e.ask = q /\ e.last = TRUE /\ e.refused = TRUE
  BY <1>1, <1>2 DEF Reports
<1>4. Refusal(q) = <<e>>
  BY DEF Refusal, r
<1> HIDE DEF e
<1>5. QED BY <1>3, <1>4

(* A question that goes out: what the device does, and what it sends. *)
Sent(r) ==
    /\ r.ask = Now /\ (~r.last => PacketsOf(Now) > 1)
    /\ ~r.refused => /\ Execute(Now, Content)
                     /\ Now.what = "value" => r.value = reg
                     /\ Now.what = "chunk" => r.data = mem[Now.n]

LEMMA SendFacts ==
  ASSUME Typed, Send
  PROVE  /\ phase # "idle" /\ pc = "step" /\ todo # Nothing /\ Now \in Questions
         /\ Head(todo).needs \subseteq DOMAIN outputs /\ ~Cached
         /\ UNCHANGED device \/ Execute(Now, Content)
         /\ \E new \in Seq(Reports) :
               transit' = transit \o new /\ \A i \in DOMAIN new : Sent(new[i])
         /\ input' = Drained /\ tainted' = (tainted \/ Leftover)
         /\ \/ Answered /\ pc' = "reading" /\ UNCHANGED todo
            \/ ~Answered /\ pc' = "step" /\ todo' = Tail(todo)
         /\ UNCHANGED <<handle, caches, call, tries, got, outputs>>
<1>1. pc = "step" /\ todo # Nothing /\ Head(todo).needs \subseteq DOMAIN outputs /\ ~Cached
  BY DEF Send, Asking, Ready, AtStep, Needs
<1>2. phase # "idle"
  BY <1>1 DEF Typed, HandleOK
<1>3. Now \in Questions /\ DeviceOK
  BY <1>1, <1>2, NowFacts DEF Typed
<1>4. \/ Execute(Now, Content) /\ transit' = transit \o Answer(Now)
      \/ /\ Execute(Now, Content)
         /\ \E k \in 0 .. PacketsOf(Now) - 1 : transit' = transit \o SubSeq(Answer(Now), 1, k)
      \/ UNCHANGED <<device, transit>>
      \/ UNCHANGED device /\ transit' = transit \o Refusal(Now)
  BY DEF Send
<1>5. transit \in Seq(Reports)
  BY DEF Typed, WireOK
<1>6. UNCHANGED device \/ Execute(Now, Content)
  BY <1>4
<1>7. \E new \in Seq(Reports) :
         transit' = transit \o new /\ \A i \in DOMAIN new : Sent(new[i])
  <2>1. ASSUME Execute(Now, Content), NEW k \in 0..PacketsOf(Now),
               transit' = transit \o SubSeq(Answer(Now), 1, k)
        PROVE  \E new \in Seq(Reports) :
                  transit' = transit \o new /\ \A i \in DOMAIN new : Sent(new[i])
    <3> DEFINE new == SubSeq(Answer(Now), 1, k)
    <3>1. /\ new \in Seq(Reports)
          /\ \A i \in DOMAIN new : i \in 1..Len(Answer(Now)) /\ new[i] = Answer(Now)[i]
      BY <1>3, AnswerFacts, PacketsFacts
    <3>2. \A i \in DOMAIN new : Sent(new[i])
      BY <1>3, <2>1, <3>1, AnswerFacts DEF Sent
    <3>3. QED BY <2>1, <3>1, <3>2
  <2>2. CASE Execute(Now, Content) /\ transit' = transit \o Answer(Now)
    <3>1. SubSeq(Answer(Now), 1, PacketsOf(Now)) = Answer(Now)
      BY <1>3, AnswerFacts
    <3>2. PacketsOf(Now) \in 0..PacketsOf(Now)
      BY PacketsFacts
    <3>3. QED BY <2>1, <2>2, <3>1, <3>2
  <2>3. CASE UNCHANGED <<device, transit>>
    <3>1. transit' = transit \o <<>> /\ <<>> \in Seq(Reports)
      BY <1>5, <2>3
    <3>2. \A i \in DOMAIN <<>> : Sent(<<>>[i])
      OBVIOUS
    <3>3. QED BY <3>1, <3>2
  <2>4. CASE UNCHANGED device /\ transit' = transit \o Refusal(Now)
    <3>1. Refusal(Now) \in Seq(Reports) /\ \A i \in DOMAIN Refusal(Now) : Sent(Refusal(Now)[i])
      BY <1>3, RefusalFacts DEF Sent
    <3>2. QED BY <2>4, <3>1
  <2>5. CASE \E k \in 0 .. PacketsOf(Now) - 1 :
               Execute(Now, Content) /\ transit' = transit \o SubSeq(Answer(Now), 1, k)
    <3>1. PICK k \in 0 .. PacketsOf(Now) - 1 :
             Execute(Now, Content) /\ transit' = transit \o SubSeq(Answer(Now), 1, k)
      BY <2>5
    <3>2. k \in 0 .. PacketsOf(Now)
      BY PacketsFacts
    <3>3. QED BY <2>1, <3>1, <3>2
  <2>6. QED BY <1>4, <2>2, <2>3, <2>4, <2>5
<1>8. QED BY <1>1, <1>2, <1>3, <1>6, <1>7 DEF Send

-----------------------------------------------------------------------------
(* Type correctness. *)

LEMMA DeviceStep == Typed /\ [Next]_vars => DeviceOK'
<1> SUFFICES ASSUME Typed, [Next]_vars PROVE DeviceOK'
  OBVIOUS
<1>1. DeviceOK
  BY DEF Typed
<1>2. CASE UNCHANGED device
  BY <1>1, <1>2 DEF device, DeviceOK
<1>3. CASE Send /\ Execute(Now, Content)
  <2>1. Now \in Questions
    BY <1>3, SendFacts
  <2>2. (Now.what = "put" => Now.n \in Chunk) /\ (Now.what = "set" => Now.n \in {Old, New})
    BY <2>1, QuestionFacts
  <2>3. Content \in Contents
    <3>1. 1 \in Chunk /\ Patched \in Sector
      BY PatchedSector, Sizes DEF Typed, CallOK, Chunk
    <3>2. QED BY <1>1, <2>2, <3>1 DEF Content, DeviceOK, Sector
  <2>4. reg' \in {Old, New}
    BY <1>1, <1>3, <2>2 DEF Execute, DeviceOK
  <2>5. buffer' \in Seq(Contents)
    <3>1. buffer' \in {Nothing, Append(buffer, Content), buffer}
      BY <1>3 DEF Execute
    <3>2. buffer \in Seq(Contents) /\ Nothing \in Seq(Contents)
      BY <1>1, EmptySeq DEF DeviceOK, Nothing
    <3>3. Append(buffer, Content) \in Seq(Contents)
      BY <2>3, <3>2, AppendProperties
    <3>4. QED BY <3>1, <3>2, <3>3
  <2>6. mem' \in Sector
    <3>1. mem' = mem \/ (mem' = buffer /\ Len(buffer) = Chunks)
      BY <1>3 DEF Execute
    <3>2. buffer \in Seq(Contents) /\ Len(buffer) = Chunks => buffer \in [1..Chunks -> Contents]
      OBVIOUS
    <3>3. QED BY <1>1, <3>1, <3>2 DEF DeviceOK, Sector, Chunk
  <2>7. QED BY <2>4, <2>5, <2>6 DEF DeviceOK
<1>4. CASE Read \/ Mutate \/ Open \/ Skip \/ UseCache \/ Finish \/ Deliver \/ Notify \/ Hotplug
           \/ Tick \/ UNCHANGED vars
  BY <1>2, <1>4 DEF Read, Mutate, Begin, Open, Skip, UseCache, Finish, Deliver, Notify, Hotplug,
     Tick, vars
<1>5. QED BY <1>2, <1>3, <1>4, Turns, Exchanges, SendFacts

LEMMA WireStep == Typed /\ [Next]_vars => WireOK'
<1> SUFFICES ASSUME Typed, [Next]_vars PROVE WireOK'
  OBVIOUS
<1>1. WireOK /\ transit \in Seq(Reports) /\ input \in Seq(Reports)
  BY DEF Typed, WireOK
<1>2. ASSUME UNCHANGED transit, input' = input \/ input' = Nothing \/ Remains(input') PROVE WireOK'
  BY <1>1, <1>2, EmptySeq DEF WireOK, Remains, Nothing
<1>3. CASE Send
  <2>1. transit' \in Seq(Reports)
    <3>1. PICK new \in Seq(Reports) : transit' = transit \o new
      BY <1>3, SendFacts
    <3>2. QED BY <1>1, <3>1, ConcatProperties
  <2>2. input' \in Seq(Reports)
    BY <1>1, <1>3, SendFacts, RemainsFacts DEF Remains
  <2>3. QED BY <2>1, <2>2 DEF WireOK
<1>4. CASE Exchange
  <2>1. UNCHANGED transit
    BY <1>4, Exchanges
  <2>2. input' = Nothing \/ Remains(input')
    BY <1>4, Exchanges, FailsCases DEF PassesOver, GivesUp, ReadsOn, Accepts
  <2>3. QED BY <1>2, <2>1, <2>2
<1>5. CASE Deliver
  <2>1. transit # Nothing /\ transit' = Tail(transit)
        /\ (input' = input \/ input' = Append(input, Head(transit)))
    BY <1>5 DEF Deliver
  <2>2. Head(transit) \in Reports /\ Tail(transit) \in Seq(Reports)
    BY <1>1, <2>1 DEF Nothing
  <2>3. QED BY <1>1, <2>1, <2>2 DEF WireOK
<1>6. CASE Notify
  <2>1. Event \in Reports
    <3>1. Event = Report(Event.ask, 1, TRUE, 0, Blank)
      BY DEF Event, Report
    <3>2. /\ Blank \in Contents /\ 1 \in 1..Packets /\ TRUE \in BOOLEAN /\ 0 \in Nat
          /\ 0 \in {Old, New} /\ Event.ask \in Questions \cup {Event.ask}
      BY Sizes DEF Blank, Contents, Old
    <3>3. QED BY <3>1, <3>2, ReportTypes
  <2>2. QED BY <1>1, <1>6, <2>1 DEF Notify, WireOK
<1>7. CASE Read \/ Mutate \/ Open \/ Skip \/ UseCache \/ Finish \/ Hotplug \/ Tick \/ UNCHANGED vars
  BY <1>2, <1>7 DEF Read, Mutate, Begin, Open, Skip, UseCache, Finish, Hotplug, Tick, vars, wire
<1>8. QED BY <1>3, <1>4, <1>5, <1>6, <1>7, Turns

LEMMA HandleStep == Typed /\ [Next]_vars => HandleOK'
<1> SUFFICES ASSUME Typed, [Next]_vars PROVE HandleOK'
  OBVIOUS
<1>1. HandleOK /\ pc \in {"open", "step", "reading"}
  BY DEF Typed, SessionOK
<1>2. CASE Read \/ Mutate
  BY <1>1, <1>2 DEF Read, Mutate, Begin, wire, HandleOK
<1>3. CASE Open
  <2>1. CASE handle' = "session" /\ pc' = "step" /\ UNCHANGED phase
    BY <1>1, <1>3, <2>1 DEF Open, HandleOK
  <2>2. CASE UNCHANGED <<handle, pc>> /\ pc = "open"
    BY <1>1, <2>2 DEF HandleOK
  <2>3. QED BY <1>3, <2>1, <2>2 DEF Open
<1>4. CASE Skip \/ UseCache \/ Deliver \/ Notify \/ Tick \/ UNCHANGED vars
  BY <1>1, <1>4 DEF Skip, UseCache, Deliver, Notify, Tick, vars, wire, call, session, HandleOK
<1>5. CASE Hotplug
  BY <1>1, <1>5 DEF Hotplug, call, session, HandleOK
<1>6. CASE Finish
  <2>1. handle' = "cached" /\ pc' = "open"
    BY <1>6 DEF Finish
  <2>2. QED BY <2>1 DEF HandleOK
<1>7. CASE Send
  <2>1. pc = "step" /\ pc' \in {"step", "reading"} /\ UNCHANGED <<handle, phase>>
    BY <1>7, SendFacts DEF call
  <2>2. QED BY <1>1, <2>1 DEF HandleOK
<1>8. CASE Exchange
  <2>1. phase # "idle" /\ pc # "open"
    BY <1>8, Exchanges
  <2>2. CASE Fails
    BY <1>1, <2>1, <2>2, FailsCases DEF PassesOver, GivesUp, HandleOK
  <2>3. CASE ReadsOn \/ \E packets : Accepts(packets)
    BY <1>1, <2>1, <2>3 DEF ReadsOn, Accepts, HandleOK
  <2>4. QED BY <1>8, <2>2, <2>3, Exchanges
<1>9. QED BY <1>2, <1>3, <1>4, <1>5, <1>6, <1>7, <1>8, Turns

(* What a workflow takes for an answer. *)
LEMMA ReplyFacts ==
  ASSUME Typed, NEW packets, Accepts(packets)
  PROVE  /\ packets \in Seq(Reports) /\ Len(packets) > 0 /\ Matches(Head(packets))
         /\ Reply(packets) \in Values
         /\ Now.what = "value" => Reply(packets).value \in {Old, New}
<1>1. got \in Seq(Reports) /\ input \in Seq(Reports) /\ input # Nothing
      /\ (got # Nothing => Matches(Head(got)))
  BY DEF Typed, SessionOK, WireOK, Accepts
<1>2. Head(input) \in Reports
  BY <1>1, EmptySeq DEF Nothing
<1>3. packets \in Seq(Reports) /\ Len(packets) > 0 /\ Matches(Head(packets))
  <2>1. CASE got = Nothing /\ packets = <<Head(input)>> /\ Matches(Head(input))
    <3> DEFINE r == Head(input)
    <3>1. r \in Reports /\ packets = <<r>> /\ Matches(r)
      BY <1>2, <2>1
    <3> HIDE DEF r
    <3>2. <<r>> \in Seq(Reports) /\ Len(<<r>>) = 1 /\ Head(<<r>>) = r
      BY <3>1
    <3>3. QED BY <3>1, <3>2
  <2>2. CASE got # Nothing /\ packets = Append(got, Head(input))
    <3>1. Len(got) > 0
      BY <1>1, <2>2, EmptySeq DEF Nothing
    <3>2. packets \in Seq(Reports) /\ Len(packets) = Len(got) + 1 /\ packets[1] = got[1]
      BY <1>1, <1>2, <2>2, <3>1
    <3>3. Head(packets) = packets[1] /\ Head(got) = got[1]
      BY <1>1, <3>1, <3>2
    <3>4. QED BY <1>1, <2>2, <3>1, <3>2, <3>3
  <2>3. QED BY <2>1, <2>2 DEF Accepts, Replies
<1>4. ASSUME NEW r \in Reports
      PROVE  r.ask \in Questions \cup {Event.ask} /\ r.value \in Nat /\ r.data \in Contents
             /\ (r.ask.what = "value" => r.value \in {Old, New})
  BY DEF Reports
<1>5. Head(packets) \in Reports /\ \A r \in ToSet(packets) : r \in Reports
  BY <1>3 DEF ToSet
<1>6. {r.ask : r \in ToSet(packets)} \subseteq Questions \cup {Event.ask}
  BY <1>4, <1>5
<1>7. Reply(packets) \in Values
  BY <1>4, <1>5, <1>6 DEF Reply, Values
<1>8. Now.what = "value" => Reply(packets).value \in {Old, New}
  BY <1>3, <1>4, <1>5 DEF Reply, Matches
<1>9. QED BY <1>3, <1>7, <1>8

LEMMA InsertTyped ==
  ASSUME NEW map, NEW S, NEW T, DOMAIN map \subseteq S, \A k \in DOMAIN map : map[k] \in T,
         NEW key \in S, NEW value \in T
  PROVE  /\ DOMAIN Insert(map, key, value) \subseteq S
         /\ \A k \in DOMAIN Insert(map, key, value) : Insert(map, key, value)[k] \in T
<1> DEFINE all == Insert(map, key, value)
<1>1. /\ DOMAIN all = DOMAIN map \cup {key} /\ all[key] = value
      /\ \A k \in DOMAIN map : k # key => all[k] = map[k]
  BY DEF Insert
<1> HIDE DEF all
<1>2. DOMAIN all \subseteq S
  BY <1>1
<1>3. ASSUME NEW k \in DOMAIN all PROVE all[k] \in T
  <2>1. CASE k = key
    BY <1>1, <2>1
  <2>2. CASE k # key
    BY <1>1, <2>2
  <2>3. QED BY <2>1, <2>2
<1>4. QED BY <1>2, <1>3 DEF all

LEMMA CachesStep == Typed /\ [Next]_vars => CachesOK'
<1> SUFFICES ASSUME Typed, [Next]_vars PROVE CachesOK'
  OBVIOUS
<1>1. CachesOK
  BY DEF Typed
<1>2. CASE UNCHANGED caches
  BY <1>1, <1>2 DEF caches, CachesOK
<1>3. CASE Exchange
  <2>1. UNCHANGED transport
    BY <1>3, Exchanges
  <2>2. ASSUME NEW packets, Accepts(packets) PROVE CachesOK'
    <3>1. Now.n \in Nat /\ Reply(packets) \in Values
      BY <1>3, <2>2, ReplyFacts, Exchanges, NowFacts, QuestionFacts DEF Typed
    <3>2. features' = features \/ features' = Insert(features, Now.n, Reply(packets))
      BY <2>2 DEF Accepts
    <3>3. CASE features' = features
      BY <1>1, <2>1, <3>3 DEF CachesOK
    <3>4. CASE features' = Insert(features, Now.n, Reply(packets))
      <4> DEFINE all == Insert(features, Now.n, Reply(packets))
      <4>1. DOMAIN all \subseteq Nat /\ \A f \in DOMAIN all : all[f] \in Values
        BY <1>1, <3>1, InsertTyped DEF CachesOK
      <4> HIDE DEF all
      <4>2. QED BY <1>1, <2>1, <3>4, <4>1 DEF CachesOK, all
    <3>5. QED BY <3>2, <3>3, <3>4
  <2>3. CASE UNCHANGED features
    BY <1>1, <2>1, <2>3 DEF CachesOK
  <2>4. QED BY <1>3, <2>2, <2>3, Exchanges DEF Fails, ReadsOn
<1>4. CASE Read \/ Mutate \/ Open \/ Skip \/ UseCache \/ Send \/ Finish \/ Deliver \/ Notify
           \/ Hotplug \/ Tick \/ UNCHANGED vars
  BY <1>2, <1>4 DEF Read, Mutate, Begin, Open, Skip, UseCache, Send, Finish, Deliver, Notify,
     Hotplug, Tick, vars
<1>5. QED BY <1>3, <1>4, Turns

LEMMA OriginalSector == Original \in Sector /\ \A c \in Chunk : Original[c].of = c
<1>1. \A c \in Chunk : c \in 0..Chunks
  BY Sizes DEF Chunk
<1>2. QED BY <1>1 DEF Original, Sector, Contents

(* The call that begins. *)
LEMMA BeginFacts ==
  ASSUME Read \/ Mutate
  PROVE  /\ job' \in Jobs /\ phase = "idle" /\ phase' \in {"read", "snapshot", "image", "write"}
         /\ phase' = "read" => job'.kind = "read"
         /\ phase' = "image" => job'.memory
         /\ phase' = "write" => job'.direct
         /\ result' = "none" /\ outputs' = Nothing /\ image' = Original
         /\ tainted' = (Misplaced \/ Mistaken)
         /\ UNCHANGED <<device, wire, caches, pc, todo, tries, got>>
<1>1. Idle \in [kind : {"none", "read", "mutate"}, targets : {{}}, tx : BOOLEAN,
                memory : BOOLEAN, direct : BOOLEAN, before : {Old, New}]
  BY DEF Idle
<1>2. CASE Read
  <2>1. PICK targets \in Projections :
           Begin([Idle EXCEPT !.kind = "read", !.targets = targets], "read")
    BY <1>2 DEF Read
  <2>2. job' \in Jobs /\ job'.kind = "read"
    BY <1>1, <2>1 DEF Begin, Jobs, Idle
  <2>3. QED BY <2>1, <2>2 DEF Begin
<1>3. CASE Mutate
  <2>1. PICK tx \in BOOLEAN, memory \in BOOLEAN, direct \in BOOLEAN :
           /\ memory \/ direct
           /\ Begin([Idle EXCEPT !.kind = "mutate", !.tx = tx, !.memory = memory,
                                 !.direct = direct],
                    IF tx THEN "snapshot" ELSE IF memory THEN "image" ELSE "write")
    BY <1>3 DEF Mutate
  <2>2. job' \in Jobs /\ job'.memory = memory /\ job'.direct = direct
    BY <1>1, <2>1 DEF Begin, Jobs, Idle
  <2>3. /\ phase' \in {"snapshot", "image", "write"}
        /\ phase' = "image" => memory
        /\ phase' = "write" => direct
    BY <2>1 DEF Begin
  <2>4. QED BY <2>1, <2>2, <2>3 DEF Begin
<1>4. QED BY <1>2, <1>3

(* A failure leaves the call, or goes on to the rollback of a transaction. *)
LEMMA FailedCall ==
  ASSUME CallOK, phase # "idle", AfterFailure, UNCHANGED <<job, image>>
  PROVE  CallOK'
<1>1. result = "none" /\ phase \in Sessions
  BY DEF CallOK
<1>2. phase' \in {"idle", "rollback"} /\ result' \in {"none", "error", "inconsistent"}
      /\ (result' # "none" => phase' = "idle")
  BY <1>1, FailureEnds
<1>3. QED BY <1>2 DEF CallOK, Sessions

LEMMA ImageReadSector ==
  ASSUME OutputsOK, Complete
  PROVE  ImageRead \in Sector
<1>1. \A c \in Chunk : outputs[Ask("chunk", c)].data \in Contents
  BY DEF OutputsOK, Complete, Values
<1>2. QED BY <1>1 DEF ImageRead, Sector

LEMMA CallStep == Typed /\ [Next]_vars => CallOK'
<1> SUFFICES ASSUME Typed, [Next]_vars PROVE CallOK'
  OBVIOUS
<1>1. CallOK /\ OutputsOK
  BY DEF Typed
<1>2. CASE UNCHANGED <<job, phase, image, result>>
  BY <1>1, <1>2 DEF CallOK
<1>3. CASE Read \/ Mutate
  BY <1>3, BeginFacts, OriginalSector DEF CallOK, Sessions
<1>4. CASE Open
  BY <1>1, <1>2, <1>4, FailedCall DEF Open
<1>5. CASE Exchange
  <2>1. phase # "idle" /\ UNCHANGED <<job, image>>
    BY <1>5, Exchanges
  <2>2. CASE Fails
    BY <1>1, <1>2, <2>1, <2>2, FailsCases, FailedCall DEF PassesOver, GivesUp
  <2>3. CASE ReadsOn \/ \E packets : Accepts(packets)
    BY <1>2, <2>1, <2>3 DEF ReadsOn, Accepts
  <2>4. QED BY <1>5, <2>2, <2>3, Exchanges
<1>6. CASE Finish
  <2>1. phase # "idle" /\ phase \in Sessions
    BY <1>1, <1>6 DEF Finish, Typed, HandleOK, CallOK
  <2>2. result = "none"
    BY <1>1, <2>1 DEF CallOK
  <2>3. ASSUME UNCHANGED <<job, image>>, phase' = "idle",
               result' \in {"ok", "error", "restored"}
        PROVE  CallOK'
    BY <1>1, <2>3 DEF CallOK
  <2>4. ASSUME job' \in Jobs, image' \in Sector, UNCHANGED result,
               phase' \in {"image", "write", "readback", "rollback"}
        PROVE  CallOK'
    BY <2>2, <2>4 DEF CallOK, Sessions
  <2>5. job \in Jobs /\ image \in Sector
    BY <1>1 DEF CallOK
  <2>6. ASSUME MutationFails, UNCHANGED <<job, image>> PROVE CallOK'
    BY <2>3, <2>4, <2>5, <2>6 DEF MutationFails, Goto, End
  <2>7. CASE phase = "read" /\ End("ok") /\ UNCHANGED <<job, image>>
    BY <2>3, <2>7 DEF End
  <2>8. CASE /\ phase = "snapshot" /\ job' = [job EXCEPT !.before = outputs[Value].value]
             /\ Goto(IF job.memory THEN "image" ELSE "write") /\ UNCHANGED image
    <3>1. Value \in DOMAIN outputs /\ outputs[Value].value \in {Old, New}
      BY <1>1, <1>6, <2>8 DEF Finish, OutputsOK
    <3>2. job' \in Jobs
      BY <2>5, <2>8, <3>1 DEF Jobs
    <3>3. QED BY <2>4, <2>5, <2>8, <3>2 DEF Goto
  <2>9. CASE phase = "image" /\ AfterImage /\ UNCHANGED job
    BY <1>1, <2>4, <2>5, <2>6, <2>9, ImageReadSector DEF AfterImage, Goto
  <2>10. CASE /\ phase = "write" /\ UNCHANGED <<job, image>>
              /\ IF job.memory THEN Goto("readback") ELSE End("ok")
    BY <2>3, <2>4, <2>5, <2>10 DEF Goto, End
  <2>11. CASE phase = "readback" /\ AfterReadback /\ UNCHANGED <<job, image>>
    BY <2>3, <2>6, <2>11 DEF AfterReadback, End
  <2>12. CASE phase = "rollback" /\ End("restored") /\ UNCHANGED <<job, image>>
    BY <2>3, <2>12 DEF End
  <2>13. QED BY <1>6, <2>7, <2>8, <2>9, <2>10, <2>11, <2>12 DEF Finish
<1>7. CASE Skip \/ UseCache \/ Send \/ Deliver \/ Notify \/ Hotplug \/ Tick \/ UNCHANGED vars
  BY <1>2, <1>7 DEF Skip, UseCache, Send, Deliver, Notify, Hotplug, Tick, vars, call
<1>8. QED BY <1>3, <1>4, <1>5, <1>6, <1>7, Turns

LEMMA LimitsStep == Typed /\ [Next]_vars => LimitsOK' /\ tainted' \in BOOLEAN
<1> SUFFICES ASSUME Typed, [Next]_vars PROVE LimitsOK' /\ tainted' \in BOOLEAN
  OBVIOUS
<1>1. LimitsOK /\ tainted \in BOOLEAN
  BY DEF Typed
<1>2. tainted' \in BOOLEAN
  <2>1. CASE Read \/ Mutate
    <3>1. tainted' = (Misplaced \/ Mistaken)
      BY <2>1, BeginFacts
    <3>2. Misplaced \in BOOLEAN /\ Mistaken \in BOOLEAN
      BY DEF Misplaced, Mistaken
    <3>3. QED BY <3>1, <3>2
  <2>2. CASE Send
    <3>1. tainted' = (tainted \/ Leftover)
      BY <2>2 DEF Send
    <3>2. Leftover \in BOOLEAN
      BY DEF Leftover
    <3>3. QED BY <1>1, <3>1, <3>2
  <2>3. CASE Exchange
    BY <1>1, <2>3, Exchanges
  <2>4. CASE Open \/ Skip \/ UseCache \/ Finish \/ Deliver \/ Notify \/ Hotplug \/ Tick
             \/ UNCHANGED vars
    BY <1>1, <2>4 DEF Open, Skip, UseCache, Finish, Deliver, Notify, Hotplug, Tick, vars
  <2>5. QED BY <2>1, <2>2, <2>3, <2>4, Turns
<1>3. faults' \in 0..MaxFaults /\ events' \in 0..MaxEvents /\ jobs' \in 0..MaxJobs
  <2>1. /\ faults' = faults \/ (faults < MaxFaults /\ faults' = faults + 1)
        /\ events' = events \/ (events < MaxEvents /\ events' = events + 1)
        /\ jobs' = jobs \/ (jobs < MaxJobs /\ jobs' = jobs + 1)
    <3>1. CASE Read \/ Mutate \/ Deliver \/ Notify \/ Hotplug \/ Tick \/ UNCHANGED vars
      BY <3>1 DEF Read, Mutate, Begin, Deliver, Notify, Hotplug, Tick, Fault, bounds, call, vars
    <3>2. CASE Open \/ Skip \/ MissingParam \/ UseCache \/ BuildFails \/ SendFails \/ Send
      BY <3>2 DEF Open, Skip, MissingParam, UseCache, BuildFails, SendFails, Send, Fault, bounds,
         call
    <3>3. CASE Receive \/ Continue \/ Timeout \/ Expire \/ Finish
      BY <3>3 DEF Receive, Continue, Unread, Timeout, Expire, Finish, Fault, bounds
    <3>4. QED BY <3>1, <3>2, <3>3 DEF Next, Engine
  <2>2. QED BY <1>1, <2>1, Sizes DEF LimitsOK
<1>4. reports' \in 0 .. MaxReports + 1
  <2>1. CASE UNCHANGED reports
    BY <1>1, <2>1 DEF LimitsOK
  <2>2. Fragments \in {1, 2}
    BY DEF Fragments
  <2>3. CASE SendFails
    BY <1>1, <2>2, <2>3, Sizes DEF SendFails, LimitsOK
  <2>4. CASE Send
    BY <1>1, <2>2, <2>4, Sizes DEF Send, LimitsOK
  <2>5. CASE Open
    BY <2>1, <2>5, Sizes DEF Open
  <2>6. CASE Read \/ Mutate \/ Deliver \/ Notify \/ Hotplug \/ Tick \/ UNCHANGED vars \/ Skip
             \/ MissingParam \/ UseCache \/ BuildFails
    BY <2>1, <2>6 DEF Read, Mutate, Begin, Deliver, Notify, Hotplug, Tick, vars, session, Skip,
       MissingParam, UseCache, BuildFails
  <2>7. CASE Receive \/ Continue \/ Timeout \/ Expire \/ Finish
    BY <2>1, <2>7 DEF Receive, Continue, Unread, Timeout, Expire, Finish
  <2>8. QED BY <2>3, <2>4, <2>5, <2>6, <2>7 DEF Next, Engine
<1>5. {deadline', budget'} \subseteq Deadlines
  <2>1. /\ deadline' \in {deadline, "none", "ahead", "passed"}
        /\ budget' \in {budget, "none", "ahead", "passed"}
    <3>1. CASE Read \/ Mutate \/ Deliver \/ Notify \/ Hotplug \/ Tick \/ UNCHANGED vars
      BY <3>1 DEF Read, Mutate, Begin, Deliver, Notify, Hotplug, Tick, call, session, vars
    <3>2. CASE Open \/ Skip \/ MissingParam \/ UseCache \/ BuildFails \/ SendFails \/ Send
      BY <3>2 DEF Open, Skip, MissingParam, UseCache, BuildFails, SendFails, Send, call
    <3>3. CASE Receive \/ Continue \/ Timeout \/ Expire \/ Finish
      BY <3>3 DEF Receive, Continue, Unread, Timeout, Expire, Finish
    <3>4. QED BY <3>1, <3>2, <3>3 DEF Next, Engine
  <2>2. QED BY <1>1, <2>1 DEF LimitsOK, Deadlines
<1>6. QED BY <1>2, <1>3, <1>4, <1>5 DEF LimitsOK

LEMMA StepsKept ==
  ASSUME UNCHANGED <<job, phase, image>>
  PROVE  StepsOf(phase)' = StepsOf(phase)
  BY DEF StepsOf, Mutation, WriteMemory, Patched

LEMMA SessionStep == Typed /\ [Next]_vars => SessionOK'
<1> SUFFICES ASSUME Typed, [Next]_vars PROVE SessionOK'
  OBVIOUS
<1>1. CallOK /\ SessionOK /\ HandleOK
  BY DEF Typed
<1>2. ASSUME UNCHANGED <<job, phase, image, pc, todo, tries, got>> PROVE SessionOK'
  <2>1. Suffix(todo, StepsOf(phase))' <=> Suffix(todo, StepsOf(phase))
    BY <1>2, StepsKept DEF Suffix
  <2>2. QED BY <1>1, <1>2, <2>1 DEF SessionOK, Matches, Now
<1>3. ASSUME pc' = "open", got' = Nothing, tries' = 0 PROVE SessionOK'
  BY <1>3, Sizes, EmptySeq DEF SessionOK, Nothing
(* The step is done, or passed over. *)
<1>4. ASSUME phase # "idle", pc # "open", todo # Nothing, todo' = Tail(todo), pc' = "step",
             got' = Nothing, tries' = 0, UNCHANGED <<job, phase, image>>
      PROVE  SessionOK'
  <2>1. Suffix(Tail(todo), StepsOf(phase))
    BY <1>1, <1>4, NowFacts
  <2>2. Suffix(todo, StepsOf(phase))'
    BY <1>4, <2>1, StepsKept DEF Suffix
  <2>3. QED BY <1>4, <2>2, Sizes, EmptySeq DEF SessionOK, Nothing
<1>5. CASE Read \/ Mutate
  <2>1. pc' = "open" /\ got' = Nothing /\ tries' = 0
    BY <1>1, <1>5, BeginFacts DEF HandleOK, SessionOK
  <2>2. QED BY <1>3, <2>1
<1>6. CASE Open
  <2>1. phase # "idle" /\ pc = "open" /\ got' = Nothing /\ tries' = 0
        /\ UNCHANGED <<job, image>>
    BY <1>1, <1>6 DEF Open, SessionOK
  <2>2. CASE pc' = "step" /\ todo' = StepsOf(phase) /\ UNCHANGED phase
    <3>1. StepsOf(phase) \in Seq(StepSet)
      BY <1>1, <2>1, StepsFacts DEF CallOK, Jobs, Sessions
    <3>2. Suffix(StepsOf(phase), StepsOf(phase))
      BY <3>1, SuffixEnds
    <3>3. StepsOf(phase)' = StepsOf(phase)
      BY <2>1, <2>2, StepsKept
    <3>4. Suffix(todo, StepsOf(phase))'
      BY <2>2, <3>2, <3>3 DEF Suffix
    <3>5. QED BY <2>1, <2>2, <3>4, Sizes, EmptySeq DEF SessionOK, Nothing
  <2>3. CASE pc' = pc
    BY <1>3, <2>1, <2>3
  <2>4. QED BY <1>6, <2>2, <2>3 DEF Open
<1>7. CASE Skip \/ UseCache
  <2>1. pc = "step" /\ todo # Nothing /\ todo' = Tail(todo)
        /\ UNCHANGED <<job, phase, image, pc, tries, got>>
    BY <1>7 DEF Skip, UseCache, Ready, AtStep, call
  <2>2. phase # "idle" /\ got = Nothing /\ tries = 0
    BY <1>1, <2>1 DEF HandleOK, SessionOK
  <2>3. QED BY <1>4, <2>1, <2>2
<1>8. CASE Send
  <2>1. phase # "idle" /\ pc = "step" /\ todo # Nothing
        /\ UNCHANGED <<job, phase, image, tries, got>>
    BY <1>8, SendFacts DEF call
  <2>2. got = Nothing /\ tries = 0
    BY <1>1, <2>1 DEF SessionOK
  <2>3. CASE pc' = "reading" /\ UNCHANGED todo
    <3>1. Suffix(todo, StepsOf(phase))'
      BY <1>1, <2>1, <2>3, StepsKept DEF SessionOK, Suffix
    <3>2. QED BY <2>1, <2>2, <2>3, <3>1, Sizes, EmptySeq DEF SessionOK, Nothing
  <2>4. CASE pc' = "step" /\ todo' = Tail(todo)
    BY <1>4, <2>1, <2>2, <2>4
  <2>5. QED BY <1>8, <2>3, <2>4, SendFacts
<1>9. CASE Exchange
  <2>1. phase # "idle" /\ pc # "open" /\ todo # Nothing /\ UNCHANGED <<job, image>>
    BY <1>9, Exchanges
  <2>2. CASE Fails
    BY <1>3, <1>4, <2>1, <2>2, FailsCases DEF PassesOver, GivesUp
  <2>3. CASE \E packets : Accepts(packets)
    BY <1>4, <2>1, <2>3 DEF Accepts
  <2>4. CASE ReadsOn
    <3>1. pc = "reading" /\ pc' = "reading" /\ todo' # Nothing /\ tries' \in 0 .. Retries - 1
          /\ UNCHANGED <<phase, todo>>
      BY <2>1, <2>4 DEF ReadsOn
    <3>2. Suffix(todo, StepsOf(phase))'
      BY <1>1, <2>1, <3>1, StepsKept DEF SessionOK, Suffix
    <3>3. input # Nothing => Head(input) \in Reports
      BY RemainsFacts DEF Typed
    <3>4. got \in Seq(Reports) /\ Len(got) < Packets /\ (got # Nothing => Matches(Head(got)))
      BY <1>1 DEF SessionOK
    <3>5. got' \in Seq(Reports) /\ Len(got') < Packets /\ (got' # Nothing => Matches(Head(got')))
      <4>1. CASE got' = got
        BY <3>4, <4>1
      <4>2. CASE /\ got' = <<Head(input)>> /\ input # Nothing /\ Matches(Head(input))
                 /\ ~Head(input).last
        <5> DEFINE r == Head(input)
        <5>1. r \in Reports /\ got' = <<r>> /\ Matches(r) /\ ~r.last
          BY <3>3, <4>2
        <5>2. Packets > 1
          BY <5>1, Sizes DEF Reports
        <5> HIDE DEF r
        <5>3. <<r>> \in Seq(Reports) /\ Len(<<r>>) = 1 /\ Head(<<r>>) = r
          BY <5>1
        <5>4. QED BY <5>1, <5>2, <5>3, Sizes
      <4>3. CASE /\ got # Nothing /\ got' = Append(got, Head(input)) /\ input # Nothing
                 /\ Len(got') < Packets
        <5>1. Len(got) > 0
          BY <3>4, <4>3, EmptySeq DEF Nothing
        <5>2. got' \in Seq(Reports) /\ Len(got') = Len(got) + 1 /\ got'[1] = got[1]
          BY <3>3, <3>4, <4>3, <5>1
        <5>3. Head(got') = got'[1] /\ Head(got) = got[1]
          BY <3>4, <5>1, <5>2
        <5>4. QED BY <3>4, <4>3, <5>2, <5>3
      <4>4. QED BY <2>4, <4>1, <4>2, <4>3 DEF ReadsOn
    <3>6. (got # Nothing => Matches(Head(got)))'
      BY <3>1, <3>5 DEF Matches, Now
    <3>7. QED BY <3>1, <3>2, <3>5, <3>6 DEF SessionOK
  <2>5. QED BY <1>9, <2>2, <2>3, <2>4, Exchanges
<1>10. CASE Finish
  <2>1. pc = "step" /\ pc' = "open" /\ UNCHANGED <<tries, got>>
    BY <1>10 DEF Finish
  <2>2. QED BY <1>1, <1>3, <2>1 DEF SessionOK
<1>11. CASE Deliver \/ Notify \/ Hotplug \/ Tick \/ UNCHANGED vars
  BY <1>2, <1>11 DEF Deliver, Notify, Hotplug, Tick, vars, call, session
<1>12. QED BY <1>5, <1>6, <1>7, <1>8, <1>9, <1>10, <1>11, Turns

LEMMA OutputsStep == Typed /\ [Next]_vars => OutputsOK'
<1> SUFFICES ASSUME Typed, [Next]_vars PROVE OutputsOK'
  OBVIOUS
<1>1. OutputsOK /\ CallOK /\ SessionOK /\ HandleOK /\ CachesOK
  BY DEF Typed
<1>2. ASSUME UNCHANGED <<phase, pc, todo, outputs>> PROVE OutputsOK'
  BY <1>1, <1>2 DEF OutputsOK
<1>3. ASSUME outputs' = Nothing,
             phase' # "snapshot" \/ pc' = "open" \/ todo' # Nothing PROVE OutputsOK'
  BY <1>3 DEF OutputsOK, Nothing
<1>4. CASE Read \/ Mutate
  <2>1. pc' = "open" /\ outputs' = Nothing
    BY <1>1, <1>4, BeginFacts DEF HandleOK
  <2>2. QED BY <1>3, <2>1
<1>5. CASE Open
  <2>1. CASE pc' = "step" /\ todo' = StepsOf(phase) /\ UNCHANGED phase /\ outputs' = Nothing
    <3>1. phase = "snapshot" => StepsOf(phase) # Nothing
      BY <1>1, StepsFacts, EmptySeq DEF CallOK, Jobs, Nothing
    <3>2. QED BY <1>3, <2>1, <3>1
  <2>2. CASE pc = "open" /\ UNCHANGED <<pc, outputs>>
    BY <1>1, <2>2 DEF OutputsOK
  <2>3. QED BY <1>5, <2>1, <2>2 DEF Open
(* No step of the snapshot is passed over. *)
<1>6. ASSUME phase = "snapshot", pc # "open", todo # Nothing
      PROVE  Now = Value /\ Head(todo).policy = "abort" /\ Head(todo).needs = {}
  <2>1. /\ Len(StepsOf(phase)) = 1 /\ StepsOf(phase)[1].policy = "abort"
        /\ StepsOf(phase)[1].ask = Value /\ StepsOf(phase)[1].needs = {}
    BY <1>1, <1>6, StepsFacts DEF CallOK, Jobs
  <2>2. Head(todo) = StepsOf(phase)[1]
    BY <1>1, <1>6, <2>1, NowFacts
  <2>3. QED BY <2>1, <2>2 DEF Now
<1>7. CASE Skip
  <2>1. pc = "step" /\ todo # Nothing /\ UNCHANGED <<phase, pc, outputs>>
        /\ (phase # "snapshot" \/ Head(todo).needs # {})
    BY <1>7 DEF Skip, AtStep, Needs, Selected, call
  <2>2. phase # "snapshot"
    BY <1>6, <2>1
  <2>3. QED BY <1>1, <2>1, <2>2 DEF OutputsOK
<1>8. CASE UseCache
  <2>1. /\ pc = "step" /\ todo # Nothing /\ Now.what = "index" /\ Now.n \in DOMAIN features
        /\ outputs' = Insert(outputs, Now, features[Now.n]) /\ UNCHANGED <<phase, pc>>
    BY <1>8 DEF UseCache, Ready, AtStep, Cached, call
  <2>2. Now \in Questions /\ features[Now.n] \in Values /\ Now # Value
    <3>1. phase # "idle"
      BY <1>1, <2>1 DEF HandleOK
    <3>2. Now \in Questions
      BY <1>1, <2>1, <3>1, NowFacts
    <3>3. QED BY <1>1, <2>1, <3>2 DEF CachesOK, Value, Ask
  <2>3. phase # "snapshot"
    BY <1>6, <2>1, <2>2
  <2>4. DOMAIN outputs \subseteq Questions /\ \A q \in DOMAIN outputs : outputs[q] \in Values
    BY <1>1 DEF OutputsOK
  <2> DEFINE all == Insert(outputs, Now, features[Now.n])
  <2>5. DOMAIN all \subseteq Questions /\ \A q \in DOMAIN all : all[q] \in Values
    BY <2>2, <2>4, InsertTyped
  <2>6. Value \in DOMAIN all => Value \in DOMAIN outputs /\ all[Value] = outputs[Value]
    BY <2>2 DEF Insert
  <2> HIDE DEF all
  <2>7. outputs' = all
    BY <2>1 DEF all
  <2>8. QED BY <1>1, <2>1, <2>3, <2>5, <2>6, <2>7 DEF OutputsOK
<1>9. CASE Send
  <2>1. phase # "idle" /\ pc = "step" /\ todo # Nothing /\ UNCHANGED <<phase, outputs>>
    BY <1>9, SendFacts DEF call
  <2>2. CASE UNCHANGED todo
    BY <1>1, <2>1, <2>2 DEF OutputsOK
  <2>3. CASE ~Answered
    BY <1>1, <2>1, <2>3 DEF Answered, OutputsOK
  <2>4. QED BY <1>9, <2>2, <2>3, SendFacts
<1>10. CASE Exchange
  <2>1. phase # "idle" /\ pc # "open" /\ todo # Nothing
    BY <1>10, Exchanges
  <2>2. CASE Fails
    <3>1. CASE PassesOver
      BY <1>1, <1>6, <2>1, <3>1 DEF PassesOver, OutputsOK
    <3>2. CASE GivesUp
      BY <1>3, <3>2 DEF GivesUp
    <3>3. QED BY <2>2, <3>1, <3>2, FailsCases
  <2>3. CASE ReadsOn
    BY <1>2, <2>3 DEF ReadsOn
  <2>4. ASSUME NEW packets, Accepts(packets) PROVE OutputsOK'
    <3>1. Now \in Questions /\ Reply(packets) \in Values
          /\ (Now = Value => Reply(packets).value \in {Old, New})
      <4>1. Now = Value => Now.what = "value"
        BY DEF Value, Ask
      <4>2. QED BY <1>1, <2>1, <2>4, <4>1, ReplyFacts, NowFacts
    <3>2. outputs' = Insert(outputs, Now, Reply(packets)) /\ UNCHANGED phase
      BY <2>4 DEF Accepts
    <3>3. DOMAIN outputs \subseteq Questions /\ \A q \in DOMAIN outputs : outputs[q] \in Values
          /\ (Value \in DOMAIN outputs => outputs[Value].value \in {Old, New})
      BY <1>1 DEF OutputsOK
    <3> DEFINE all == Insert(outputs, Now, Reply(packets))
    <3>4. DOMAIN all \subseteq Questions /\ \A q \in DOMAIN all : all[q] \in Values
      BY <3>1, <3>3, InsertTyped
    <3>5. DOMAIN all = DOMAIN outputs \cup {Now} /\ all[Now] = Reply(packets)
          /\ \A q \in DOMAIN outputs : q # Now => all[q] = outputs[q]
      BY DEF Insert
    <3> HIDE DEF all
    <3>6. Value \in DOMAIN all => all[Value].value \in {Old, New}
      BY <3>1, <3>3, <3>5
    <3>7. phase = "snapshot" => Value \in DOMAIN all
      BY <1>6, <2>1, <3>5
    <3>8. outputs' = all
      BY <3>2 DEF all
    <3>9. QED BY <3>2, <3>4, <3>6, <3>7, <3>8 DEF OutputsOK
  <2>5. QED BY <1>10, <2>2, <2>3, <2>4, Exchanges
<1>11. CASE Finish
  <2>1. pc' = "open" /\ UNCHANGED outputs
    BY <1>11 DEF Finish
  <2>2. QED BY <1>1, <2>1 DEF OutputsOK
<1>12. CASE Deliver \/ Notify \/ Hotplug \/ Tick \/ UNCHANGED vars
  BY <1>2, <1>12 DEF Deliver, Notify, Hotplug, Tick, vars, call, session
<1>13. QED BY <1>4, <1>5, <1>7, <1>8, <1>9, <1>10, <1>11, <1>12, Turns

LEMMA InitTyped == Init => Typed
<1> SUFFICES ASSUME Init PROVE Typed
  OBVIOUS
<1>1. DeviceOK /\ WireOK /\ HandleOK
  BY OriginalSector, EmptySeq DEF Init, DeviceOK, WireOK, HandleOK, Nothing
<1>2. CachesOK /\ OutputsOK
  BY DEF Init, CachesOK, OutputsOK, Nothing
<1>3. CallOK
  BY OriginalSector DEF Init, CallOK, Sessions, Jobs, Idle
<1>4. SessionOK
  BY Sizes, EmptySeq DEF Init, SessionOK, Nothing
<1>5. LimitsOK
  BY Sizes DEF Init, LimitsOK, Deadlines
<1>6. QED BY <1>1, <1>2, <1>3, <1>4, <1>5 DEF Init, Typed

LEMMA TypedStep == Typed /\ [Next]_vars => Typed'
  BY DeviceStep, WireStep, HandleStep, CachesStep, CallStep, SessionStep, OutputsStep, LimitsStep
     DEF Typed

(* The type invariant.  It holds for every workflow and every number of chunks,
   packets and attempts: a session has its handle and nobody else has it, an
   exchange under way belongs to a step of its session, and the value that a
   rollback would write back is one that the register can have. *)
THEOREM TypeCorrect == Spec => []TypeOK
<1>1. Spec => []Typed
  BY InitTyped, TypedStep, PTL DEF Spec
<1>2. QED BY <1>1, TypedIsTypeOK, PTL

-----------------------------------------------------------------------------
(* What a call may be relied on for: answers, results and the sector. *)

Placed(n) == [i \in 1..n |-> Patched[i]]

(* What is so when the answer to a question arrives. *)
Effective(q, r) ==
    /\ q.what = "value" => r.value = reg
    /\ q.what = "chunk" => r.data = mem[q.n]
    /\ q.what = "set" => reg = q.n
    /\ q.what = "start" => buffer = Nothing
    /\ q.what = "put" => buffer = Placed(q.n)
Own(r) ==
    /\ r.ask = Now /\ (~r.last => PacketsOf(Now) > 1)
    /\ ~r.refused => Effective(Now, r)

(* No report on its way can be taken for an answer that it is not. *)
Fitting(r) ==
    \/ r.ask = Event.ask \/ Own(r)
    \/ r.ask.what # Now.what /\ ~(PacketsOf(Now) > 1)
Fits(queue) == \A i \in DOMAIN queue : Fitting(queue[i])
WireTrue ==
    pc = "reading" =>
        /\ Fits(input) /\ Fits(transit)
        /\ \A i \in DOMAIN got : got[i].ask = Now
        /\ got # Nothing => PacketsOf(Now) > 1

OutputsTrue == \A q \in DOMAIN outputs : outputs[q].asks = {q}

(* What was sent of the sector before a step is what lies in the buffer. *)
Progress ==
    phase = "write" /\ pc = "step" /\ todo # Nothing =>
        /\ Now.what = "put" => buffer = Placed(Now.n - 1)
        /\ Now.what = "end" => buffer = Placed(Chunks)
InPlace == \A c \in Chunk : mem[c].of = c /\ image[c].of = c

(* The chunks that were read are those the sector has now. *)
Fresh ==
    phase \in {"image", "readback"} /\ pc # "open" =>
        \A c \in Chunk :
            Ask("chunk", c) \in DOMAIN outputs => outputs[Ask("chunk", c)].data = mem[c]

(* A write that has been verified, and a value that has been written back. *)
DirectDone ==
    job.direct /\ (phase = "readback" \/ (phase = "write" /\ pc = "step" /\ todo = Nothing))
        => reg = New
RolledBack ==
    phase = "rollback" /\ pc # "open" /\ Ask("set", job.before) \in DOMAIN outputs
        => reg = job.before
Truthful ==
    /\ result = "ok" /\ job.kind = "mutate"
       => (job.direct => reg = New) /\ (job.memory => mem[1].patched)
    /\ result = "restored" /\ Ask("set", job.before) \in DOMAIN outputs
       => reg = job.before

Sound ==
    /\ OutputsTrue /\ ~Mistaken /\ WireTrue /\ Progress /\ InPlace /\ Fresh /\ DirectDone
    /\ RolledBack /\ Truthful

IInv == Typed /\ (~tainted => Sound)

LEMMA SoundFacts ==
  IInv => OwnAnswers /\ HonestResult /\ SectorKept
  BY DEF IInv, Sound, OutputsTrue, InPlace, Truthful, OwnAnswers, HonestResult, SectorKept,
     PatchStaysInPlace

(* The step that the session of a phase is at, and the one that follows it in a
   write. *)
LEMMA PhaseFacts ==
  ASSUME Typed, phase # "idle", pc # "open", todo # Nothing
  PROVE  /\ Now \in Questions /\ Now = Ask(Now.what, Now.n) /\ Now.what # "event"
         /\ Now.what \in {"start", "put", "end"} => phase = "write"
         /\ Now.what = "index" => phase = "read"
         /\ phase \in {"image", "readback"} => Now.what = "chunk"
         /\ phase = "rollback" => Now = Ask("set", job.before)
         /\ Head(todo).needs # {} => phase = "read"
<1>1. CallOK /\ SessionOK /\ phase \in Sessions /\ job.before \in {Old, New}
  BY DEF Typed, CallOK, Jobs
<1>2. PICK k \in 1..Len(StepsOf(phase)) : Head(todo) = StepsOf(phase)[k]
  BY <1>1, NowFacts
<1>3. Now = StepsOf(phase)[k].ask /\ Now \in Questions
  BY <1>1, <1>2, NowFacts DEF Now
<1>4. Now = Ask(Now.what, Now.n) /\ Now.what # "event"
  BY <1>3, QuestionFacts
<1>5. /\ phase # "read" => Head(todo).needs = {}
      /\ phase = "read" => Now.what \in {"index", "value", "table"}
      /\ phase = "snapshot" => Now = Value
      /\ phase \in {"image", "readback"} => Now.what = "chunk"
      /\ phase = "rollback" => Now = Ask("set", job.before)
  <2> DEFINE s == StepsOf(phase)
  <2>1. \A i \in 1..Len(s) :
           /\ phase # "read" => s[i].needs = {}
           /\ phase = "read" => s[i].ask.what \in {"index", "value", "table"}
           /\ phase = "snapshot" => s[i].ask = Value
           /\ phase \in {"image", "readback"} => s[i].ask.what = "chunk"
           /\ phase = "rollback" => s[i].ask = Ask("set", job.before)
    BY <1>1, StepsFacts DEF Sessions
  <2>2. k \in 1..Len(s) /\ Head(todo) = s[k] /\ Now = s[k].ask
    BY <1>2, <1>3
  <2> HIDE DEF s
  <2>3. QED BY <2>1, <2>2
<1>6. phase = "write" => Now.what \in {"value", "start", "put", "end", "set"}
  BY <1>1, <1>2, <1>3, StepsFacts, MutationSteps DEF Sessions, Ordered
<1>7. Value.what = "value" /\ Ask("set", job.before).what = "set"
  BY DEF Value, Ask
<1>8. QED BY <1>1, <1>3, <1>4, <1>5, <1>6, <1>7 DEF Sessions

LEMMA WriteFacts ==
  ASSUME Typed, phase = "write", pc # "open", todo # Nothing
  PROVE  /\ Head(todo).policy = "abort"
         /\ Tail(todo) # Nothing =>
              /\ Head(Tail(todo)).ask.what = "put" =>
                   \/ Head(Tail(todo)).ask.n = 1 /\ Now.what = "start"
                   \/ Now = Ask("put", Head(Tail(todo)).ask.n - 1)
              /\ Head(Tail(todo)).ask.what = "end" => Now = Ask("put", Chunks)
         /\ job.direct /\ Tail(todo) = Nothing
              => Now = Value /\ Len(todo) = 1 /\ Now.what # "set"
<1>1. CallOK /\ SessionOK /\ job.before \in {Old, New}
  BY DEF Typed, CallOK, Jobs
<1>2. StepsOf(phase) = Mutation
  BY DEF StepsOf
<1> DEFINE s == Mutation
<1>3. PICK k \in 1..Len(s) :
         /\ Head(todo) = s[k] /\ Len(todo) = Len(s) - k + 1
         /\ k < Len(s) => Tail(todo) # Nothing /\ Head(Tail(todo)) = s[k + 1]
         /\ k = Len(s) => Tail(todo) = Nothing
  BY <1>1, <1>2, NowFacts
<1>4. /\ s \in Seq(StepSet) /\ Ordered(s) /\ Len(s) \in Nat
      /\ job.direct => /\ Len(s) > 1 /\ s[Len(s)].ask = Value
                       /\ \A i \in 1..Len(s) : s[i].ask.what = "set" => i < Len(s)
  BY MutationSteps
<1> HIDE DEF s
<1>5. Now = s[k].ask /\ Head(todo).policy = "abort"
  BY <1>3, <1>4 DEF Now, Ordered
<1>6. ASSUME k < Len(s)
      PROVE  /\ s[k + 1].ask.what = "put" =>
                   \/ s[k + 1].ask.n = 1 /\ Now.what = "start"
                   \/ Now = Ask("put", s[k + 1].ask.n - 1)
             /\ s[k + 1].ask.what = "end" => Now = Ask("put", Chunks)
  <2>1. k + 1 \in 1..Len(s) /\ (k + 1) - 1 = k
    BY <1>4, <1>6
  <2>2. QED BY <1>4, <1>5, <2>1 DEF Ordered
<1>7. ASSUME job.direct, k = Len(s)
      PROVE  Now = Value /\ Len(todo) = 1 /\ Now.what # "set"
  BY <1>3, <1>4, <1>5, <1>7
<1>8. k < Len(s) \/ k = Len(s)
  BY <1>4
<1>9. QED BY <1>3, <1>5, <1>6, <1>7, <1>8

(* The steps that leave the call alone. *)
Around == Deliver \/ Notify \/ Hotplug \/ Tick \/ UNCHANGED vars

LEMMA AroundFacts ==
  Around => UNCHANGED <<device, caches, job, phase, image, result, pc, todo, got, outputs, tainted>>
  BY DEF Around, Deliver, Notify, Hotplug, Tick, vars, call, session

(* A step that is passed over before it is asked is one of a read. *)
LEMMA PassedOver ==
  ASSUME Typed, Skip \/ UseCache
  PROVE  /\ phase = "read" /\ pc = "step" /\ todo # Nothing /\ Now = Ask(Now.what, Now.n)
         /\ UNCHANGED <<device, wire, caches, call, pc, got, tainted>>
         /\ \/ UNCHANGED outputs
            \/ /\ Now.what = "index" /\ Now.n \in DOMAIN features
               /\ outputs' = Insert(outputs, Now, features[Now.n])
<1>1. pc = "step" /\ todo # Nothing
  BY DEF Skip, UseCache, Ready, AtStep
<1>2. phase # "idle"
  BY <1>1 DEF Typed, HandleOK
<1>3. phase = "read" /\ Now = Ask(Now.what, Now.n)
  BY <1>1, <1>2, PhaseFacts DEF Skip, Selected, Needs, UseCache, Cached
<1>4. QED BY <1>1, <1>3 DEF Skip, UseCache, Cached

(* What is taken for an answer is the answer, and what it says is so. *)
LEMMA AcceptTrue ==
  ASSUME Typed, WireTrue, phase # "idle", todo # Nothing, NEW packets, Accepts(packets)
  PROVE  Reply(packets).asks = {Now} /\ Effective(Now, Reply(packets))
<1> DEFINE r == Head(input)
<1>1. /\ pc = "reading" /\ input # Nothing /\ Replies(packets)
      /\ input \in Seq(Reports) /\ got \in Seq(Reports)
  BY DEF Accepts, Typed, WireOK, SessionOK
<1>2. Fitting(r)
  BY <1>1, RemainsFacts DEF WireTrue, Fits, Typed
<1>3. Now # Event.ask /\ Now.what # Event.ask.what
  BY <1>1, PhaseFacts, QuestionMembers
<1>4. CASE got = Nothing /\ packets = <<r>> /\ Matches(r) /\ ~r.refused
  <2>1. Own(r)
    BY <1>2, <1>3, <1>4 DEF Fitting, Matches
  <2> HIDE DEF r
  <2>2. ToSet(packets) = {r} /\ Head(packets) = r
    BY <1>4 DEF ToSet
  <2>3. Reply(packets).asks = {Now} /\ Reply(packets).value = r.value
        /\ Reply(packets).data = r.data
    BY <2>1, <2>2 DEF Reply, Own
  <2>4. QED BY <1>4, <2>1, <2>3 DEF Own, Effective
<1>5. CASE got # Nothing /\ packets = Append(got, r) /\ ~Unrelated(r)
  <2>1. PacketsOf(Now) > 1 /\ \A i \in DOMAIN got : got[i].ask = Now
    BY <1>1, <1>5 DEF WireTrue
  <2>2. r.ask = Now
    BY <1>2, <1>5, <2>1 DEF Fitting, Unrelated, Own
  <2>3. Now.what = "table"
    BY <2>1, PacketsFacts
  <2> HIDE DEF r
  <2>4. Len(packets) > 0 /\ packets \in Seq(Reports)
    BY ReplyFacts
  <2>5. \A i \in 1..Len(packets) : packets[i].ask = Now
    BY <1>1, <1>5, <2>1, <2>2
  <2>6. Reply(packets).asks = {Now}
    <3>1. \A p \in ToSet(packets) : p.ask = Now
      BY <2>4, <2>5 DEF ToSet
    <3>2. packets[1] \in ToSet(packets)
      BY <2>4 DEF ToSet
    <3>3. {p.ask : p \in ToSet(packets)} = {Now}
      BY <3>1, <3>2
    <3>4. QED BY <3>3 DEF Reply
  <2>7. QED BY <2>3, <2>6 DEF Effective
<1>6. QED BY <1>1, <1>4, <1>5 DEF Replies

(* The steps that follow the beginning of a call. *)
Later == Open \/ Skip \/ UseCache \/ Exchange \/ Send \/ Finish \/ Around

LEMMA AnswersStep ==
  ASSUME Typed, Sound, Later
  PROVE  OutputsTrue' /\ ~Mistaken'
<1>1. OutputsTrue /\ (\A f \in DOMAIN features : features[f].asks = {Ask("index", f)}) /\ WireTrue
  BY DEF Sound, Mistaken
<1>2. ASSUME UNCHANGED outputs \/ outputs' = Nothing, UNCHANGED features
      PROVE  OutputsTrue' /\ ~Mistaken'
  BY <1>1, <1>2 DEF OutputsTrue, Mistaken, Nothing
<1>3. ASSUME NEW q, NEW answer, answer.asks = {q}, outputs' = Insert(outputs, q, answer)
      PROVE  OutputsTrue'
  <2> DEFINE all == Insert(outputs, q, answer)
  <2>1. DOMAIN all = DOMAIN outputs \cup {q} /\ all[q] = answer
        /\ \A k \in DOMAIN outputs : k # q => all[k] = outputs[k]
    BY DEF Insert
  <2> HIDE DEF all
  <2>2. ASSUME NEW k \in DOMAIN all PROVE all[k].asks = {k}
    <3>1. CASE k = q
      BY <1>3, <2>1, <3>1
    <3>2. CASE k # q
      BY <1>1, <2>1, <3>2 DEF OutputsTrue
    <3>3. QED BY <3>1, <3>2
  <2>3. outputs' = all
    BY <1>3 DEF all
  <2>4. QED BY <2>2, <2>3 DEF OutputsTrue
<1>4. CASE Skip \/ UseCache
  <2>1. Now = Ask(Now.what, Now.n) /\ UNCHANGED features
    BY <1>4, PassedOver DEF caches
  <2>2. CASE UNCHANGED outputs
    BY <1>2, <2>1, <2>2
  <2>3. CASE /\ Now.what = "index" /\ Now.n \in DOMAIN features
             /\ outputs' = Insert(outputs, Now, features[Now.n])
    <3>1. features[Now.n].asks = {Now}
      BY <1>1, <2>1, <2>3
    <3>2. OutputsTrue'
      BY <1>3, <2>3, <3>1
    <3>3. QED BY <1>1, <2>1, <3>2 DEF Mistaken
  <2>4. QED BY <1>4, <2>2, <2>3, PassedOver
<1>5. CASE Exchange
  <2>1. phase # "idle" /\ pc # "open" /\ todo # Nothing
    BY <1>5, Exchanges
  <2>2. CASE Fails \/ ReadsOn
    <3>1. Fails => UNCHANGED features
      BY DEF Fails
    <3>2. QED BY <1>2, <2>2, <3>1, FailsCases DEF PassesOver, GivesUp, ReadsOn
  <2>3. ASSUME NEW packets, Accepts(packets) PROVE OutputsTrue' /\ ~Mistaken'
    <3> DEFINE reply == Reply(packets)
    <3>1. reply.asks = {Now} /\ Now = Ask(Now.what, Now.n)
      BY <1>1, <2>1, <2>3, AcceptTrue, PhaseFacts
    <3> HIDE DEF reply
    <3>2. /\ outputs' = Insert(outputs, Now, reply)
          /\ features' = IF Now.what = "index" THEN Insert(features, Now.n, reply) ELSE features
      BY <2>3 DEF Accepts, reply
    <3>3. OutputsTrue'
      BY <1>3, <3>1, <3>2
    <3>4. CASE Now.what # "index"
      BY <1>1, <3>2, <3>3, <3>4 DEF Mistaken
    <3>5. CASE Now.what = "index"
      <4> DEFINE all == Insert(features, Now.n, reply)
      <4>1. DOMAIN all = DOMAIN features \cup {Now.n} /\ all[Now.n] = reply
            /\ \A f \in DOMAIN features : f # Now.n => all[f] = features[f]
        BY DEF Insert
      <4> HIDE DEF all
      <4>2. reply.asks = {Ask("index", Now.n)}
        BY <3>1, <3>5
      <4>3. ASSUME NEW f \in DOMAIN all PROVE all[f].asks = {Ask("index", f)}
        <5>1. CASE f = Now.n
          BY <4>1, <4>2, <5>1
        <5>2. CASE f # Now.n
          BY <1>1, <4>1, <5>2
        <5>3. QED BY <5>1, <5>2
      <4>4. features' = all
        BY <3>2, <3>5 DEF all
      <4>5. QED BY <3>3, <4>3, <4>4 DEF Mistaken
    <3>6. QED BY <3>4, <3>5
  <2>4. QED BY <1>5, <2>2, <2>3, Exchanges
<1>6. CASE Open \/ Send \/ Finish
  <2>1. UNCHANGED features
    BY <1>6, SendFacts DEF Open, Finish, caches
  <2>2. UNCHANGED outputs \/ outputs' = Nothing
    BY <1>6, SendFacts DEF Open, Finish
  <2>3. QED BY <1>2, <2>1, <2>2
<1>7. CASE Around
  BY <1>2, <1>7, AroundFacts DEF caches
<1>8. QED BY <1>4, <1>5, <1>6, <1>7 DEF Later

(* What a question does to the device, once its answer is on its way. *)
LEMMA Executed ==
  ASSUME Typed, Sound, phase # "idle", pc = "step", todo # Nothing,
         UNCHANGED <<image, todo, transport>>, NEW r, Sent(r)
  PROVE  Own(r)'
<1>1. Now' = Now /\ PacketsOf(Now)' = PacketsOf(Now)
  BY DEF Now, PacketsOf
<1>2. r.ask = Now /\ (~r.last => PacketsOf(Now) > 1)
      /\ (~r.refused => Execute(Now, Content)
                        /\ (Now.what = "value" => r.value = reg)
                        /\ (Now.what = "chunk" => r.data = mem[Now.n]))
  BY DEF Sent
<1>3. Now.what = "put" => phase = "write" /\ Now.n \in Chunk
  BY PhaseFacts, QuestionFacts
<1>4. ASSUME ~r.refused, Now.what = "put" PROVE buffer' = Placed(Now.n)
  <2>1. buffer = Placed(Now.n - 1) /\ Now.n \in Chunk
    BY <1>3, <1>4 DEF Sound, Progress
  <2>2. buffer' = Append(buffer, Patched[Now.n])
    BY <1>2, <1>4 DEF Execute, Content
  <2>3. Patched \in Sector
    BY PatchedSector DEF Typed, CallOK
  <2> DEFINE n == Now.n
  <2>4. n \in Nat /\ n > 0 /\ \A i \in 1..n : Patched[i] \in Contents
    BY <2>1, <2>3, Sizes DEF Chunk, Sector
  <2> HIDE DEF n
  <2>5. Append([i \in 1..(n - 1) |-> Patched[i]], Patched[n]) = [i \in 1..n |-> Patched[i]]
    <3> DEFINE s == [i \in 1..(n - 1) |-> Patched[i]]
               t == [i \in 1..n |-> Patched[i]]
               a == Append(s, Patched[n])
    <3>1. s \in Seq(Contents) /\ Len(s) = n - 1 /\ \A i \in 1..(n - 1) : s[i] = Patched[i]
      BY <2>4
    <3>2. t \in Seq(Contents) /\ Len(t) = n /\ \A i \in 1..n : t[i] = Patched[i]
      BY <2>4
    <3> HIDE DEF s, t
    <3>3. a \in Seq(Contents) /\ Len(a) = n /\ a[n] = Patched[n]
          /\ \A i \in 1..(n - 1) : a[i] = Patched[i]
      BY <2>4, <3>1
    <3> HIDE DEF a
    <3>4. \A i \in 1..n : a[i] = t[i]
      BY <2>4, <3>2, <3>3
    <3>5. a = t
      BY <2>4, <3>2, <3>3, <3>4, SeqEqual
    <3>6. QED BY <3>5 DEF a, s, t
  <2>6. QED BY <2>1, <2>2, <2>5 DEF Placed, n
<1>5. ~r.refused =>
        /\ Now.what = "value" => reg' = reg
        /\ Now.what = "chunk" => mem' = mem
        /\ Now.what = "set" => reg' = Now.n
        /\ Now.what = "start" => buffer' = Nothing
  BY <1>2 DEF Execute
<1>6. Patched' = Patched
  BY DEF Patched
<1>7. Placed(Now.n)' = Placed(Now.n)
  BY <1>1, <1>6 DEF Placed
<1>8. ~r.refused => Effective(Now, r)'
  BY <1>1, <1>2, <1>4, <1>5, <1>7 DEF Effective
<1>9. QED BY <1>1, <1>2, <1>8 DEF Own

LEMMA EventFits == Fitting(Event)
  BY DEF Fitting

LEMMA FitsNext ==
  ASSUME NEW queue, \A i \in DOMAIN queue : Fitting(queue[i])'
  PROVE  (queue = input' => Fits(input)') /\ (queue = transit' => Fits(transit)')
  BY DEF Fits, Fitting, Own, Effective, Placed, Now, PacketsOf, Patched

LEMMA ReportsStep ==
  ASSUME Typed, Sound, ~tainted', Later
  PROVE  WireTrue'
<1>1. WireTrue /\ input \in Seq(Reports) /\ transit \in Seq(Reports) /\ got \in Seq(Reports)
      /\ HandleOK
  BY DEF Sound, Typed, WireOK, SessionOK
<1>2. ASSUME pc' # "reading" PROVE WireTrue'
  BY <1>2 DEF WireTrue
(* The question and what it brings about stay the same. *)
<1>3. ASSUME UNCHANGED <<device, transport, image, todo>>
      PROVE  /\ Fits(input') => Fits(input)'
             /\ Fits(transit') => Fits(transit)'
             /\ Now' = Now /\ PacketsOf(Now)' = PacketsOf(Now)
  <2>1. Now' = Now /\ PacketsOf(Now)' = PacketsOf(Now)
    BY <1>3 DEF Now, PacketsOf
  <2>2. Patched' = Patched
    BY <1>3 DEF Patched
  <2>3. ASSUME NEW queue
        PROVE  (\A i \in DOMAIN queue : Fitting(queue[i]))
                 => \A i \in DOMAIN queue : Fitting(queue[i])'
    BY <1>3, <2>1, <2>2 DEF Fitting, Own, Effective, Placed, device
  <2>4. Fits(input') => Fits(input)'
    <3>1. PICK queue : queue = input'
      OBVIOUS
    <3>2. QED BY <2>3, <3>1, FitsNext DEF Fits
  <2>5. Fits(transit') => Fits(transit)'
    <3>1. PICK queue : queue = transit'
      OBVIOUS
    <3>2. QED BY <2>3, <3>1, FitsNext DEF Fits
  <2>6. QED BY <2>1, <2>4, <2>5
<1>4. CASE Skip \/ UseCache \/ Finish
  BY <1>2, <1>4, PassedOver DEF Finish
<1>5. CASE Open
  <2>1. pc' = "step" \/ pc' = "open"
    BY <1>5 DEF Open
  <2>2. QED BY <1>2, <2>1
<1>6. CASE Send
  <2>1. /\ phase # "idle" /\ pc = "step" /\ todo # Nothing /\ input' = Drained
        /\ got' = got /\ UNCHANGED <<image, transport>>
    BY <1>6, SendFacts DEF call, caches
  <2>2. got = Nothing
    BY <2>1 DEF Typed, SessionOK
  <2>3. CASE pc' = "step"
    BY <1>2, <2>3
  <2>4. CASE UNCHANGED todo
    <3>1. Now' = Now /\ PacketsOf(Now)' = PacketsOf(Now)
      BY <2>1, <2>4 DEF Now, PacketsOf
    <3>2. ~Leftover
      BY <1>6, SendFacts
    <3>3. Drained \in Seq(Reports)
      BY RemainsFacts DEF Typed, Remains
    <3>4. ASSUME NEW r \in ToSet(Drained \o transit) PROVE Fitting(r)'
      BY <3>1, <3>2, <3>4 DEF Leftover, Fitting, Event, Report, Ask
    <3>5. \A i \in DOMAIN Drained : Drained[i] \in ToSet(Drained \o transit)
      <4>1. ASSUME NEW i \in DOMAIN Drained PROVE Drained[i] \in ToSet(Drained \o transit)
        <5>1. i \in DOMAIN (Drained \o transit) /\ (Drained \o transit)[i] = Drained[i]
          BY <1>1, <3>3
        <5>2. QED BY <5>1 DEF ToSet
      <4>2. QED BY <4>1
    <3>6. \A i \in DOMAIN transit : transit[i] \in ToSet(Drained \o transit)
      <4>1. ASSUME NEW i \in DOMAIN transit PROVE transit[i] \in ToSet(Drained \o transit)
        <5>1. /\ Len(Drained) + i \in DOMAIN (Drained \o transit)
              /\ (Drained \o transit)[Len(Drained) + i] = transit[i]
          BY <1>1, <3>3
        <5>2. QED BY <5>1 DEF ToSet
      <4>2. QED BY <4>1
    <3>7. PICK new \in Seq(Reports) :
             transit' = transit \o new /\ \A i \in DOMAIN new : Sent(new[i])
      BY <1>6, SendFacts
    <3>8. \A i \in DOMAIN new : Fitting(new[i])'
      <4>1. \A i \in DOMAIN new : Own(new[i])'
        BY <2>1, <2>4, <3>7, Executed
      <4>2. QED BY <4>1 DEF Fitting
    <3>9. \A i \in DOMAIN transit' :
             \/ i \in DOMAIN transit /\ transit'[i] = transit[i]
             \/ i - Len(transit) \in DOMAIN new /\ transit'[i] = new[i - Len(transit)]
      BY <1>1, <3>7
    <3>10. Fits(transit)'
      <4>1. PICK queue : queue = transit'
        OBVIOUS
      <4>2. \A i \in DOMAIN queue : Fitting(queue[i])'
        BY <3>4, <3>6, <3>8, <3>9, <4>1
      <4>3. QED BY <4>1, <4>2, FitsNext
    <3>11. Fits(input)'
      <4>1. PICK queue : queue = input'
        OBVIOUS
      <4>2. \A i \in DOMAIN queue : Fitting(queue[i])'
        BY <2>1, <3>4, <3>5, <4>1
      <4>3. QED BY <4>1, <4>2, FitsNext
    <3>12. got' = Nothing /\ DOMAIN got' = {}
      BY <2>1, <2>2 DEF Nothing
    <3>13. QED BY <3>10, <3>11, <3>12 DEF WireTrue
  <2>5. QED BY <1>6, <2>3, <2>4, SendFacts
<1>7. CASE Exchange
  <2>1. phase # "idle" /\ todo # Nothing /\ UNCHANGED <<device, transit, transport, image>>
    BY <1>7, Exchanges
  <2>2. CASE Fails \/ \E packets : Accepts(packets)
    <3>1. pc' \in {"step", "open"}
      BY <2>2, FailsCases DEF PassesOver, GivesUp, Accepts
    <3>2. QED BY <1>2, <3>1
  <2>3. CASE ReadsOn
    <3>1. pc = "reading" /\ pc' = "reading" /\ UNCHANGED todo /\ Remains(input')
      BY <2>3 DEF ReadsOn
    <3>2. /\ Fits(input') => Fits(input)'
          /\ Fits(transit') => Fits(transit)'
          /\ Now' = Now /\ PacketsOf(Now)' = PacketsOf(Now)
      BY <1>3, <2>1, <3>1
    <3>3. Fits(input')
      BY <1>1, <3>1 DEF WireTrue, Fits, Remains
    <3>4. Fits(transit')
      BY <1>1, <2>1, <3>1 DEF WireTrue
    <3>5. (\A i \in DOMAIN got' : got'[i].ask = Now) /\ (got' # Nothing => PacketsOf(Now) > 1)
      <4> DEFINE r == Head(input)
      <4>1. (\A i \in DOMAIN got : got[i].ask = Now) /\ (got # Nothing => PacketsOf(Now) > 1)
        BY <1>1, <3>1 DEF WireTrue
      <4>2. Now.what # Event.ask.what /\ Now # Event.ask
        BY <2>1, <3>1, PhaseFacts, QuestionMembers
      <4>3. input # Nothing => Fitting(r) /\ r \in Reports
        BY <1>1, <3>1, RemainsFacts DEF WireTrue, Fits, Typed
      <4>4. CASE got' = got
        BY <4>1, <4>4
      <4>5. CASE /\ got = Nothing /\ got' = <<r>> /\ input # Nothing
                 /\ Matches(r) /\ ~r.refused /\ ~r.last
        <5>1. Own(r)
          BY <4>2, <4>3, <4>5 DEF Fitting, Matches
        <5>2. r.ask = Now /\ PacketsOf(Now) > 1
          BY <4>5, <5>1 DEF Own
        <5> HIDE DEF r
        <5>3. QED BY <4>5, <5>2
      <4>6. CASE got # Nothing /\ got' = Append(got, r) /\ input # Nothing /\ ~Unrelated(r)
        <5>1. r.ask = Now
          BY <4>1, <4>3, <4>6 DEF Fitting, Unrelated, Own
        <5>2. r \in Reports
          BY <4>3, <4>6
        <5> HIDE DEF r
        <5>3. \A i \in DOMAIN got' : (i \in DOMAIN got /\ got'[i] = got[i]) \/ got'[i] = r
          BY <1>1, <4>6, <5>2
        <5>4. QED BY <4>1, <4>6, <5>1, <5>3
      <4>7. QED BY <2>3, <4>4, <4>5, <4>6 DEF ReadsOn
    <3>6. QED BY <3>1, <3>2, <3>3, <3>4, <3>5 DEF WireTrue
  <2>4. QED BY <1>7, <2>2, <2>3, Exchanges
<1>8. CASE Around
  <2>1. UNCHANGED <<device, transport, image, todo, pc, got>>
    BY <1>8, AroundFacts DEF caches
  <2>2. /\ Fits(input') => Fits(input)'
        /\ Fits(transit') => Fits(transit)'
        /\ Now' = Now /\ PacketsOf(Now)' = PacketsOf(Now)
    BY <1>3, <2>1
  <2>3. ASSUME pc = "reading", Fits(input'), Fits(transit') PROVE WireTrue'
    BY <1>1, <2>1, <2>2, <2>3 DEF WireTrue
  <2> SUFFICES ASSUME pc = "reading" PROVE Fits(input') /\ Fits(transit')
    BY <1>2, <2>1, <2>3
  <2>4. Fits(input) /\ Fits(transit)
    BY <1>1 DEF WireTrue
  <2>5. CASE Tick \/ UNCHANGED vars
    BY <2>4, <2>5 DEF Tick, vars, wire
  <2>6. CASE Hotplug
    BY <1>1, <2>6 DEF Hotplug, HandleOK
  <2>7. CASE Notify
    <3>1. Fitting(Event) /\ input' = Append(input, Event) /\ UNCHANGED transit
      BY <2>7, EventFits DEF Notify
    <3> DEFINE e == Event
    <3> HIDE DEF e
    <3>2. \A i \in DOMAIN Append(input, e) :
             (i \in DOMAIN input /\ Append(input, e)[i] = input[i]) \/ Append(input, e)[i] = e
      BY <1>1
    <3>3. QED BY <2>4, <3>1, <3>2 DEF e, Fits
  <2>8. CASE Deliver
    <3>1. transit # Nothing /\ transit' = Tail(transit)
          /\ (input' = input \/ input' = Append(input, Head(transit)))
      BY <2>8 DEF Deliver
    <3>2. Len(transit) > 0 /\ Len(transit) \in Nat
      BY <1>1, <3>1, EmptySeq DEF Nothing
    <3>3. /\ \A i \in DOMAIN Tail(transit) : i + 1 \in DOMAIN transit
                                             /\ Tail(transit)[i] = transit[i + 1]
          /\ Head(transit) = transit[1] /\ 1 \in DOMAIN transit
      BY <1>1, <3>2
    <3> DEFINE e == Head(transit)
    <3>4. Fitting(e)
      BY <2>4, <3>3 DEF Fits
    <3> HIDE DEF e
    <3>5. \A i \in DOMAIN Append(input, e) :
             (i \in DOMAIN input /\ Append(input, e)[i] = input[i]) \/ Append(input, e)[i] = e
      BY <1>1
    <3>6. Fits(input')
      BY <2>4, <3>1, <3>4, <3>5 DEF e, Fits
    <3>7. QED BY <2>4, <3>1, <3>3, <3>6 DEF Fits
  <2>9. QED BY <1>8, <2>5, <2>6, <2>7, <2>8 DEF Around
<1>9. QED BY <1>4, <1>5, <1>6, <1>7, <1>8 DEF Later

(* What an exchange leaves alone. *)
LEMMA ExchangeFrame ==
  ASSUME Typed, Exchange
  PROVE  /\ phase # "idle" /\ pc # "open" /\ todo # Nothing
         /\ UNCHANGED <<reg, mem, buffer, job, image>>
         /\ \/ PassesOver /\ phase # "write"
            \/ GivesUp \/ ReadsOn \/ \E packets : Accepts(packets)
<1>1. /\ phase # "idle" /\ pc # "open" /\ todo # Nothing
      /\ UNCHANGED <<reg, mem, buffer, job, image>>
  BY Exchanges DEF device
<1>2. PassesOver => phase # "write"
  BY <1>1, WriteFacts DEF PassesOver
<1>3. QED BY <1>1, <1>2, Exchanges, FailsCases

LEMMA ProgressStep ==
  ASSUME Typed, Sound, Later
  PROVE  Progress'
<1>1. Progress /\ WireTrue /\ CallOK /\ SessionOK
  BY DEF Sound, Typed
<1>2. ASSUME phase' # "write" \/ pc' # "step" PROVE Progress'
  BY <1>2 DEF Progress
<1>3. ASSUME UNCHANGED <<buffer, image, phase, pc, todo>> PROVE Progress'
  BY <1>1, <1>3 DEF Progress, Placed, Patched, Now
<1>4. CASE Open
  <2>1. CASE phase = "write" /\ phase' = phase /\ pc' = "step" /\ todo' = StepsOf(phase)
    <3> DEFINE s == Mutation
    <3>1. s \in Seq(StepSet) /\ Ordered(s) /\ todo' = s
      BY <2>1, MutationSteps DEF StepsOf
    <3> HIDE DEF s
    <3>2. ASSUME s # Nothing PROVE Head(s).ask.what \notin {"put", "end"}
      <4>1. Len(s) > 0 /\ Len(s) \in Nat /\ Head(s) = s[1]
        BY <3>1, <3>2, EmptySeq DEF Nothing
      <4>2. QED BY <3>1, <4>1 DEF Ordered
    <3>3. QED BY <3>1, <3>2 DEF Progress, Now
  <2>2. CASE phase # "write" /\ phase' = phase
    BY <1>2, <2>2
  <2>3. CASE pc' = "open"
    BY <1>2, <2>3
  <2>4. QED BY <1>4, <2>1, <2>2, <2>3 DEF Open
<1>5. CASE Skip \/ UseCache
  <2>1. phase' = "read"
    BY <1>5, PassedOver DEF call
  <2>2. QED BY <1>2, <2>1
(* The step is done: the next one finds what it needs in the buffer. *)
<1>6. ASSUME phase = "write", pc # "open", todo # Nothing, todo' = Tail(todo),
             UNCHANGED image,
             Now.what = "start" => buffer' = Nothing,
             Now.what = "put" => buffer' = Placed(Now.n)
      PROVE  Progress'
  <2>1. Patched' = Patched
    BY <1>6 DEF Patched
  <2>2. CASE Tail(todo) = Nothing
    BY <1>6, <2>2 DEF Progress
  <2>3. CASE Tail(todo) # Nothing
    <3> DEFINE next == Head(Tail(todo)).ask
    <3>1. /\ next.what = "put" => (next.n = 1 /\ Now.what = "start")
                                  \/ Now = Ask("put", next.n - 1)
          /\ next.what = "end" => Now = Ask("put", Chunks)
      BY <1>6, <2>3, WriteFacts
    <3>2. Now' = next
      BY <1>6 DEF Now
    <3> HIDE DEF next
    <3>3. Placed(1 - 1) = Nothing
      <4>1. 1..(1 - 1) = {}
        OBVIOUS
      <4>2. QED BY <4>1 DEF Placed, Nothing
    <3>4. next.what = "put" => buffer' = Placed(next.n - 1)
      BY <1>6, <3>1, <3>3 DEF Ask
    <3>5. next.what = "end" => buffer' = Placed(Chunks)
      BY <1>6, <3>1 DEF Ask
    <3>6. QED BY <2>1, <3>2, <3>4, <3>5 DEF Progress, Placed
  <2>4. QED BY <2>2, <2>3
<1>7. CASE Exchange
  <2>1. /\ phase # "idle" /\ pc # "open" /\ todo # Nothing
        /\ UNCHANGED <<buffer, image>>
    BY <1>7, ExchangeFrame
  <2>2. CASE (PassesOver /\ phase # "write") \/ GivesUp \/ ReadsOn
    <3>1. phase' # "write" \/ pc' # "step"
      BY <2>2 DEF PassesOver, GivesUp, ReadsOn
    <3>2. QED BY <1>2, <3>1
  <2>3. ASSUME NEW packets, Accepts(packets) PROVE Progress'
    <3>1. Effective(Now, Reply(packets))
      BY <1>1, <2>1, <2>3, AcceptTrue
    <3>2. todo' = Tail(todo) /\ UNCHANGED phase
      BY <2>3 DEF Accepts
    <3>3. CASE phase = "write"
      BY <1>6, <2>1, <3>1, <3>2, <3>3 DEF Effective
    <3>4. QED BY <1>2, <3>2, <3>3
  <2>4. QED BY <1>7, <2>2, <2>3, ExchangeFrame
<1>8. CASE Send
  <2>1. phase # "idle" /\ pc = "step" /\ todo # Nothing /\ UNCHANGED <<phase, image>>
    BY <1>8, SendFacts DEF call
  <2>2. CASE pc' = "reading"
    BY <1>2, <2>2
  <2>3. CASE ~Answered /\ todo' = Tail(todo)
    BY <1>6, <2>1, <2>3 DEF Answered
  <2>4. QED BY <1>8, <2>2, <2>3, SendFacts
<1>9. CASE Finish
  <2>1. pc' = "open"
    BY <1>9 DEF Finish
  <2>2. QED BY <1>2, <2>1
<1>10. CASE Around
  BY <1>3, <1>10, AroundFacts DEF device
<1>11. QED BY <1>4, <1>5, <1>7, <1>8, <1>9, <1>10 DEF Later

(* A memory write ends with the patched sector, in its order. *)
LEMMA InPlaceStep ==
  ASSUME Typed, Sound, Later
  PROVE  InPlace'
<1>1. InPlace /\ Progress /\ Fresh /\ DeviceOK /\ image \in Sector
  BY DEF Sound, Typed, CallOK
<1>2. ASSUME UNCHANGED <<mem, image>> PROVE InPlace'
  BY <1>1, <1>2 DEF InPlace
<1>3. CASE Send
  <2>1. phase # "idle" /\ pc = "step" /\ todo # Nothing /\ UNCHANGED image
    BY <1>3, SendFacts DEF call
  <2>2. CASE UNCHANGED device
    BY <1>2, <2>1, <2>2 DEF device
  <2>3. CASE Execute(Now, Content) /\ ~(Now.what = "end" /\ Len(buffer) = Chunks)
    BY <1>2, <2>1, <2>3 DEF Execute
  <2>4. CASE Execute(Now, Content) /\ Now.what = "end" /\ Len(buffer) = Chunks
    <3>1. mem' = Placed(Chunks)
      BY <1>1, <2>1, <2>4, PhaseFacts DEF Execute, Progress
    <3>2. \A c \in Chunk : Placed(Chunks)[c] = Patched[c]
      BY DEF Placed, Chunk
    <3>3. \A c \in Chunk : Patched[c].of = image[c].of
      BY <1>1 DEF Patched, Sector, Contents
    <3>4. QED BY <1>1, <2>1, <3>1, <3>2, <3>3 DEF InPlace
  <2>5. QED BY <1>3, <2>2, <2>3, <2>4, SendFacts
<1>4. CASE Finish
  <2>1. UNCHANGED mem
    BY <1>4 DEF Finish, device
  <2>2. CASE UNCHANGED image
    BY <1>2, <2>1, <2>2
  <2>3. CASE phase = "image" /\ Complete /\ image' = ImageRead
    <3>1. pc # "open"
      BY <1>4 DEF Finish
    <3>2. \A c \in Chunk : ImageRead[c] = mem[c]
      BY <1>1, <2>3, <3>1 DEF Fresh, Complete, ImageRead
    <3>3. QED BY <1>1, <2>1, <2>3, <3>2 DEF InPlace
  <2>4. QED BY <1>4, <2>2, <2>3 DEF Finish, AfterImage
<1>5. CASE Skip \/ UseCache \/ Exchange \/ Around
  <2>1. UNCHANGED <<mem, image>>
    BY <1>5, PassedOver, ExchangeFrame, AroundFacts DEF device, call
  <2>2. QED BY <1>2, <2>1
<1>6. CASE Open
  BY <1>2, <1>6 DEF Open, device
<1>7. QED BY <1>3, <1>4, <1>5, <1>6 DEF Later

LEMMA FreshStep ==
  ASSUME Typed, Sound, Later
  PROVE  Fresh'
<1>1. Fresh /\ WireTrue
  BY DEF Sound
<1>2. ASSUME phase' \notin {"image", "readback"} \/ pc' = "open" PROVE Fresh'
  BY <1>2 DEF Fresh
<1>3. ASSUME UNCHANGED <<mem, outputs, phase>>, pc # "open" \/ pc' = "open" PROVE Fresh'
  BY <1>1, <1>3 DEF Fresh
<1>4. CASE Open
  <2>1. CASE outputs' = Nothing
    BY <2>1 DEF Fresh, Nothing
  <2>2. CASE pc' = "open"
    BY <1>2, <2>2
  <2>3. QED BY <1>4, <2>1, <2>2 DEF Open
<1>5. CASE Skip \/ UseCache
  <2>1. phase' = "read"
    BY <1>5, PassedOver DEF call
  <2>2. QED BY <1>2, <2>1
<1>6. CASE Exchange
  <2>1. /\ phase # "idle" /\ pc # "open" /\ todo # Nothing /\ UNCHANGED mem
    BY <1>6, ExchangeFrame
  <2>2. CASE PassesOver \/ ReadsOn
    BY <1>3, <2>1, <2>2 DEF PassesOver, ReadsOn
  <2>3. CASE GivesUp
    BY <1>2, <2>3 DEF GivesUp
  <2>4. ASSUME NEW packets, Accepts(packets) PROVE Fresh'
    <3> DEFINE reply == Reply(packets)
               all == Insert(outputs, Now, reply)
    <3>1. Effective(Now, reply) /\ Now = Ask(Now.what, Now.n)
          /\ (phase \in {"image", "readback"} => Now.what = "chunk")
      BY <1>1, <2>1, <2>4, AcceptTrue, PhaseFacts
    <3>2. outputs' = all /\ UNCHANGED phase
      BY <2>4 DEF Accepts
    <3> HIDE DEF reply
    <3>3. DOMAIN all = DOMAIN outputs \cup {Now} /\ all[Now] = reply
          /\ \A q \in DOMAIN outputs : q # Now => all[q] = outputs[q]
      BY DEF Insert
    <3> HIDE DEF all
    <3>4. ASSUME phase \in {"image", "readback"}, NEW c \in Chunk, Ask("chunk", c) \in DOMAIN all
          PROVE  all[Ask("chunk", c)].data = mem[c]
      <4>1. CASE Ask("chunk", c) = Now
        <5>1. Now.what = "chunk" /\ Now.n = c
          BY <4>1 DEF Ask
        <5>2. QED BY <3>1, <3>3, <4>1, <5>1 DEF Effective
      <4>2. CASE Ask("chunk", c) # Now
        BY <1>1, <2>1, <3>3, <3>4, <4>2 DEF Fresh
      <4>3. QED BY <4>1, <4>2
    <3>5. QED BY <2>1, <3>2, <3>4 DEF Fresh
  <2>5. QED BY <1>6, <2>2, <2>3, <2>4, ExchangeFrame
<1>7. CASE Send
  <2>1. phase # "idle" /\ pc = "step" /\ todo # Nothing /\ UNCHANGED <<phase, outputs>>
    BY <1>7, SendFacts DEF call
  <2>2. CASE phase \in {"image", "readback"}
    <3>1. Now.what = "chunk"
      BY <2>1, <2>2, PhaseFacts
    <3>2. UNCHANGED mem
      BY <1>7, <3>1, SendFacts DEF Execute, device
    <3>3. QED BY <1>3, <2>1, <3>2
  <2>3. QED BY <1>2, <2>1, <2>2
<1>8. CASE Finish
  <2>1. pc' = "open"
    BY <1>8 DEF Finish
  <2>2. QED BY <1>2, <2>1
<1>9. CASE Around
  <2>1. UNCHANGED <<mem, outputs, phase, pc>>
    BY <1>9, AroundFacts DEF device
  <2>2. QED BY <1>3, <2>1
<1>10. QED BY <1>4, <1>5, <1>6, <1>7, <1>8, <1>9 DEF Later

LEMMA DirectStep ==
  ASSUME Typed, Sound, Later
  PROVE  DirectDone'
<1>1. DirectDone /\ WireTrue /\ job.direct \in BOOLEAN
  BY DEF Sound, Typed, CallOK, Jobs
<1>2. ASSUME phase' # "readback", phase' # "write" \/ pc' # "step" \/ todo' # Nothing
      PROVE  DirectDone'
  BY <1>2 DEF DirectDone
<1>3. ASSUME UNCHANGED <<reg, phase, pc, todo, job>> PROVE DirectDone'
  BY <1>1, <1>3 DEF DirectDone
<1>4. ASSUME phase = "readback", UNCHANGED <<reg, job>> PROVE DirectDone'
  BY <1>1, <1>4 DEF DirectDone
<1>5. CASE Open
  <2>1. UNCHANGED <<reg, job>>
    BY <1>5 DEF Open, device
  <2>2. CASE phase = "readback"
    BY <1>4, <2>1, <2>2
  <2>3. CASE phase = "write" /\ phase' = phase /\ todo' = StepsOf(phase)
    <3>1. job.direct => Mutation # Nothing
      BY MutationSteps, EmptySeq DEF Nothing
    <3>2. todo' = Mutation
      BY <2>3 DEF StepsOf
    <3>3. QED BY <2>1, <2>3, <3>1, <3>2 DEF DirectDone
  <2>4. CASE phase \notin {"write", "readback"} /\ phase' = phase
    BY <1>2, <2>4
  <2>5. CASE phase # "readback" /\ AfterFailure /\ UNCHANGED pc
    <3>1. pc' = "open" /\ phase' # "readback"
      BY <1>5, <2>5, FailureEnds DEF Open
    <3>2. QED BY <1>2, <3>1
  <2>6. QED BY <1>5, <2>2, <2>3, <2>4, <2>5 DEF Open
<1>6. CASE Skip \/ UseCache
  <2>1. phase' = "read"
    BY <1>6, PassedOver DEF call
  <2>2. QED BY <1>2, <2>1
<1>7. CASE Exchange
  <2>1. /\ phase # "idle" /\ pc # "open" /\ todo # Nothing /\ UNCHANGED <<reg, job>>
    BY <1>7, ExchangeFrame
  <2>2. CASE phase = "readback"
    BY <1>4, <2>1, <2>2
  <2>3. CASE phase # "readback" /\ GivesUp
    <3>1. pc' = "open" /\ phase' # "readback"
      BY <2>3, FailureEnds DEF GivesUp
    <3>2. QED BY <1>2, <3>1
  <2>4. CASE phase # "readback" /\ ((PassesOver /\ phase # "write") \/ ReadsOn)
    <3>1. phase' # "readback" /\ (phase' # "write" \/ todo' # Nothing)
      BY <2>1, <2>4 DEF PassesOver, ReadsOn
    <3>2. QED BY <1>2, <3>1
  <2>5. ASSUME phase # "readback", NEW packets, Accepts(packets) PROVE DirectDone'
    <3>1. Effective(Now, Reply(packets)) /\ Passes(Reply(packets).value)
      BY <1>1, <2>1, <2>5, AcceptTrue DEF Accepts
    <3>2. todo' = Tail(todo) /\ UNCHANGED phase
      BY <2>5 DEF Accepts
    <3>3. CASE phase = "write" /\ job.direct /\ Tail(todo) = Nothing
      <4>1. Verifying /\ Now.what = "value"
        BY <2>1, <3>3, WriteFacts DEF Verifying, Value, Ask
      <4>2. reg = New
        BY <3>1, <4>1 DEF Passes, Effective
      <4>3. QED BY <2>1, <4>2 DEF DirectDone
    <3>4. QED BY <2>1, <2>5, <3>2, <3>3 DEF DirectDone
  <2>6. QED BY <1>7, <2>2, <2>3, <2>4, <2>5, ExchangeFrame
<1>8. CASE Send
  <2>1. phase # "idle" /\ pc = "step" /\ todo # Nothing /\ UNCHANGED <<phase, job>>
    BY <1>8, SendFacts DEF call
  <2>2. CASE phase = "readback"
    <3>1. Now.what = "chunk"
      BY <2>1, <2>2, PhaseFacts
    <3>2. UNCHANGED reg
      BY <1>8, <3>1, SendFacts DEF Execute, device
    <3>3. QED BY <1>4, <2>1, <2>2, <3>2
  <2>3. CASE phase # "readback" /\ pc' = "reading"
    BY <1>2, <2>1, <2>3
  <2>4. CASE phase # "readback" /\ ~Answered /\ todo' = Tail(todo)
    <3>1. job.direct => Tail(todo) # Nothing
      BY <2>1, <2>4, WriteFacts DEF Answered
    <3>2. QED BY <2>1, <2>4, <3>1 DEF DirectDone
  <2>5. QED BY <1>8, <2>2, <2>3, <2>4, SendFacts
<1>9. CASE Finish
  <2>1. pc = "step" /\ todo = Nothing /\ pc' = "open" /\ UNCHANGED reg
    BY <1>9 DEF Finish, device
  <2>2. CASE phase = "write" /\ UNCHANGED job
    BY <1>1, <2>1, <2>2 DEF DirectDone
  <2>3. CASE phase = "readback" /\ UNCHANGED job
    BY <1>4, <2>1, <2>3
  <2>4. CASE phase \notin {"write", "readback"}
    <3>1. phase' # "readback"
      BY <1>9, <2>4 DEF Finish, End, Goto, AfterImage, MutationFails
    <3>2. QED BY <1>2, <2>1, <3>1
  <2>5. QED BY <1>9, <2>2, <2>3, <2>4 DEF Finish
<1>10. CASE Around
  <2>1. UNCHANGED <<reg, phase, pc, todo, job>>
    BY <1>10, AroundFacts DEF device
  <2>2. QED BY <1>3, <2>1
<1>11. QED BY <1>5, <1>6, <1>7, <1>8, <1>9, <1>10 DEF Later

LEMMA RollbackStep ==
  ASSUME Typed, Sound, Later
  PROVE  RolledBack'
<1>1. RolledBack /\ WireTrue
  BY DEF Sound
<1>2. ASSUME phase' # "rollback" \/ pc' = "open" PROVE RolledBack'
  BY <1>2 DEF RolledBack
<1>3. ASSUME UNCHANGED <<reg, phase, outputs, job>>, pc # "open" \/ pc' = "open"
      PROVE  RolledBack'
  BY <1>1, <1>3 DEF RolledBack
<1>4. CASE Open
  <2>1. CASE outputs' = Nothing
    BY <2>1 DEF RolledBack, Nothing
  <2>2. CASE pc' = "open"
    BY <1>2, <2>2
  <2>3. QED BY <1>4, <2>1, <2>2 DEF Open
<1>5. CASE Skip \/ UseCache
  <2>1. phase' = "read"
    BY <1>5, PassedOver DEF call
  <2>2. QED BY <1>2, <2>1
<1>6. CASE Exchange
  <2>1. /\ phase # "idle" /\ pc # "open" /\ todo # Nothing /\ UNCHANGED <<reg, job>>
    BY <1>6, ExchangeFrame
  <2>2. CASE PassesOver \/ ReadsOn
    BY <1>3, <2>1, <2>2 DEF PassesOver, ReadsOn
  <2>3. CASE GivesUp
    BY <1>2, <2>3 DEF GivesUp
  <2>4. ASSUME NEW packets, Accepts(packets) PROVE RolledBack'
    <3>1. Effective(Now, Reply(packets))
          /\ (phase = "rollback" => Now = Ask("set", job.before))
      BY <1>1, <2>1, <2>4, AcceptTrue, PhaseFacts
    <3>2. phase = "rollback" => reg = job.before
      BY <3>1 DEF Effective, Ask
    <3>3. UNCHANGED phase
      BY <2>4 DEF Accepts
    <3>4. QED BY <2>1, <3>2, <3>3 DEF RolledBack
  <2>5. QED BY <1>6, <2>2, <2>3, <2>4, ExchangeFrame
<1>7. CASE Send
  <2>1. phase # "idle" /\ pc = "step" /\ todo # Nothing /\ UNCHANGED <<phase, job, outputs>>
    BY <1>7, SendFacts DEF call
  <2>2. CASE UNCHANGED device
    BY <1>3, <2>1, <2>2 DEF device
  <2>3. CASE Execute(Now, Content) /\ phase = "rollback"
    <3>1. reg' = job.before
      BY <2>1, <2>3, PhaseFacts DEF Execute, Ask
    <3>2. QED BY <2>1, <3>1 DEF RolledBack
  <2>4. QED BY <1>2, <1>7, <2>1, <2>2, <2>3, SendFacts
<1>8. CASE Finish
  <2>1. pc' = "open"
    BY <1>8 DEF Finish
  <2>2. QED BY <1>2, <2>1
<1>9. CASE Around
  <2>1. UNCHANGED <<reg, phase, outputs, job, pc>>
    BY <1>9, AroundFacts DEF device
  <2>2. QED BY <1>3, <2>1
<1>10. QED BY <1>4, <1>5, <1>6, <1>7, <1>8, <1>9 DEF Later

(* A call ends well only when its session is over. *)
LEMMA TruthStep ==
  ASSUME Typed, Sound, Later
  PROVE  Truthful'
<1>1. Truthful /\ DirectDone /\ RolledBack /\ Fresh /\ CallOK
  BY DEF Sound, Typed
<1>2. ASSUME result' \notin {"ok", "restored"} PROVE Truthful'
  BY <1>2 DEF Truthful
<1>3. ASSUME phase # "idle", UNCHANGED result PROVE Truthful'
  BY <1>1, <1>2, <1>3 DEF CallOK
<1>4. CASE Skip \/ UseCache \/ Send
  <2>1. phase # "idle" /\ UNCHANGED result
    BY <1>4, PassedOver, SendFacts DEF call
  <2>2. QED BY <1>3, <2>1
<1>5. ASSUME phase # "idle", AfterFailure PROVE Truthful'
  BY <1>2, <1>3, <1>5, FailureEnds
<1>6. CASE Open
  BY <1>3, <1>5, <1>6 DEF Open
<1>7. CASE Exchange
  <2>1. phase # "idle"
    BY <1>7, ExchangeFrame
  <2>2. QED BY <1>3, <1>5, <1>7, <2>1, ExchangeFrame DEF PassesOver, GivesUp, ReadsOn, Accepts
<1>8. CASE Finish
  <2>1. pc = "step" /\ todo = Nothing /\ UNCHANGED <<reg, mem, outputs>>
    BY <1>8 DEF Finish, device
  <2>2. phase # "idle"
    BY <2>1 DEF Typed, HandleOK
  <2>3. CASE phase = "read" /\ End("ok") /\ UNCHANGED job
    BY <1>1, <2>3 DEF End, CallOK, Truthful
  <2>4. CASE UNCHANGED result
    BY <1>3, <2>2, <2>4
  <2>5. CASE phase = "write" /\ ~job.memory /\ End("ok") /\ UNCHANGED job
    BY <1>1, <2>1, <2>5 DEF End, DirectDone, Truthful
  <2>6. CASE phase = "readback" /\ Complete /\ ImageRead = Patched /\ End("ok") /\ UNCHANGED job
    <3>1. 1 \in Chunk /\ image[1] \in Contents
      BY <1>1, Sizes DEF Chunk, CallOK, Sector
    <3>2. ImageRead[1] = mem[1]
      BY <1>1, <2>1, <2>6, <3>1 DEF Fresh, Complete, ImageRead
    <3>3. Patched[1].patched
      BY <1>1, <3>1 DEF Patched, CallOK, Sector, Contents
    <3>4. job.direct => reg = New
      BY <1>1, <2>6 DEF DirectDone
    <3>5. result' = "ok" /\ mem'[1].patched
      BY <2>1, <2>6, <3>2, <3>3 DEF End
    <3>6. QED BY <2>1, <2>6, <3>4, <3>5 DEF Truthful
  <2>7. CASE phase = "rollback" /\ End("restored") /\ UNCHANGED job
    BY <1>1, <2>1, <2>7 DEF End, RolledBack, Truthful
  <2>8. CASE MutationFails
    BY <1>2, <2>4, <2>8 DEF MutationFails, End, Goto
  <2>9. \/ phase = "read" /\ End("ok") /\ UNCHANGED job
        \/ UNCHANGED result
        \/ phase = "write" /\ ~job.memory /\ End("ok") /\ UNCHANGED job
        \/ phase = "readback" /\ Complete /\ ImageRead = Patched /\ End("ok") /\ UNCHANGED job
        \/ phase = "rollback" /\ End("restored") /\ UNCHANGED job
        \/ MutationFails
    BY <1>8 DEF Finish, Goto, AfterImage, AfterReadback
  <2>10. QED BY <2>3, <2>4, <2>5, <2>6, <2>7, <2>8, <2>9
<1>9. CASE Around
  <2>1. UNCHANGED <<reg, mem, result, job, outputs>>
    BY <1>9, AroundFacts DEF device
  <2>2. QED BY <1>1, <2>1 DEF Truthful
<1>10. QED BY <1>4, <1>6, <1>7, <1>8, <1>9 DEF Later

(* A call starts untainted when the sector and the cache are in order. *)
LEMMA BeginSound ==
  ASSUME Typed, Read \/ Mutate, ~tainted'
  PROVE  Sound'
<1>1. /\ phase = "idle" /\ phase' \in {"read", "snapshot", "image", "write"}
      /\ result' = "none" /\ outputs' = Nothing /\ image' = Original
      /\ ~Misplaced /\ ~Mistaken
      /\ UNCHANGED <<mem, features, pc>>
  BY BeginFacts DEF device, caches
<1>2. pc' = "open"
  BY <1>1 DEF Typed, HandleOK
<1>3. OutputsTrue' /\ ~Mistaken' /\ WireTrue' /\ Progress' /\ Fresh' /\ RolledBack'
  BY <1>1, <1>2 DEF OutputsTrue, Mistaken, WireTrue, Progress, Fresh, RolledBack, Nothing
<1>4. InPlace'
  BY <1>1, OriginalSector DEF Misplaced, InPlace
<1>5. DirectDone' /\ Truthful'
  BY <1>1, <1>2 DEF DirectDone, Truthful
<1>6. QED BY <1>3, <1>4, <1>5 DEF Sound

LEMMA InitIInv == Init => IInv
<1> SUFFICES ASSUME Init PROVE IInv
  OBVIOUS
<1>1. Typed
  BY InitTyped
<1>2. OutputsTrue /\ ~Mistaken /\ WireTrue /\ Progress /\ Fresh /\ RolledBack
  BY DEF Init, OutputsTrue, Mistaken, WireTrue, Progress, Fresh, RolledBack, Nothing
<1>3. InPlace
  BY OriginalSector DEF Init, InPlace
<1>4. DirectDone /\ Truthful
  BY DEF Init, DirectDone, Truthful
<1>5. QED BY <1>1, <1>2, <1>3, <1>4 DEF IInv, Sound

LEMMA IInvStep == IInv /\ [Next]_vars => IInv'
<1> SUFFICES ASSUME IInv, [Next]_vars PROVE IInv'
  OBVIOUS
<1>1. Typed /\ Typed'
  BY TypedStep DEF IInv
<1> SUFFICES ASSUME ~tainted' PROVE Sound'
  BY <1>1 DEF IInv
<1>2. CASE Read \/ Mutate
  BY <1>1, <1>2, BeginSound
<1>3. CASE Later
  <2>1. ~tainted
    <3>1. CASE Send
      BY <3>1 DEF Send
    <3>2. CASE Open \/ Skip \/ UseCache \/ Finish
      BY <3>2 DEF Open, Skip, UseCache, Finish
    <3>3. CASE Exchange \/ Around
      BY <1>1, <3>3, Exchanges, AroundFacts
    <3>4. QED BY <1>3, <3>1, <3>2, <3>3 DEF Later
  <2>2. Sound
    BY <2>1 DEF IInv
  <2>3. QED BY <1>1, <1>3, <2>2, AnswersStep, ReportsStep, ProgressStep, InPlaceStep, FreshStep,
     DirectStep, RollbackStep, TruthStep DEF Sound
<1>4. QED BY <1>2, <1>3, Turns DEF Later, Around

LEMMA Invariance == Spec => []IInv
  BY InitIInv, IInvStep, PTL DEF Spec

(* What a workflow or the cache of feature indices took for the answer to a
   question is the answer to it, in all its packets, whatever else arrives;
   unless an answer of its kind was still on its way when it was asked. *)
THEOREM AnswersAreOwn == Spec => []OwnAnswers
  BY Invariance, SoundFacts, PTL

(* A call that reports success has changed the register and the sector as it
   was asked to; one that reports a rollback has put the old value back, if the
   workflow that restores it was answered. *)
THEOREM ResultsAreHonest == Spec => []HonestResult
  BY Invariance, SoundFacts, PTL

(* A write of the onboard memory leaves every chunk in its place, whichever of
   its steps fails and whatever the retries were. *)
THEOREM SectorIsKept == Spec => []SectorKept
  BY Invariance, SoundFacts, PTL

=============================================================================
