------------------------ MODULE WakeRecovery_proofs ------------------------
(***************************************************************************)
(* Type correctness, the two probe budgets and the absence of lost wakeups *)
(* of WakeRecovery, for every set of paths, table of retry delays, batch   *)
(* cap and number of edges.                                                *)
(***************************************************************************)
EXTENDS WakeRecovery, TLAPS

(* The reader thread looks for a due probe at the top of its loop and settles
   it before it waits. *)
ProbingInPass == probing => readerPc \notin {"top", "wait", "waiting"}

(* A batch is scheduled for the current generation or an earlier one. *)
ConsumedInPast == consumed <= generation

(* What was spent, what the pending batch may still spend and what an unused
   edge may still buy stay within four probes per edge. *)
EdgeCap == ProbesPerBatch * edges
EdgeBudget == probes + Remaining + Credit <= EdgeCap

(* The same for the batches of the current episode. *)
BatchCap == ProbesPerBatch * batches
EpisodeBudget == episodeProbes + Remaining <= BatchCap

IInv ==
    /\ TypeOK
    /\ ProbingInPass
    /\ ConsumedInPast
    /\ PendingImpliesArmed
    /\ EdgeBudget
    /\ EpisodeBudget

(* Multiplication by the number of probes of a batch, in the steps it is
   needed: nothing, one more, and monotony. *)
LEMMA Products ==
  /\ ProbesPerBatch \in Nat /\ ProbesPerBatch >= 1
  /\ ProbesPerBatch * 0 = 0
  /\ \A n \in Nat : /\ ProbesPerBatch * n \in Nat
                    /\ ProbesPerBatch * (n + 1) = ProbesPerBatch * n + ProbesPerBatch
  /\ \A m, n \in Nat : m <= n => ProbesPerBatch * m <= ProbesPerBatch * n
<1>1. ProbesPerBatch \in Nat /\ ProbesPerBatch >= 1
  BY BoundsAssumption DEF ProbesPerBatch
<1> HIDE DEF ProbesPerBatch
<1>2. \A n \in Nat : ProbesPerBatch * n \in Nat
  BY <1>1
<1>3. \A n \in Nat : ProbesPerBatch * (n + 1) = ProbesPerBatch * n + ProbesPerBatch
  BY <1>1
<1>4. ProbesPerBatch * 0 = 0
  BY <1>1
<1>5. ASSUME NEW m \in Nat, NEW n \in Nat, m <= n
      PROVE  ProbesPerBatch * m <= ProbesPerBatch * n
  <2>1. PICK k \in Nat : n = m + k
    BY <1>5
  <2>2. ProbesPerBatch * n = ProbesPerBatch * m + ProbesPerBatch * k
    BY <1>1, <2>1
  <2>3. QED BY <1>2, <2>2
<1>6. QED BY <1>1, <1>2, <1>3, <1>4, <1>5

-----------------------------------------------------------------------------
(* The Boolean variables of TypeOK and the rest of it: the provers take them
   apart. *)
BoolOK ==
    /\ pointerActive \in BOOLEAN /\ signal \in BOOLEAN /\ probing \in BOOLEAN
    /\ covered \in BOOLEAN /\ edgeActive \in BOOLEAN

DataOK ==
    /\ armed \subseteq Path
    /\ pending \in [attempt : 0 .. RetryDelays, due : BOOLEAN, on : BOOLEAN]
    /\ generation \in Nat
    /\ consumed \in Nat \cup {-1}
    /\ batches \in 0 .. MaxBatches
    /\ forced \in RP!OptPlans
    /\ readerPc \in ReaderPcs
    /\ plan \in RP!Plans
    /\ matched \subseteq Path /\ todo \subseteq matched /\ known \subseteq Path
    /\ pointerPc \in {"idle", "schedule", "send"}
    /\ requesterPc \in {"idle", "collect", "arm", "request", "send"}
    /\ job \in Jobs \cup {"none"} /\ eligible \subseteq Path
    /\ requesterPc \in {"collect", "arm"} => job \in {"wake", "wakeWithUnlock", "unlock"}
    /\ requesterPc = "request" => job \in {"hotplug", "wake", "unlock"}
    /\ edges \in Nat /\ probes \in Nat /\ episodeProbes \in Nat

LEMMA TypeParts == TypeOK <=> BoolOK /\ DataOK
  BY DEF TypeOK, BoolOK, DataOK

(* The plans that the pure functions return. *)
LEMMA PlanTypes ==
  /\ \A p \in RP!OptPlans, q \in RP!Plans : RP!Merge(p, q) \in RP!Plans
  /\ \A i \in {RP!NoPlan, "Full"}, f \in RP!OptPlans, c, o, d, b, m \in BOOLEAN :
        RP!ChooseReadPlan(c, i, f, o, d, b, m) \in RP!Plans
  BY DEF RP!Merge, RP!Stronger, RP!OptPlans, RP!Plans, RP!NoPlan, RP!ChooseReadPlan,
         RP!SelectReadPlan

(* The initial state is well typed and has spent nothing. *)
LEMMA InitIInv == Init => IInv
<1> SUFFICES ASSUME Init PROVE IInv
  OBVIOUS
<1>1. BoolOK
  BY Zenon DEF Init, BoolOK
<1>2. DataOK
  BY BoundsAssumption
  DEF Init, DataOK, NoBatch, Jobs, ReaderPcs, RP!NoPlan, RP!OptPlans, RP!Plans
<1>3. ProbingInPass /\ ConsumedInPast /\ PendingImpliesArmed
  BY DEF Init, ProbingInPass, ConsumedInPast, PendingImpliesArmed, NoBatch
<1>4. Remaining = 0 /\ Credit = 0
  BY DEF Init, Remaining, Credit, NoBatch
<1>5. EdgeBudget /\ EpisodeBudget
  BY <1>4, Products DEF Init, EdgeBudget, EpisodeBudget, EdgeCap, BatchCap
<1>6. QED BY <1>1, <1>2, <1>3, <1>5, TypeParts DEF IInv

(* No step of any thread leaves the types: the Boolean variables. *)
LEMMA BoolStep == BoolOK /\ DataOK /\ [Next]_vars => BoolOK'
<1> SUFFICES ASSUME BoolOK, DataOK, [Next]_vars PROVE BoolOK'
  OBVIOUS
<1> USE DEF BoolOK, recovery, reader, pointer, requester, history
<1>0. pending.on \in BOOLEAN
  BY DEF DataOK
<1>1. CASE StartPass
  <2>1. probing' = (pending.on /\ pending.due)
    BY <1>1, Zenon DEF StartPass
  <2>2. probing' \in BOOLEAN
    BY <2>1, Zenon
  <2>3. QED BY <1>1, <2>2, Zenon DEF StartPass
<1>2. CASE StartWait
  BY <1>0, <1>2, Zenon DEF StartWait
<1>3. CASE \/ \E p \in Path : \/ \E contract \in BOOLEAN : VisitPresent(p, contract)
                            \/ VisitMissing(p)
           \/ RequestFullAfterRecovery \/ ReaderSchedule
           \/ Clear \/ Publish \/ FinishProbe \/ WakeUp
  BY <1>3, Zenon DEF VisitPresent, DisarmTo, RequestFullAfterRecovery,
      VisitMissing, Arm, ReaderSchedule, Schedule, Clear, Publish, FinishProbe, WakeUp
<1>4. CASE Pointer
  BY <1>4, Zenon DEF Pointer, PointerIdle, PointerMoves, PointerSchedule, Schedule,
      PointerSend
<1>5. CASE Requester
  BY <1>5, Zenon DEF Requester, ResetEpisode, CollectAfterWake, ArmAfterWake,
     RequestPlan, SendSignal
<1>6. CASE ProbeDue
  BY <1>6, Zenon DEF ProbeDue
<1>7. CASE UNCHANGED vars
  BY <1>7, Zenon DEF vars
<1>8. QED
  BY <1>1, <1>2, <1>3, <1>4, <1>5, <1>6, <1>7, Zenon DEF Next, Reader

(* What try_schedule_wake_recovery writes when it starts a batch. *)
LEMMA ScheduleType ==
  DataOK /\ CanSchedule /\ Schedule
    => /\ pending' \in [attempt : 0 .. RetryDelays, due : BOOLEAN, on : BOOLEAN]
       /\ consumed' \in Nat
       /\ batches' \in 0 .. MaxBatches
       /\ UNCHANGED <<armed, generation>>
  BY BoundsAssumption DEF DataOK, CanSchedule, Schedule, Batch

(* What is left of the recovery state when paths are disarmed. *)
LEMMA DisarmType ==
  ASSUME DataOK, NEW left, left \subseteq Path, DisarmTo(left)
  PROVE  /\ armed' \subseteq Path /\ batches' \in 0 .. MaxBatches /\ episodeProbes' \in Nat
         /\ pending' \in [attempt : 0 .. RetryDelays, due : BOOLEAN, on : BOOLEAN]
<1>1. armed' \subseteq Path
  BY DEF DisarmTo
<1>2. CASE left = {}
  <2>1. batches' = 0 /\ episodeProbes' = 0 /\ pending' = NoBatch
    BY <1>2, Zenon DEF DisarmTo
  <2>2. NoBatch \in [attempt : 0 .. RetryDelays, due : BOOLEAN, on : BOOLEAN]
    BY BoundsAssumption DEF NoBatch
  <2>3. QED BY <1>1, <2>1, <2>2, BoundsAssumption
<1>3. CASE left # {}
  BY <1>1, <1>3 DEF DataOK, DisarmTo
<1>4. QED BY <1>2, <1>3

(* ... and the rest of the type invariant, one step per action. *)
LEMMA DataStep == BoolOK /\ DataOK /\ [Next]_vars => DataOK'
<1> SUFFICES ASSUME BoolOK, DataOK, [Next]_vars PROVE DataOK'
  OBVIOUS
<1> USE BoundsAssumption DEF recovery, reader, pointer, requester, history, NoBatch, Batch
<1>1. CASE StartPass
  <2>1. plan' \in RP!Plans
    <3>1. PICK i \in {RP!NoPlan, "Full"}, b \in BOOLEAN :
            plan' = RP!ChooseReadPlan(known # {}, i, forced, pending.on /\ pending.due,
                                      FALSE, b, b)
      BY <1>1, Zenon DEF StartPass
    <3>2. /\ (known # {}) \in BOOLEAN
          /\ (pending.on /\ pending.due) \in BOOLEAN
          /\ forced \in RP!OptPlans
      BY Zenon DEF DataOK
    <3>3. QED BY <3>1, <3>2, PlanTypes, Zenon
  <2>2. forced' \in RP!OptPlans
    BY <1>1 DEF StartPass, RP!OptPlans
  <2>3. matched' \subseteq Path /\ todo' \subseteq matched'
    BY <1>1 DEF StartPass, DataOK
  <2>4. probes' \in Nat /\ episodeProbes' \in Nat
    BY <1>1 DEF StartPass, DataOK
  <2>5. QED BY <1>1, <2>1, <2>2, <2>3, <2>4 DEF StartPass, DataOK, ReaderPcs
<1>2. CASE \E p \in Path : \/ \E contract \in BOOLEAN : VisitPresent(p, contract)
                         \/ VisitMissing(p)
  <2>1. ASSUME NEW p \in Path, NEW contract \in BOOLEAN, VisitPresent(p, contract)
        PROVE  DataOK'
    <3>1. /\ armed' \subseteq Path /\ batches' \in 0 .. MaxBatches /\ episodeProbes' \in Nat
          /\ pending' \in [attempt : 0 .. RetryDelays, due : BOOLEAN, on : BOOLEAN]
      <4>1. armed \ {p} \subseteq Path /\ DisarmTo(armed \ {p})
        BY <2>1 DEF VisitPresent, DataOK
      <4>2. QED BY <4>1, DisarmType
    <3>2. readerPc' \in ReaderPcs
      BY <2>1 DEF VisitPresent, DataOK, ReaderPcs
    <3>3. QED BY <2>1, <3>1, <3>2 DEF VisitPresent, DataOK
  <2>2. ASSUME NEW p \in Path, VisitMissing(p) PROVE DataOK'
    BY <2>2 DEF VisitMissing, Arm, DataOK, ReaderPcs
  <2>3. QED BY <1>2, <2>1, <2>2
<1>3. CASE RequestFullAfterRecovery
  <2>1. forced' \in RP!OptPlans
    BY <1>3, PlanTypes DEF RequestFullAfterRecovery, DataOK, RP!OptPlans, RP!Plans
  <2>2. QED BY <1>3, <2>1 DEF RequestFullAfterRecovery, DataOK, ReaderPcs
<1>4. CASE ReaderSchedule
  <2>1. CASE CanSchedule
    BY <1>4, <2>1, ScheduleType DEF ReaderSchedule, DataOK, ReaderPcs
  <2>2. CASE ~CanSchedule
    BY <1>4, <2>2 DEF ReaderSchedule, DataOK, ReaderPcs
  <2>3. QED BY <2>1, <2>2
<1>5. CASE Clear
  BY <1>5 DEF Clear, DataOK, ReaderPcs
<1>6. CASE Publish
  <2>1. /\ armed' \subseteq Path /\ batches' \in 0 .. MaxBatches /\ episodeProbes' \in Nat
        /\ pending' \in [attempt : 0 .. RetryDelays, due : BOOLEAN, on : BOOLEAN]
        /\ known' \subseteq Path
    <3>1. PICK entries \in SUBSET matched :
            IF entries = {}
            THEN UNCHANGED <<armed, pending, batches, episodeProbes, known>>
            ELSE DisarmTo(armed \cap entries) /\ known' = entries
      BY <1>6 DEF Publish
    <3>2. CASE entries = {}
      BY <3>1, <3>2 DEF DataOK
    <3>3. CASE entries # {}
      <4>1. armed \cap entries \subseteq Path /\ DisarmTo(armed \cap entries)
        BY <3>1, <3>3 DEF DataOK
      <4>2. known' \subseteq Path
        BY <3>1, <3>3 DEF DataOK
      <4>3. QED BY <4>1, <4>2, DisarmType
    <3>4. QED BY <3>2, <3>3
  <2>2. matched' = {} /\ todo' = {}
    BY <1>6 DEF Publish
  <2>3. QED BY <1>6, <2>1, <2>2 DEF Publish, DataOK, ReaderPcs
<1>7. CASE FinishProbe
  BY <1>7 DEF FinishProbe, DataOK, ReaderPcs, RP!Plans
<1>8. CASE StartWait \/ WakeUp
  BY <1>8 DEF StartWait, WakeUp, DataOK, ReaderPcs
<1>9. CASE Pointer
  <2>1. CASE PointerIdle \/ PointerSend
    BY <2>1 DEF PointerIdle, PointerSend, DataOK
  <2>2. CASE PointerMoves
    <3>1. generation' \in Nat /\ edges' \in Nat /\ consumed' \in Nat \cup {-1}
      BY <2>2 DEF PointerMoves, DataOK
    <3>2. pointerPc' \in {"idle", "schedule", "send"}
      BY <2>2 DEF PointerMoves, DataOK
    <3>3. QED BY <2>2, <3>1, <3>2 DEF PointerMoves, DataOK
  <2>3. CASE PointerSchedule /\ CanSchedule
    BY <2>3, ScheduleType DEF PointerSchedule, DataOK
  <2>4. CASE PointerSchedule /\ ~CanSchedule
    BY <2>4 DEF PointerSchedule, DataOK
  <2>5. QED BY <1>9, <2>1, <2>2, <2>3, <2>4 DEF Pointer
<1>10. CASE \E j \in Jobs : ResetEpisode(j)
  BY <1>10 DEF ResetEpisode, DataOK
<1>11. CASE CollectAfterWake \/ ArmAfterWake
  BY <1>11 DEF CollectAfterWake, ArmAfterWake, DataOK
<1>12. CASE \E j \in Jobs : RequestPlan(j)
  <2>1. PICK j \in Jobs : RequestPlan(j)
    BY <1>12
  <2>2. RequestOf[j] \in RP!Plans
    BY <2>1 DEF RequestPlan, RequestOf, DataOK, RP!Plans
  <2>3. forced' \in RP!OptPlans
    BY <2>1, <2>2, PlanTypes DEF RequestPlan, DataOK, RP!OptPlans
  <2>4. QED BY <2>1, <2>3 DEF RequestPlan, DataOK
<1>13. CASE SendSignal \/ ProbeDue
  BY <1>13 DEF SendSignal, ProbeDue, DataOK
<1>14. CASE UNCHANGED vars
  BY <1>14 DEF vars, DataOK
<1>15. QED
  BY <1>1, <1>2, <1>3, <1>4, <1>5, <1>6, <1>7, <1>8, <1>9, <1>10, <1>11, <1>12, <1>13,
     <1>14, Zenon DEF Next, Reader, Requester
-----------------------------------------------------------------------------
(* The five conjuncts that follow the types. *)
Budgets == ProbingInPass /\ ConsumedInPast /\ PendingImpliesArmed /\ EdgeBudget /\ EpisodeBudget

(* The numbers of the budgets: the two caps are naturals that move with their
   counters, and what is left of a batch lies between nothing and all of it. *)
LEMMA Numbers ==
  ASSUME TypeOK
  PROVE  /\ ProbesPerBatch \in Nat /\ ProbesPerBatch >= 1
         /\ EdgeCap \in Nat /\ BatchCap \in Nat
         /\ probes \in Nat /\ episodeProbes \in Nat /\ batches \in Nat /\ edges \in Nat
         /\ generation \in Nat /\ consumed \in Nat \cup {-1}
         /\ Remaining \in Nat /\ Remaining <= ProbesPerBatch
         /\ Credit \in {0, ProbesPerBatch}
<1>1. /\ probes \in Nat /\ episodeProbes \in Nat /\ batches \in Nat /\ edges \in Nat
      /\ generation \in Nat /\ consumed \in Nat \cup {-1}
  BY BoundsAssumption DEF TypeOK
<1>2. EdgeCap \in Nat /\ BatchCap \in Nat
  BY <1>1, Products DEF EdgeCap, BatchCap
<1>3. Remaining \in Nat /\ Remaining <= ProbesPerBatch
  <2>1. pending.attempt \in 0 .. RetryDelays /\ RetryDelays \in Nat
    BY BoundsAssumption DEF TypeOK
  <2>2. QED BY <2>1 DEF Remaining, ProbesPerBatch
<1>4. Credit \in {0, ProbesPerBatch}
  BY DEF Credit
<1>5. QED BY <1>1, <1>2, <1>3, <1>4, Products

(* ... and how the caps move. *)
LEMMA CapSteps ==
  ASSUME TypeOK
  PROVE  /\ edges' = edges => EdgeCap' = EdgeCap
         /\ edges' = edges + 1 => EdgeCap' = EdgeCap + ProbesPerBatch
         /\ batches' = batches => BatchCap' = BatchCap
         /\ batches' = batches + 1 => BatchCap' = BatchCap + ProbesPerBatch
         /\ batches' = 0 => BatchCap' = 0
<1>1. edges \in Nat /\ batches \in Nat
  BY Numbers
<1>2. QED BY <1>1, Products DEF EdgeCap, BatchCap

(* Steps that leave the budgets' variables alone keep the budgets. *)
LEMMA FrameBudgets ==
  ASSUME IInv, UNCHANGED <<armed, pending, pointerActive, generation, consumed, batches,
                           probing, edges, probes, episodeProbes>>,
         ProbingInPass'
  PROVE  Budgets'
<1>1. Remaining' = Remaining /\ Credit' = Credit
  BY DEF Remaining, Credit
<1>2. EdgeCap' = EdgeCap /\ BatchCap' = BatchCap
  BY DEF EdgeCap, BatchCap
<1>3. QED BY <1>1, <1>2
          DEF IInv, Budgets, ConsumedInPast, PendingImpliesArmed, EdgeBudget, EpisodeBudget

(* Scheduling a batch turns an edge's credit into the batch's probes. *)
LEMMA ScheduleBudgets ==
  ASSUME IInv, CanSchedule, Schedule, ProbingInPass',
         UNCHANGED <<probing, edges, probes, episodeProbes>>
  PROVE  Budgets'
<1>1. Remaining = 0 /\ Credit = ProbesPerBatch
  BY DEF CanSchedule, Remaining, Credit
<1>2. Credit' = 0
  BY DEF Schedule, Credit
<1>3. TypeOK
  BY DEF IInv
<1>4. Remaining' \in Nat /\ Remaining' <= ProbesPerBatch
  <2>1. pending' = Batch(0, FALSE)
    BY DEF Schedule
  <2>2. Remaining' = ProbesPerBatch - 0 - (IF probing' THEN 1 ELSE 0)
    BY <2>1, Zenon DEF Remaining, Batch
  <2>3. QED BY <1>3, <2>2, Numbers
<1>5. EdgeCap' = EdgeCap /\ BatchCap' = BatchCap + ProbesPerBatch
  BY <1>3, CapSteps DEF Schedule
<1>6. ConsumedInPast'
  BY <1>3, Numbers DEF Schedule, ConsumedInPast
<1>7. PendingImpliesArmed'
  BY DEF CanSchedule, Schedule, PendingImpliesArmed
<1>8. EdgeBudget'
  BY <1>1, <1>2, <1>3, <1>4, <1>5, Numbers DEF IInv, EdgeBudget
<1>9. EpisodeBudget'
  BY <1>1, <1>3, <1>4, <1>5, Numbers DEF IInv, EpisodeBudget
<1>10. QED BY <1>6, <1>7, <1>8, <1>9 DEF Budgets

(* Dropping the batch and its episode spends nothing. *)
LEMMA ForgetBudgets ==
  ASSUME IInv, pending' = NoBatch, batches' = 0, episodeProbes' = 0,
         ConsumedInPast', ProbingInPass', Credit' = Credit \/ Credit' = 0,
         UNCHANGED <<edges, probes>>
  PROVE  Budgets'
<1>1. TypeOK
  BY DEF IInv
<1>2. Remaining' = 0 /\ PendingImpliesArmed'
  BY DEF Remaining, PendingImpliesArmed, NoBatch
<1>3. EdgeCap' = EdgeCap /\ BatchCap' = 0
  BY <1>1, CapSteps
<1>4. EdgeBudget'
  BY <1>1, <1>2, <1>3, Numbers DEF IInv, EdgeBudget
<1>5. EpisodeBudget'
  BY <1>2, <1>3 DEF EpisodeBudget
<1>6. QED BY <1>2, <1>4, <1>5 DEF Budgets

(* Disarming spends nothing: the batch stays, or goes with its episode. *)
LEMMA DisarmBudgets ==
  ASSUME IInv, NEW left, DisarmTo(left), ProbingInPass',
         UNCHANGED <<pointerActive, generation, consumed, probing, edges, probes>>
  PROVE  Budgets'
<1>0. Credit' = Credit /\ ConsumedInPast'
  BY DEF Credit, IInv, ConsumedInPast
<1>1. CASE left = {}
  <2>1. batches' = 0 /\ episodeProbes' = 0 /\ pending' = NoBatch
    BY <1>1, Zenon DEF DisarmTo
  <2>2. QED BY <1>0, <2>1, ForgetBudgets
<1>2. CASE left # {}
  <2>1. armed' = left /\ UNCHANGED <<pending, batches, episodeProbes>>
    BY <1>2, Zenon DEF DisarmTo
  <2>2. Remaining' = Remaining /\ EdgeCap' = EdgeCap /\ BatchCap' = BatchCap
    BY <2>1 DEF Remaining, EdgeCap, BatchCap
  <2>3. QED BY <1>0, <1>2, <2>1, <2>2
            DEF Budgets, EdgeBudget, EpisodeBudget, PendingImpliesArmed, IInv
<1>3. QED BY <1>1, <1>2

(* Steps that only arm paths. *)
LEMMA ArmBudgets ==
  ASSUME IInv, armed \subseteq armed', ProbingInPass',
         UNCHANGED <<pending, pointerActive, generation, consumed, batches, probing,
                     edges, probes, episodeProbes>>
  PROVE  Budgets'
<1>1. Remaining' = Remaining /\ Credit' = Credit
  BY DEF Remaining, Credit
<1>2. EdgeCap' = EdgeCap /\ BatchCap' = BatchCap
  BY DEF EdgeCap, BatchCap
<1>3. PendingImpliesArmed'
  BY DEF IInv, PendingImpliesArmed
<1>4. QED BY <1>1, <1>2, <1>3 DEF IInv, Budgets, ConsumedInPast, EdgeBudget, EpisodeBudget

-----------------------------------------------------------------------------
(* A pass starts: a due batch pays for its next probe. *)
LEMMA StartPassBudgets == IInv /\ StartPass => Budgets'
<1> SUFFICES ASSUME IInv, StartPass PROVE Budgets'
  OBVIOUS
<1>1. TypeOK /\ ~probing
  BY Zenon DEF IInv, StartPass, ProbingInPass
<1>2. UNCHANGED <<armed, pending, pointerActive, generation, consumed, batches, edges>>
  BY Zenon DEF StartPass, recovery
<1>3. ProbingInPass'
  BY DEF StartPass, ProbingInPass
<1>4. Credit' = Credit /\ EdgeCap' = EdgeCap /\ BatchCap' = BatchCap
  BY <1>2 DEF Credit, EdgeCap, BatchCap
<1>5. probes' + Remaining' = probes + Remaining
      /\ episodeProbes' + Remaining' = episodeProbes + Remaining
  <2>1. CASE pending.on /\ pending.due
    <3>1. probes' = probes + 1 /\ episodeProbes' = episodeProbes + 1 /\ probing'
      BY <2>1, Zenon DEF StartPass
    <3>2. Remaining = ProbesPerBatch - pending.attempt
      BY <1>1, <2>1, Numbers DEF Remaining, TypeOK
    <3>3. Remaining' = ProbesPerBatch - pending.attempt - 1
      BY <1>2, <2>1, <3>1 DEF Remaining
    <3>4. pending.attempt \in Int
      BY <1>1, BoundsAssumption DEF TypeOK
    <3>5. QED BY <1>1, <3>1, <3>2, <3>3, <3>4, Numbers
  <2>2. CASE ~(pending.on /\ pending.due)
    <3>1. probes' = probes /\ episodeProbes' = episodeProbes /\ ~probing'
      BY <2>2, Zenon DEF StartPass
    <3>2. Remaining' = Remaining
      BY <1>1, <1>2, <3>1 DEF Remaining
    <3>3. QED BY <3>1, <3>2
  <2>3. QED BY <2>1, <2>2
<1>6. probes' \in Nat /\ episodeProbes' \in Nat /\ Remaining' \in Int
  <2>1. probes' \in Nat /\ episodeProbes' \in Nat
    BY <1>1, Numbers DEF StartPass
  <2>2. pending'.attempt \in Int
    BY <1>1, <1>2, BoundsAssumption DEF TypeOK
  <2>3. QED BY <1>1, <2>1, <2>2, Numbers DEF Remaining
<1>7. EdgeBudget'
  BY <1>1, <1>4, <1>5, <1>6, Numbers DEF IInv, EdgeBudget
<1>8. EpisodeBudget'
  BY <1>1, <1>4, <1>5, <1>6, Numbers DEF IInv, EpisodeBudget
<1>9. ConsumedInPast' /\ PendingImpliesArmed'
  BY <1>2 DEF IInv, ConsumedInPast, PendingImpliesArmed
<1>10. QED BY <1>3, <1>7, <1>8, <1>9 DEF Budgets

(* A pass ends: its probe is settled, and the batch moves on or is dropped. *)
LEMMA FinishProbeBudgets == IInv /\ FinishProbe => Budgets'
<1> SUFFICES ASSUME IInv, FinishProbe PROVE Budgets'
  OBVIOUS
<1>1. TypeOK
  BY DEF IInv
<1>2. /\ UNCHANGED <<armed, pointerActive, generation, consumed, batches, edges, probes,
                     episodeProbes>>
      /\ ~probing'
  BY Zenon DEF FinishProbe, history
<1>3. ProbingInPass'
  BY <1>2 DEF ProbingInPass
<1>4. Credit' = Credit /\ EdgeCap' = EdgeCap /\ BatchCap' = BatchCap
  BY <1>2 DEF Credit, EdgeCap, BatchCap
<1>5. Remaining' \in Int /\ Remaining' <= Remaining /\ PendingImpliesArmed'
  <2>0. pending.attempt \in 0 .. RetryDelays /\ RetryDelays \in Nat
    BY <1>1, BoundsAssumption DEF TypeOK
  <2>1. CASE ~probing \/ ~pending.on
    <3>1. pending' = pending
      BY <2>1, Zenon DEF FinishProbe
    <3>2. Remaining' = Remaining
      BY <1>2, <2>0, <2>1, <3>1 DEF Remaining, ProbesPerBatch
    <3>3. QED BY <1>1, <1>2, <3>1, <3>2, Numbers DEF IInv, PendingImpliesArmed
  <2>2. CASE probing /\ pending.on /\ (armed = {} \/ pending.attempt = RetryDelays)
    <3>1. pending' = NoBatch
      BY <2>2, Zenon DEF FinishProbe
    <3>2. Remaining' = 0 /\ PendingImpliesArmed'
      BY <3>1 DEF Remaining, NoBatch, PendingImpliesArmed
    <3>3. QED BY <1>1, <3>2, Numbers
  <2>3. CASE probing /\ pending.on /\ ~(armed = {} \/ pending.attempt = RetryDelays)
    <3>1. pending' = Batch(pending.attempt + 1, FALSE)
      BY <2>3, Zenon DEF FinishProbe
    <3>2. pending'.attempt = pending.attempt + 1 /\ pending'.on
      BY <3>1 DEF Batch
    <3>3. Remaining = ProbesPerBatch - pending.attempt - 1
      BY <2>3 DEF Remaining
    <3>4. Remaining' = ProbesPerBatch - (pending.attempt + 1) - 0
      BY <1>2, <3>2 DEF Remaining
    <3>5. PendingImpliesArmed'
      BY <1>2, <2>3 DEF PendingImpliesArmed
    <3>6. QED BY <1>1, <2>0, <3>3, <3>4, <3>5, Numbers
  <2>4. QED BY <2>1, <2>2, <2>3
<1>6. EdgeBudget'
  BY <1>1, <1>2, <1>4, <1>5, Numbers DEF IInv, EdgeBudget
<1>7. EpisodeBudget'
  BY <1>1, <1>2, <1>4, <1>5, Numbers DEF IInv, EpisodeBudget
<1>8. ConsumedInPast'
  BY <1>2 DEF IInv, ConsumedInPast
<1>9. QED BY <1>3, <1>5, <1>6, <1>7, <1>8 DEF Budgets

(* A real edge opens a new generation, which no batch has consumed, and raises
   the cap by the probes it can buy; a repeated one changes neither. *)
LEMMA PointerMovesBudgets == IInv /\ PointerMoves => Budgets'
<1> SUFFICES ASSUME IInv, PointerMoves PROVE Budgets'
  OBVIOUS
<1>1. TypeOK
  BY DEF IInv
<1>2. UNCHANGED <<armed, pending, batches, readerPc, probing, probes, episodeProbes>>
  BY Zenon DEF PointerMoves, reader
<1>3. ProbingInPass' /\ PendingImpliesArmed' /\ Remaining' = Remaining /\ BatchCap' = BatchCap
  BY <1>2 DEF IInv, ProbingInPass, PendingImpliesArmed, Remaining, BatchCap
<1>4. EpisodeBudget'
  BY <1>2, <1>3 DEF IInv, EpisodeBudget
<1>5. CASE pointerActive
  <2>1. edges' = edges /\ generation' = generation /\ pointerActive'
    BY <1>5, Zenon DEF PointerMoves
  <2>2. consumed' = consumed \/ consumed' = generation
    BY <2>1, Zenon DEF PointerMoves
  <2>3. EdgeCap' = EdgeCap
    BY <1>1, <2>1, CapSteps
  <2>4. Credit' = Credit \/ Credit' = 0
    BY <1>5, <2>1, <2>2 DEF Credit
  <2>5. EdgeBudget'
    BY <1>1, <1>2, <1>3, <2>3, <2>4, Numbers DEF IInv, EdgeBudget
  <2>6. ConsumedInPast'
    BY <1>1, <2>1, <2>2, Numbers DEF IInv, ConsumedInPast
  <2>7. QED BY <1>3, <1>4, <2>5, <2>6 DEF Budgets
<1>6. CASE ~pointerActive
  <2>1. edges' = edges + 1 /\ generation' = generation + 1
    BY <1>6, Zenon DEF PointerMoves
  <2>2. consumed' = consumed \/ consumed' = generation'
    BY Zenon DEF PointerMoves
  <2>3. EdgeCap' = EdgeCap + ProbesPerBatch
    BY <1>1, <2>1, CapSteps
  <2>4. Credit = 0 /\ Credit' \in {0, ProbesPerBatch}
    BY <1>6 DEF Credit
  <2>5. EdgeBudget'
    BY <1>1, <1>2, <1>3, <2>3, <2>4, Numbers DEF IInv, EdgeBudget
  <2>6. ConsumedInPast'
    BY <1>1, <2>1, <2>2, Numbers DEF IInv, ConsumedInPast
  <2>7. QED BY <1>3, <1>4, <2>5, <2>6 DEF Budgets
<1>7. QED BY <1>5, <1>6

(* The reader's other steps. *)
LEMMA ReaderBudgets == IInv /\ Reader => Budgets'
<1> SUFFICES ASSUME IInv, Reader PROVE Budgets'
  OBVIOUS
<1> USE DEF recovery, reader, history
<1>1. CASE StartPass
  BY <1>1, StartPassBudgets
<1>2. CASE FinishProbe
  BY <1>2, FinishProbeBudgets
<1>3. ASSUME NEW p \in Path, NEW contract \in BOOLEAN, VisitPresent(p, contract)
      PROVE  Budgets'
  <2>1. ProbingInPass'
    BY <1>3, Zenon DEF VisitPresent, ProbingInPass
  <2>2. UNCHANGED <<pointerActive, generation, consumed, probing, edges, probes>>
        /\ DisarmTo(armed \ {p})
    BY <1>3, Zenon DEF VisitPresent
  <2>3. QED BY <2>1, <2>2, DisarmBudgets
<1>4. ASSUME NEW p \in Path, VisitMissing(p)
      PROVE  Budgets'
  <2>1. ProbingInPass'
    BY <1>4 DEF VisitMissing, ProbingInPass
  <2>2. /\ UNCHANGED <<pointerActive, generation, consumed, probing, edges, probes, pending>>
        /\ Arm(p)
    BY <1>4, Zenon DEF VisitMissing
  <2>3. CASE armed # {}
    <3>1. armed \subseteq armed' /\ UNCHANGED <<batches, episodeProbes>>
      BY <2>2, <2>3 DEF Arm
    <3>2. QED BY <2>1, <2>2, <3>1, ArmBudgets
  <2>4. CASE armed = {}
    <3>1. batches' = 0 /\ episodeProbes' = 0
      BY <2>2, <2>4, Zenon DEF Arm
    <3>2. ~pending.on
      BY <2>4 DEF IInv, PendingImpliesArmed
    <3>3. Remaining = 0 /\ Remaining' = 0 /\ Credit' = Credit
      BY <2>2, <3>2 DEF Remaining, Credit
    <3>4. TypeOK
      BY DEF IInv
    <3>5. EdgeCap' = EdgeCap /\ BatchCap' = 0
      BY <2>2, <3>1, <3>4, CapSteps
    <3>6. EdgeBudget' /\ EpisodeBudget'
      BY <2>2, <3>1, <3>3, <3>5 DEF IInv, EdgeBudget, EpisodeBudget
    <3>7. ConsumedInPast' /\ PendingImpliesArmed'
      BY <2>2, <3>2 DEF IInv, ConsumedInPast, PendingImpliesArmed
    <3>8. QED BY <2>1, <3>6, <3>7 DEF Budgets
  <2>5. QED BY <2>3, <2>4
<1>5. CASE RequestFullAfterRecovery \/ StartWait \/ WakeUp
  <2>1. UNCHANGED <<armed, pending, pointerActive, generation, consumed, batches,
                    probing, edges, probes, episodeProbes>>
    BY <1>5, Zenon DEF RequestFullAfterRecovery, StartWait, WakeUp
  <2>2. ProbingInPass'
    BY <1>5 DEF RequestFullAfterRecovery, StartWait, WakeUp, IInv, ProbingInPass
  <2>3. QED BY <2>1, <2>2, FrameBudgets
<1>6. CASE ReaderSchedule
  <2>1. ProbingInPass' /\ UNCHANGED <<probing, edges, probes, episodeProbes>>
    BY <1>6 DEF ReaderSchedule, ProbingInPass
  <2>2. CASE CanSchedule
    BY <1>6, <2>1, <2>2, ScheduleBudgets DEF ReaderSchedule
  <2>3. CASE ~CanSchedule
    BY <1>6, <2>1, <2>3, FrameBudgets DEF ReaderSchedule
  <2>4. QED BY <2>2, <2>3
<1>7. CASE Clear
  <2>1. ProbingInPass' /\ ConsumedInPast' /\ Credit' = 0
    BY <1>7 DEF Clear, ProbingInPass, ConsumedInPast, Credit
  <2>2. QED BY <1>7, <2>1, ForgetBudgets DEF Clear
<1>8. CASE Publish
  <2>1. ProbingInPass' /\ UNCHANGED <<pointerActive, generation, consumed, probing, edges, probes>>
    BY <1>8 DEF Publish, ProbingInPass
  <2>2. PICK entries \in SUBSET matched :
          IF entries = {}
          THEN UNCHANGED <<armed, pending, batches, episodeProbes, known>>
          ELSE DisarmTo(armed \cap entries) /\ known' = entries
    BY <1>8 DEF Publish
  <2>3. CASE entries = {}
    BY <2>1, <2>2, <2>3, FrameBudgets
  <2>4. CASE entries # {}
    BY <2>1, <2>2, <2>4, DisarmBudgets
  <2>5. QED BY <2>3, <2>4
<1>9. QED
  BY <1>1, <1>2, <1>3, <1>4, <1>5, <1>6, <1>7, <1>8, Zenon DEF Reader

(* The watcher's steps. *)
LEMMA PointerBudgets == IInv /\ Pointer => Budgets'
<1> SUFFICES ASSUME IInv, Pointer PROVE Budgets'
  OBVIOUS
<1> USE DEF recovery, reader, history
<1>0. ASSUME readerPc' = readerPc, probing' = probing PROVE ProbingInPass'
  BY <1>0 DEF IInv, ProbingInPass
<1>1. CASE PointerMoves
  BY <1>1, PointerMovesBudgets
<1>2. CASE PointerIdle
  <2>1. UNCHANGED <<armed, pending, generation, consumed, batches, readerPc, probing,
                    edges, probes, episodeProbes>> /\ ~pointerActive'
    BY <1>2, Zenon DEF PointerIdle
  <2>2. /\ Remaining' = Remaining /\ Credit' = 0 /\ EdgeCap' = EdgeCap
        /\ BatchCap' = BatchCap
    BY <2>1 DEF Remaining, Credit, EdgeCap, BatchCap
  <2>3. TypeOK
    BY DEF IInv
  <2>4. EdgeBudget'
    BY <2>1, <2>2, <2>3, Numbers DEF IInv, EdgeBudget
  <2>5. EpisodeBudget'
    BY <2>1, <2>2 DEF IInv, EpisodeBudget
  <2>6. ConsumedInPast' /\ PendingImpliesArmed'
    BY <2>1 DEF IInv, ConsumedInPast, PendingImpliesArmed
  <2>7. QED BY <1>0, <2>1, <2>4, <2>5, <2>6 DEF Budgets
<1>3. CASE PointerSchedule /\ CanSchedule
  BY <1>0, <1>3, ScheduleBudgets DEF PointerSchedule
<1>4. CASE PointerSchedule /\ ~CanSchedule
  BY <1>0, <1>4, FrameBudgets DEF PointerSchedule
<1>5. CASE PointerSend
  BY <1>0, <1>5, FrameBudgets DEF PointerSend
<1>6. QED BY <1>1, <1>2, <1>3, <1>4, <1>5 DEF Pointer

(* The requester's steps and the clock's. *)
LEMMA RequesterBudgets == IInv /\ (Requester \/ ProbeDue) => Budgets'
<1> SUFFICES ASSUME IInv, Requester \/ ProbeDue PROVE Budgets'
  OBVIOUS
<1> USE DEF recovery, reader, pointer, history
<1>0. ASSUME readerPc' = readerPc, probing' = probing PROVE ProbingInPass'
  BY <1>0 DEF IInv, ProbingInPass
<1>1. ASSUME NEW j \in Jobs, ResetEpisode(j) PROVE Budgets'
  <2>1. ConsumedInPast' /\ Credit' = 0
    BY <1>1 DEF ResetEpisode, ConsumedInPast, Credit, IInv
  <2>2. QED BY <1>0, <1>1, <2>1, ForgetBudgets DEF ResetEpisode
<1>2. CASE ArmAfterWake
  BY <1>0, <1>2, ArmBudgets DEF ArmAfterWake
<1>3. ASSUME NEW j \in Jobs, RequestPlan(j) PROVE Budgets'
  BY <1>0, <1>3, FrameBudgets DEF RequestPlan
<1>4. CASE SendSignal
  BY <1>0, <1>4, FrameBudgets DEF SendSignal
<1>5. CASE ProbeDue
  <2>1. /\ pending'.on = pending.on /\ pending'.attempt = pending.attempt
        /\ UNCHANGED <<armed, pointerActive, generation, consumed, batches, readerPc,
                       probing, edges, probes, episodeProbes>>
    BY <1>5 DEF ProbeDue, IInv, TypeOK
  <2>2. Remaining' = Remaining /\ Credit' = Credit
    BY <2>1 DEF Remaining, Credit
  <2>3. EdgeCap' = EdgeCap /\ BatchCap' = BatchCap
    BY <2>1 DEF EdgeCap, BatchCap
  <2>4. QED BY <1>0, <2>1, <2>2, <2>3
            DEF IInv, Budgets, ConsumedInPast, PendingImpliesArmed, EdgeBudget, EpisodeBudget
<1>6. CASE CollectAfterWake
  BY <1>0, <1>6, FrameBudgets DEF CollectAfterWake
<1>7. QED BY <1>1, <1>2, <1>3, <1>4, <1>5, <1>6 DEF Requester

(* The inductive step. *)
LEMMA IInvStep == IInv /\ [Next]_vars => IInv'
<1> SUFFICES ASSUME IInv, [Next]_vars PROVE IInv'
  OBVIOUS
<1>1. TypeOK'
  <2>1. BoolOK /\ DataOK
    BY TypeParts DEF IInv
  <2>2. BoolOK' /\ DataOK'
    BY <2>1, BoolStep, DataStep
  <2>3. QED BY <2>2 DEF TypeOK, BoolOK, DataOK
<1>2. Budgets'
  <2>1. CASE UNCHANGED vars
    <3>1. ProbingInPass'
      BY <2>1 DEF IInv, ProbingInPass, vars, reader
    <3>2. QED BY <2>1, <3>1, FrameBudgets DEF vars, recovery, reader, history
  <2>2. QED BY <2>1, ReaderBudgets, PointerBudgets, RequesterBudgets DEF Next
<1>3. QED BY <1>1, <1>2 DEF IInv, Budgets

(* The strengthened invariant holds in every reachable state. *)
THEOREM Inductive == Spec => []IInv
BY InitIInv, IInvStep, PTL DEF Spec

(* Every variable keeps its type; in particular a batch never passes the end
   of the table of delays and the count of batches stays within its cap. *)
THEOREM TypeCorrect == Spec => []TypeOK
<1>1. IInv => TypeOK
  BY DEF IInv
<1>2. QED BY <1>1, Inductive, PTL

(* A pending batch always has a path that is still missing its component. *)
THEOREM BatchHasReason == Spec => []PendingImpliesArmed
<1>1. IInv => PendingImpliesArmed
  BY DEF IInv
<1>2. QED BY <1>1, Inductive, PTL

(* At most RetryDelays + 1 probe passes for every idle -> active edge of the
   pointer, whatever the other events do to the recovery state, and at most
   MaxBatches batches' worth of them in an episode, however many edges arrive. *)
THEOREM ProbesAreBounded == Spec => []ProbesBounded
<1>1. IInv => ProbesBounded
  <2> SUFFICES ASSUME IInv PROVE ProbesBounded
    OBVIOUS
  <2>1. probes <= EdgeCap /\ episodeProbes <= BatchCap
    BY Numbers DEF IInv, EdgeBudget, EpisodeBudget
  <2>2. batches \in Nat /\ batches <= MaxBatches /\ MaxBatches \in Nat
    BY BoundsAssumption DEF IInv, TypeOK
  <2>3. BatchCap <= ProbesPerBatch * MaxBatches
    BY <2>2, Products DEF BatchCap
  <2>4. /\ BatchCap \in Nat /\ ProbesPerBatch * MaxBatches \in Nat
        /\ episodeProbes \in Nat
    BY <2>2, Numbers, Products DEF IInv
  <2>5. \A a, b, c \in Nat : a <= b /\ b <= c => a <= c
    OBVIOUS
  <2>6. episodeProbes <= ProbesPerBatch * MaxBatches
    BY <2>1, <2>3, <2>4, <2>5, Zenon
  <2>7. QED BY <2>1, <2>6, Zenon DEF ProbesBounded, EdgeCap
<1>2. QED BY <1>1, Inductive, PTL

-----------------------------------------------------------------------------
(* No lost wakeup.  A plan that arrives while a pass runs finds the reader
   elsewhere than in its wait: its signal stays queued until the reader drains
   it on its way to the top of the loop, where the plan is taken. *)
ProbeHeard ==
    readerPc = "waiting" /\ pending.on => covered \/ signal \/ pointerPc = "send"
RequestHeard == readerPc # "top" /\ forced # RP!NoPlan => signal \/ requesterPc = "send"

Awake == ProbeHeard /\ RequestHeard

LEMMA InitAwake == Init => Awake
BY DEF Init, Awake, ProbeHeard, RequestHeard

(* The reader's steps: the wait begins with the pending batch covered, and a
   drained signal leads to the top of the loop. *)
LEMMA ReaderAwake == Awake /\ Reader => Awake'
<1> SUFFICES ASSUME Awake, Reader PROVE Awake'
  OBVIOUS
<1> USE DEF Awake, ProbeHeard, RequestHeard, recovery, reader, pointer, requester
<1>1. CASE StartPass
  BY <1>1, Zenon DEF StartPass
<1>2. ASSUME NEW p \in Path, NEW contract \in BOOLEAN, VisitPresent(p, contract)
      PROVE  Awake'
  BY <1>2, Zenon DEF VisitPresent
<1>3. ASSUME NEW p \in Path, VisitMissing(p) PROVE Awake'
  BY <1>3, Zenon DEF VisitMissing
<1>4. CASE RequestFullAfterRecovery
  BY <1>4, Zenon DEF RequestFullAfterRecovery
<1>5. CASE ReaderSchedule
  BY <1>5, Zenon DEF ReaderSchedule
<1>6. CASE Clear \/ Publish \/ FinishProbe
  BY <1>6, Zenon DEF Clear, Publish, FinishProbe
<1>7. CASE StartWait
  BY <1>7, Zenon DEF StartWait
<1>8. CASE WakeUp
  BY <1>8, Zenon DEF WakeUp
<1>9. QED
  BY <1>1, <1>2, <1>3, <1>4, <1>5, <1>6, <1>7, <1>8, Zenon DEF Reader

(* The other threads: who schedules a batch or leaves a plan sends afterwards. *)
LEMMA OthersAwake == TypeOK /\ Awake /\ (Pointer \/ Requester \/ ProbeDue) => Awake'
<1> SUFFICES ASSUME TypeOK, Awake, Pointer \/ Requester \/ ProbeDue PROVE Awake'
  OBVIOUS
<1> USE DEF Awake, ProbeHeard, RequestHeard, recovery, reader, pointer, requester
<1>1. CASE PointerIdle
  BY <1>1, Zenon DEF PointerIdle
<1>2. CASE PointerMoves
  <2>1. pointerPc # "send"
    BY <1>2 DEF PointerMoves
  <2>2. QED BY <1>2, <2>1, Zenon DEF PointerMoves
<1>3. CASE PointerSchedule
  <2>1. pointerPc # "send"
    BY <1>3 DEF PointerSchedule
  <2>2. UNCHANGED <<readerPc, forced, signal, requesterPc>>
    BY <1>3, Zenon DEF PointerSchedule
  <2>3. CASE CanSchedule
    <3>1. pointerPc' = "send"
      BY <1>3, <2>3, Zenon DEF PointerSchedule
    <3>2. QED BY <2>2, <3>1, Zenon
  <2>4. CASE ~CanSchedule
    <3>1. UNCHANGED <<pending, covered>>
      BY <1>3, <2>4, Zenon DEF PointerSchedule
    <3>2. QED BY <2>1, <2>2, <3>1, Zenon
  <2>5. QED BY <2>3, <2>4
<1>4. CASE PointerSend
  BY <1>4, Zenon DEF PointerSend
<1>5. ASSUME NEW j \in Jobs, ResetEpisode(j) PROVE Awake'
  <2>1. requesterPc # "send" /\ ~pending'.on
    BY <1>5 DEF ResetEpisode, NoBatch
  <2>2. QED BY <1>5, <2>1, Zenon DEF ResetEpisode
<1>6. CASE CollectAfterWake \/ ArmAfterWake
  <2>1. requesterPc # "send"
    BY <1>6 DEF CollectAfterWake, ArmAfterWake
  <2>2. QED BY <1>6, <2>1, Zenon DEF CollectAfterWake, ArmAfterWake
<1>7. ASSUME NEW j \in Jobs, RequestPlan(j) PROVE Awake'
  BY <1>7, Zenon DEF RequestPlan
<1>8. CASE SendSignal
  BY <1>8, Zenon DEF SendSignal
<1>9. CASE ProbeDue
  <2>1. pending.on
    BY <1>9, Zenon DEF ProbeDue
  <2>2. QED BY <1>9, <2>1, Zenon DEF ProbeDue
<1>10. QED
  BY <1>1, <1>2, <1>3, <1>4, <1>5, <1>6, <1>7, <1>8, <1>9, Zenon DEF Pointer, Requester

LEMMA AwakeStep == TypeOK /\ Awake /\ [Next]_vars => Awake'
<1> SUFFICES ASSUME TypeOK, Awake, [Next]_vars PROVE Awake'
  OBVIOUS
<1>1. CASE UNCHANGED vars
  BY <1>1, Zenon
  DEF vars, recovery, reader, pointer, requester, Awake, ProbeHeard, RequestHeard
<1>2. QED BY <1>1, ReaderAwake, OthersAwake, Zenon DEF Next

THEOREM NobodySleeps == Spec => []Awake
BY TypeCorrect, InitAwake, AwakeStep, PTL DEF Spec

(* Nothing is slept over: while the reader waits, a pending probe's due time
   ends the wait or a signal is queued or about to be, and a plan that is in
   place has its signal queued or its sender between the slot and the channel. *)
THEOREM WakeupsAreHeard == Spec => []NoLostWakeup
<1>1. Awake => NoLostWakeup
  BY DEF Awake, ProbeHeard, RequestHeard, NoLostWakeup
<1>2. QED BY <1>1, NobodySleeps, PTL
=============================================================================
