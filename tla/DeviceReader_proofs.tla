------------------------ MODULE DeviceReader_proofs ------------------------
(***************************************************************************)
(* Type correctness of the device reader, the agreement of readiness and   *)
(* published snapshots, the waiting page that only a Full pass replaces,   *)
(* the whole workflows that run for somebody, and the requested Full of a  *)
(* device without peers; for every set of devices, every choice of         *)
(* receivers and of plugins without a projection, and every bound.         *)
(***************************************************************************)
EXTENDS DeviceReader, TLAPS

(* The Boolean variables of TypeOK and the rest of it: the provers take them
   apart. *)
BoolOK == asked \in BOOLEAN /\ settled \in BOOLEAN

DataOK ==
    /\ link \in [Path -> UNION {Links(p) : p \in Path}]
    /\ changes \in 0 .. MaxChanges
    /\ snap \in [Path -> Mouse \cup {absent}] /\ raw \in [Path -> Mouse]
    /\ level \in [Path -> RP!Levels \cup {RP!NotSeen}]
    /\ retry \in [Path -> {"none", "Pending", "Attempted"}]
    /\ backoff \subseteq Path /\ cached \subseteq Path /\ armed \subseteq Receiver
    /\ forced \in RP!OptPlans
    /\ pc \in {"top", "visit"} /\ plan \in RP!Plans
    /\ matched \subseteq Path /\ todo \subseteq matched
    /\ draft \in [Path -> Mouse \cup {absent}] /\ draftRaw \in [Path -> Mouse]
    /\ job \in DOMAIN RequestOf \cup {"none"} /\ requests \in 0 .. MaxRequests
    /\ order \in [Path -> Mouse \cup {absent, "stored"}]
    /\ wanted \subseteq Path /\ wasted \subseteq Path
    /\ inserted \subseteq Path /\ overtaken \subseteq Path

LEMMA TypeParts == TypeOK <=> BoolOK /\ DataOK
  BY DEF TypeOK, BoolOK, DataOK

(* A published snapshot has a readiness, unless a command has put it there.  A
   readiness that is ahead of the snapshots belongs to a device that the running
   pass has an entry for, and an entry belongs to a device that the pass has
   visited. *)
SnapshotsSeen ==
    \A p \in Path :
        /\ snap[p] # absent /\ level[p] = RP!NotSeen => p \in inserted
        /\ level[p] # RP!NotSeen => snap[p] # absent \/ (pc = "visit" /\ draft[p] # absent)
        /\ pc = "visit" /\ draft[p] # absent /\ level[p] = RP!NotSeen => p \in inserted
        /\ pc = "visit" /\ p \in todo => draft[p] = absent

(* No entry of a lighter pass shows a mouse whose waiting page is up, unless a
   command has put the page up since. *)
NoHalfDraft ==
    pc = "visit" /\ plan # "Full"
        => \A p \in Path \ overtaken : snap[p] = "offline" => draft[p] # "ready"

(* A Full pass that nobody has asked for has a device to initialise until it
   has initialised one. *)
FullIsForSomebody ==
    pc = "visit" /\ plan = "Full" /\ ~asked /\ ~settled => RP!Initializing(level)

IInv ==
    /\ TypeOK
    /\ SnapshotsSeen
    /\ NoHalfDraft
    /\ FullIsForSomebody
    /\ NoWastedFull

-----------------------------------------------------------------------------
(* The read plans and the readiness. *)

(* What request_refresh_with_plan leaves in the slot is a plan, and Full stays
   Full. *)
LEMMA MergeType ==
  /\ \A f \in RP!OptPlans, p \in RP!Plans : RP!Merge(f, p) \in RP!OptPlans
  /\ \A f \in RP!OptPlans : RP!Merge(f, "Full") = "Full"
  /\ \A p \in RP!Plans : RP!Merge("Full", p) = "Full"
  BY DEF RP!Merge, RP!Stronger, RP!OptPlans, RP!Plans, RP!NoPlan, RP!Rank

(* Readiness goes up to a level, and away from NotSeen. *)
LEMMA RaiseType ==
  ASSUME NEW l \in RP!Levels \cup {RP!NotSeen}, NEW m \in RP!Levels
  PROVE  RP!Raise(l, m) \in RP!Levels /\ RP!Raise(l, m) # RP!NotSeen
  BY DEF RP!Raise, RP!Levels, RP!NotSeen, RP!LevelRank

(* A pass is Full because somebody asked for one or because some device still
   needs its initial Full, and a forced Full always is. *)
LEMMA PlanOrigin ==
  ASSUME NEW f \in RP!OptPlans, NEW i \in {RP!NoPlan, "Full"}, NEW c \in BOOLEAN,
         NEW o \in BOOLEAN, NEW d \in BOOLEAN, NEW b \in BOOLEAN, NEW m \in BOOLEAN
  PROVE  /\ RP!ChooseReadPlan(c, i, f, o, d, b, m) = "Full" => f = "Full" \/ i = "Full"
         /\ f = "Full" => RP!ChooseReadPlan(c, i, f, o, d, b, m) = "Full"
  BY DEF RP!ChooseReadPlan, RP!SelectReadPlan, RP!Stronger, RP!OptPlans, RP!Plans,
         RP!NoPlan, RP!Rank

(* The same of the plan that the reader picks. *)
LEMMA ReaderPlanOrigin ==
  ASSUME DataOK, NEW p, ReaderPlan(p)
  PROVE  /\ p = "Full" => forced = "Full" \/ RP!Initializing(level)
         /\ forced = "Full" => p = "Full"
<1>1. PICK selected \in IF Known = {} THEN {absent} ELSE Known,
           observing \in BOOLEAN, batteryDue \in BOOLEAN, inWindow \in BOOLEAN :
        LET pending == selected # absent /\ snap[selected] = "offline"
        IN  p = RP!ChooseReadPlan(Known # {}, RP!NextInitialReadPlan(level), forced,
                                  observing, batteryDue, pending /\ inWindow, pending)
  BY Zenon DEF ReaderPlan
<1> DEFINE pending == selected # absent /\ snap[selected] = "offline"
           initial == RP!NextInitialReadPlan(level)
<1>2. /\ (Known # {}) \in BOOLEAN /\ pending \in BOOLEAN /\ (pending /\ inWindow) \in BOOLEAN
      /\ forced \in RP!OptPlans
  BY Zenon DEF DataOK
<1>3. initial \in {RP!NoPlan, "Full"} /\ (initial = "Full" => RP!Initializing(level))
  BY DEF RP!NextInitialReadPlan, RP!NoPlan
<1>4. p = RP!ChooseReadPlan(Known # {}, initial, forced, observing, batteryDue,
                            pending /\ inWindow, pending)
  BY <1>1, Zenon
<1> DEFINE burst == pending /\ inWindow
           connected == Known # {}
           chosen == RP!ChooseReadPlan(connected, initial, forced, observing, batteryDue,
                                       burst, pending)
<1> HIDE DEF pending, initial, burst, connected
<1>5. connected \in BOOLEAN /\ burst \in BOOLEAN
  BY <1>2, Zenon DEF burst, connected
<1>6. /\ chosen = "Full" => forced = "Full" \/ initial = "Full"
      /\ forced = "Full" => chosen = "Full"
  BY <1>2, <1>3, <1>5, PlanOrigin
<1>7. p = chosen
  BY <1>4 DEF burst, connected
<1> HIDE DEF chosen
<1>8. QED BY <1>3, <1>6, <1>7

-----------------------------------------------------------------------------
(* The types. *)

LEMMA InitTypes == Init => TypeOK
<1> SUFFICES ASSUME Init PROVE TypeOK
  OBVIOUS
<1>1. BoolOK
  BY Zenon DEF Init, BoolOK
<1>2. link \in [Path -> UNION {Links(p) : p \in Path}]
  BY DEF Init, Links
<1>3. DataOK
  BY <1>2, DeviceBounds
  DEF Init, DataOK, Mouse, RP!Levels, RP!NotSeen, RP!NoPlan, RP!OptPlans, RP!Plans
<1>4. QED BY <1>1, <1>3, TypeParts

(* No step leaves the types: the Boolean variables. *)
LEMMA BoolStep == BoolOK /\ [Next]_vars => BoolOK'
<1> SUFFICES ASSUME BoolOK, [Next]_vars PROVE BoolOK'
  OBVIOUS
<1> USE DEF BoolOK, env, store, pass, requester, waste
<1>1. CASE StartPass
  BY <1>1, Zenon DEF StartPass
<1>2. CASE \E p \in Path : VisitFull(p)
  BY <1>2, Zenon DEF VisitFull
<1>3. CASE \E p \in Path : VisitPresence(p) \/ VisitKeeps(p) \/ VisitFails(p)
                        \/ VisitFallsBack(p) \/ VisitProjected(p)
  BY <1>3, Zenon DEF VisitPresence, VisitKeeps, VisitFails, VisitFallsBack, VisitProjected
<1>4. CASE Clear \/ PreserveLast \/ Publish
  BY <1>4, Zenon DEF Clear, PreserveLast, Publish
<1>5. CASE Requester
  BY <1>5, Zenon
  DEF Requester, ResetBackoff, Request, Command, CommandWrites, CommandStores, CommandEnds
<1>6. CASE World
  BY <1>6, Zenon DEF World, StartPassEnumerationFails, Change, BackoffExpires, DebounceExpires
<1>7. CASE UNCHANGED vars
  BY <1>7, Zenon DEF vars
<1>8. QED
  BY <1>1, <1>2, <1>3, <1>4, <1>5, <1>6, <1>7, Zenon DEF Next, Reader, Visit

(* Starting a pass, or not getting so far, draws a plan. *)
LEMMA StartTypes == DataOK /\ (StartPass \/ StartPassEnumerationFails) => DataOK'
<1> SUFFICES ASSUME DataOK, StartPass \/ StartPassEnumerationFails PROVE DataOK'
  OBVIOUS
<1>1. CASE StartPass
  BY <1>1, PathAssumption
  DEF StartPass, DataOK, env, entries, requester, late, Mouse, RP!NoPlan, RP!OptPlans, RP!Plans
<1>2. CASE StartPassEnumerationFails
  BY <1>2, DeviceBounds
  DEF StartPassEnumerationFails, DataOK, store, entries, drafts, requester, waste, late, RP!NoPlan, RP!OptPlans, RP!Plans
<1>3. QED BY <1>1, <1>2

(* What a visit does to the pass keeps the types of the pass. *)
LEMMA EntryTypes ==
  ASSUME DataOK, NEW p \in Path, NEW mouse \in Mouse \cup {absent}, NEW outputs \in Mouse,
         Entry(p, mouse, outputs)
  PROVE  /\ pc' \in {"top", "visit"} /\ plan' \in RP!Plans
         /\ matched' \subseteq Path /\ todo' \subseteq matched'
         /\ draft' \in [Path -> Mouse \cup {absent}] /\ draftRaw' \in [Path -> Mouse]
  BY DEF DataOK, Entry

(* ... and so do the retry that it takes, what it arms, and what it asks for. *)
LEMMA VisitParts ==
  ASSUME DataOK, NEW p \in Path
  PROVE  /\ TakeRetry(p) => retry' \in [Path -> {"none", "Pending", "Attempted"}]
         /\ Observe(p) /\ (p \in Receiver \/ HasComponent(p)) => armed' \subseteq Receiver
         /\ ArmedByFailure(p) \subseteq Receiver
         /\ MouseReading(p) \in Mouse
         /\ snap[p] \in Mouse \cup {absent} /\ raw[p] \in Mouse
         /\ p \notin Receiver => HasComponent(p)
         /\ RP!Merge(forced, "Full") \in RP!OptPlans
         /\ RetryAfter(p) \in {"none", "Pending", "Attempted"}
<1>1. TakeRetry(p) => retry' \in [Path -> {"none", "Pending", "Attempted"}]
  BY DEF DataOK, TakeRetry
<1>2. Observe(p) /\ (p \in Receiver \/ HasComponent(p)) => armed' \subseteq Receiver
  BY DEF DataOK, Observe
<1>3. ArmedByFailure(p) \subseteq Receiver
  BY DEF DataOK, ArmedByFailure
<1>4. MouseReading(p) \in Mouse /\ snap[p] \in Mouse \cup {absent} /\ raw[p] \in Mouse
  BY DEF DataOK, MouseReading, Mouse
<1>5. p \notin Receiver => HasComponent(p)
  BY DEF HasComponent
<1>6. RP!Merge(forced, "Full") \in RP!OptPlans
  BY MergeType DEF DataOK, RP!Plans
<1>7. RetryAfter(p) \in {"none", "Pending", "Attempted"}
  BY DEF DataOK, RetryAfter
<1>8. QED BY <1>1, <1>2, <1>3, <1>4, <1>5, <1>6, <1>7

LEMMA VisitTypes == DataOK /\ (\E p \in Path : Visit(p)) => DataOK'
<1> SUFFICES ASSUME DataOK, NEW p \in Path, Visit(p) PROVE DataOK'
  OBVIOUS
<1> USE DEF env, entries, requester, waste, late, GainsReadiness
<1>1. CASE VisitPresence(p)
  <2>1. (IF snap[p] = absent THEN "unknown" ELSE snap[p]) \in Mouse \cup {absent}
    BY VisitParts DEF Mouse
  <2>2. level' \in [Path -> RP!Levels \cup {RP!NotSeen}]
    BY <1>1 DEF VisitPresence, DataOK, RP!Levels
  <2>3. QED BY <1>1, <2>1, <2>2, VisitParts, EntryTypes DEF VisitPresence, DataOK
<1>2. CASE VisitKeeps(p)
  BY <1>2, VisitParts, EntryTypes DEF VisitKeeps, DataOK
<1>3. CASE VisitFails(p)
  BY <1>3, VisitParts, EntryTypes DEF VisitFails, DataOK
<1>4. CASE VisitFallsBack(p)
  BY <1>4, VisitParts, EntryTypes DEF VisitFallsBack, DataOK
<1>5. CASE VisitProjected(p)
  <2>1. PICK mouse \in Mouse \cup {absent}, outputs \in Mouse, wantsFull \in BOOLEAN :
          /\ Entry(p, mouse, outputs)
          /\ forced' = IF wantsFull THEN RP!Merge(forced, "Full") ELSE forced
          /\ wanted' = IF wantsFull THEN wanted \cup {p} ELSE wanted
    <3> DEFINE patched == IF snap[p] = absent THEN "unknown"
                          ELSE IF MouseReading(p) = "unknown" THEN snap[p] ELSE MouseReading(p)
               withheld == RP!WithholdMouseReady(plan, snap[p], patched)
               wantsFull == Recovered(p) \/ withheld
               outputs == IF plan = "Quick" /\ snap[p] # absent
                          THEN MouseReading(p) ELSE raw[p]
    <3>1. patched \in Mouse \cup {absent} /\ "offline" \in Mouse
      BY VisitParts DEF Mouse
    <3>2. wantsFull \in BOOLEAN
      BY Zenon DEF Recovered, RP!WithholdMouseReady
    <3>3. /\ Entry(p, IF withheld THEN "offline" ELSE patched, outputs)
          /\ forced' = IF wantsFull THEN RP!Merge(forced, "Full") ELSE forced
          /\ wanted' = IF wantsFull THEN wanted \cup {p} ELSE wanted
      BY <1>5, Zenon DEF VisitProjected
    <3>6. outputs \in Mouse
      BY VisitParts
    <3> HIDE DEF patched, withheld, wantsFull, outputs
    <3>4. (IF withheld THEN "offline" ELSE patched) \in Mouse \cup {absent}
      BY <3>1
    <3>5. QED BY <3>2, <3>3, <3>4, <3>6
  <2>2. level' \in [Path -> RP!Levels \cup {RP!NotSeen}]
    BY <1>5, RaiseType DEF VisitProjected, DataOK, RP!Levels
  <2>3. forced' \in RP!OptPlans /\ wanted' \subseteq Path
    BY <2>1, VisitParts DEF DataOK
  <2>4. QED BY <1>5, <2>1, <2>2, <2>3, VisitParts, EntryTypes DEF VisitProjected, DataOK
<1>6. CASE VisitFull(p)
  <2>1. PICK mouse \in Mouse \cup {absent}, again \in BOOLEAN :
          /\ Entry(p, mouse, MouseReading(p))
          /\ forced' = IF again THEN RP!Merge(forced, "Full") ELSE forced
          /\ wanted' = IF again THEN wanted \cup {p} ELSE wanted \ {p}
    <3> DEFINE kept == ~Complete(p) /\ MouseReading(p) = "unknown" /\ snap[p] # absent
               again == RetryAfter(p) = "Pending"
    <3>1. /\ Entry(p, IF kept THEN snap[p] ELSE MouseReading(p), MouseReading(p))
          /\ forced' = IF again THEN RP!Merge(forced, "Full") ELSE forced
          /\ wanted' = IF again THEN wanted \cup {p} ELSE wanted \ {p}
      BY <1>6, Zenon DEF VisitFull
    <3>2. again \in BOOLEAN
      BY Zenon
    <3> HIDE DEF kept, again
    <3>3. (IF kept THEN snap[p] ELSE MouseReading(p)) \in Mouse \cup {absent}
      BY VisitParts
    <3>4. QED BY <3>1, <3>2, <3>3
  <2>2. level' \in [Path -> RP!Levels \cup {RP!NotSeen}]
    BY <1>6, RaiseType DEF VisitFull, DataOK, RP!Levels
  <2>3. forced' \in RP!OptPlans /\ wanted' \subseteq Path
    BY <2>1, VisitParts DEF DataOK
  <2>4. retry' \in [Path -> {"none", "Pending", "Attempted"}]
    BY <1>6, VisitParts DEF VisitFull, DataOK
  <2>5. wasted' \subseteq Path
    BY <1>6, Zenon DEF VisitFull, DataOK
  <2>6. QED BY <1>6, <2>1, <2>2, <2>3, <2>4, <2>5, VisitParts, EntryTypes DEF VisitFull, DataOK
<1>7. QED BY <1>1, <1>2, <1>3, <1>4, <1>5, <1>6 DEF Visit

(* The end of a pass, commands and events, and the world. *)
LEMMA OtherTypes == DataOK /\ (Clear \/ PreserveLast \/ Publish \/ Requester \/ World) => DataOK'
<1> SUFFICES ASSUME DataOK, Clear \/ PreserveLast \/ Publish \/ Requester \/ World PROVE DataOK'
  OBVIOUS
<1> USE DEF env, store, entries, pass, drafts, requester, waste, late
<1>1. CASE Clear
  BY <1>1 DEF Clear, DataOK, Mouse
<1>2. CASE PreserveLast
  BY <1>2 DEF PreserveLast, DataOK
<1>3. CASE Publish
  BY <1>3 DEF Publish, DataOK
<1>4. CASE \E j \in DOMAIN RequestOf : ResetBackoff(j)
  BY <1>4, DeviceBounds, PathAssumption DEF ResetBackoff, DataOK, Known
<1>5. ASSUME NEW j \in DOMAIN RequestOf, Request(j) PROVE DataOK'
  <2>1. RequestOf[j] \in RP!Plans
    BY DEF RequestOf, RP!Plans
  <2>2. forced' \in RP!OptPlans
    BY <1>5, <2>1, MergeType DEF Request, DataOK
  <2>3. requests' \in 0 .. MaxRequests
    BY <1>5, DeviceBounds DEF Request, DataOK
  <2>4. wanted' \subseteq Path
    BY <1>5 DEF Request, DataOK, Known
  <2>5. QED BY <1>5, <2>2, <2>3, <2>4 DEF Request, DataOK
<1>6. CASE StartPassEnumerationFails
  BY <1>6, StartTypes
<1>7. ASSUME NEW p \in Path, Change(p) PROVE DataOK'
  <2>1. PICK l \in Links(p) : link' = [link EXCEPT ![p] = l]
    BY <1>7 DEF Change
  <2>2. l \in UNION {Links(q) : q \in Path}
    BY <2>1
  <2>3. link' \in [Path -> UNION {Links(q) : q \in Path}]
    BY <2>1, <2>2 DEF DataOK
  <2>4. QED BY <1>7, <2>3, DeviceBounds DEF Change, DataOK
<1>8. CASE \E p \in Path : BackoffExpires(p) \/ DebounceExpires(p)
  BY <1>8 DEF BackoffExpires, DebounceExpires, DataOK
<1>9. ASSUME NEW p \in Path, Command(p) PROVE DataOK'
  <2>1. MouseReading(p) \in Mouse /\ raw[p] \in Mouse
    BY VisitParts
  <2>2. RP!Merge(forced, "Quick") \in RP!OptPlans
    BY MergeType DEF DataOK, RP!Plans
  <2>3. CASE CommandWrites(p)
    BY <2>1, <2>3, DeviceBounds DEF CommandWrites, DataOK
  <2>4. CASE CommandStores(p)
    BY <2>4 DEF CommandStores, DataOK
  <2>5. CASE CommandEnds(p)
    BY <2>2, <2>5 DEF CommandEnds, DataOK
  <2>6. QED BY <1>9, <2>3, <2>4, <2>5 DEF Command
<1>10. QED BY <1>1, <1>2, <1>3, <1>4, <1>5, <1>6, <1>7, <1>8, <1>9 DEF Requester, World

LEMMA TypeStep == TypeOK /\ [Next]_vars => TypeOK'
<1> SUFFICES ASSUME BoolOK, DataOK, [Next]_vars PROVE BoolOK' /\ DataOK'
  BY DEF TypeOK, BoolOK, DataOK
<1>1. BoolOK'
  BY BoolStep
<1>2. DataOK'
  <2>1. CASE UNCHANGED vars
    BY <2>1 DEF vars, DataOK, env, store, entries, pass, drafts, requester, waste, late
  <2>2. QED BY <2>1, StartTypes, VisitTypes, OtherTypes DEF Next, Reader
<1>3. QED BY <1>1, <1>2

(* The type invariant, for every instance. *)
THEOREM TypeCorrect == Spec => []TypeOK
<1>1. QED BY InitTypes, TypeStep, PTL DEF Spec

-----------------------------------------------------------------------------
(* What the running pass knows of a device. *)

(* A visit takes its device from those to do, writes its entry and touches the
   readiness of no other device, nor what a command has done to one. *)
Visited(p, mouse) ==
    /\ pc = "visit" /\ p \in todo /\ pc' = "visit" /\ plan' = plan
    /\ todo' = todo \ {p} /\ snap' = snap
    /\ draft' = [draft EXCEPT ![p] = mouse]
    /\ overtaken' = overtaken

LEMMA SeenByVisit ==
  ASSUME IInv, NEW p \in Path, NEW mouse, Visited(p, mouse),
         \/ level' = level /\ mouse = snap[p] /\ inserted' = inserted
         \/ /\ mouse # absent /\ \A q \in Path : q # p => level'[q] = level[q]
            /\ level'[p] # RP!NotSeen /\ inserted' = inserted \ {p}
  PROVE  SnapshotsSeen'
<1>1. TypeOK /\ SnapshotsSeen
  BY DEF IInv
<1>2. draft \in [Path -> Mouse \cup {absent}]
  BY <1>1 DEF TypeOK
<1>3. ASSUME NEW q \in Path
      PROVE  /\ snap'[q] # absent /\ level'[q] = RP!NotSeen => q \in inserted'
             /\ level'[q] # RP!NotSeen => snap'[q] # absent \/ draft'[q] # absent
             /\ draft'[q] # absent /\ level'[q] = RP!NotSeen => q \in inserted'
             /\ q \in todo' => draft'[q] = absent
  <2>1. CASE q = p
    BY <1>1, <1>2, <2>1 DEF Visited, SnapshotsSeen
  <2>2. CASE q # p
    BY <1>1, <1>2, <2>2 DEF Visited, SnapshotsSeen
  <2>3. QED BY <2>1, <2>2
<1>4. QED BY <1>3 DEF SnapshotsSeen, Visited

LEMMA HalfByVisit ==
  ASSUME IInv, NEW p \in Path, NEW mouse, Visited(p, mouse),
         plan # "Full" /\ snap[p] = "offline" => mouse # "ready"
  PROVE  NoHalfDraft'
<1>1. NoHalfDraft /\ draft \in [Path -> Mouse \cup {absent}]
  BY DEF IInv, TypeOK
<1>2. ASSUME NEW q \in Path \ overtaken, plan # "Full", snap[q] = "offline"
      PROVE  draft'[q] # "ready"
  BY <1>1, <1>2 DEF Visited, NoHalfDraft
<1>3. QED BY <1>2 DEF NoHalfDraft, Visited

(* A visit that is not the whole workflow wastes none, and initialises none. *)
LEMMA NoWasteByVisit ==
  ASSUME IInv, NEW p \in Path, NEW mouse, Visited(p, mouse), UNCHANGED <<asked, waste>>,
         plan # "Full" \/ level' = level
  PROVE  FullIsForSomebody' /\ NoWastedFull'
  BY DEF IInv, Visited, FullIsForSomebody, NoWastedFull, waste

(* The whole workflow runs for its device, or in a pass that is for one. *)
LEMMA WholeWorkflow ==
  ASSUME IInv, NEW p \in Path, VisitFull(p)
  PROVE  FullIsForSomebody' /\ NoWastedFull'
<1> DEFINE initial == level[p] \in {RP!NotSeen, "Detected", "Quick", "Inventory"}
<1>1. /\ level \in [Path -> RP!Levels \cup {RP!NotSeen}]
      /\ FullIsForSomebody /\ wasted = {}
  BY DEF IInv, TypeOK, NoWastedFull
<1>2. /\ pc = "visit" /\ plan = "Full" /\ ~SkipsComplete(p)
      /\ pc' = "visit" /\ plan' = plan /\ asked' = asked
      /\ settled' = (settled \/ initial)
      /\ wasted' = IF asked \/ settled' \/ RetryPending(p) THEN wasted ELSE wasted \cup {p}
      /\ level' = [level EXCEPT ![p] =
                     RP!Raise(@, IF Complete(p) THEN "Full" ELSE "DegradedFull")]
  BY Zenon DEF VisitFull, Reads, Visiting, Entry
<1> HIDE DEF initial
<1>3. ~initial => /\ level[p] # RP!NotSeen /\ ~RP!NeedsInitialFull(level[p])
  BY <1>1 DEF initial, RP!NeedsInitialFull
<1>4. ASSUME ~asked, ~settled, ~initial PROVE RP!Initializing(level)'
  <2>1. PICK d \in Path : RP!NeedsInitialFull(level[d])
    BY <1>1, <1>2, <1>4 DEF FullIsForSomebody, RP!Initializing
  <2>2. d # p
    BY <1>3, <1>4, <2>1
  <2>3. level'[d] = level[d] /\ DOMAIN level' = Path
    BY <1>1, <1>2, <2>2
  <2>4. QED BY <2>1, <2>3 DEF RP!Initializing
<1>5. FullIsForSomebody'
  <2>1. SUFFICES ASSUME ~asked', ~settled' PROVE RP!Initializing(level)'
    BY DEF FullIsForSomebody
  <2>2. ~asked /\ ~settled /\ ~initial
    BY <1>2, <2>1, Zenon
  <2>3. QED BY <1>4, <2>2
<1>6. NoWastedFull'
  <2>1. SUFFICES ASSUME ~asked, ~settled', ~RetryPending(p) PROVE FALSE
    BY <1>1, <1>2, Zenon DEF NoWastedFull
  <2>2. ~settled /\ ~initial
    BY <1>2, <2>1, Zenon
  <2>3. RP!Initializing(level)
    BY <1>1, <1>2, <2>1, <2>2, Zenon DEF FullIsForSomebody
  <2>4. RP!SkipAlreadyComplete(level, p, plan)
    BY <1>2, <1>3, <2>2, <2>3, Zenon DEF RP!SkipAlreadyComplete
  <2>5. QED BY <1>2, <2>1, <2>4, Zenon DEF SkipsComplete
<1>7. QED BY <1>5, <1>6

Kept == SnapshotsSeen /\ NoHalfDraft /\ FullIsForSomebody /\ NoWastedFull

(* The visit of a device keeps all of it. *)
LEMMA VisitKept ==
  ASSUME IInv, NEW p \in Path, Visit(p)
  PROVE  Kept'
<1>0. /\ DataOK /\ snap[p] \in Mouse \cup {absent} /\ MouseReading(p) \in Mouse
      /\ level \in [Path -> RP!Levels \cup {RP!NotSeen}]
  BY TypeParts, VisitParts DEF IInv, TypeOK
<1>1. ASSUME NEW mouse, NEW outputs, Entry(p, mouse, outputs), Visiting(p), snap' = snap,
             overtaken' = overtaken
      PROVE  Visited(p, mouse)
  BY <1>1 DEF Entry, Visiting, Visited
<1>2. CASE VisitPresence(p)
  <2> DEFINE mouse == IF snap[p] = absent THEN "unknown" ELSE snap[p]
  <2>1. Visited(p, mouse)
    BY <1>1, <1>2 DEF VisitPresence, entries, GainsReadiness
  <2>2. /\ mouse # absent /\ (snap[p] = "offline" => mouse # "ready")
        /\ \A q \in Path : q # p => level'[q] = level[q]
        /\ level'[p] # RP!NotSeen /\ inserted' = inserted \ {p}
    BY <1>0, <1>2 DEF VisitPresence, GainsReadiness, absent, RP!NotSeen
  <2>3. plan # "Full" /\ UNCHANGED <<asked, waste>>
    BY <1>2 DEF VisitPresence
  <2> HIDE DEF mouse
  <2>4. QED BY <2>1, <2>2, <2>3, SeenByVisit, HalfByVisit, NoWasteByVisit DEF Kept
<1>3. CASE VisitKeeps(p) \/ VisitFails(p) \/ VisitFallsBack(p)
  <2>1. Visited(p, snap[p])
    BY <1>1, <1>3 DEF VisitKeeps, VisitFails, VisitFallsBack, Reads, entries, late
  <2>2. level' = level /\ UNCHANGED <<asked, waste, inserted>>
    BY <1>3 DEF VisitKeeps, VisitFails, VisitFallsBack, late
  <2>3. QED BY <2>1, <2>2, SeenByVisit, HalfByVisit, NoWasteByVisit DEF Kept
<1>4. CASE VisitProjected(p)
  <2> DEFINE patched  == IF snap[p] = absent THEN "unknown"
                         ELSE IF MouseReading(p) = "unknown" THEN snap[p] ELSE MouseReading(p)
             withheld == RP!WithholdMouseReady(plan, snap[p], patched)
             mouse == IF withheld THEN "offline" ELSE patched
  <2>1. Visited(p, mouse)
    <3> DEFINE outputs == IF plan = "Quick" /\ snap[p] # absent
                          THEN MouseReading(p) ELSE raw[p]
    <3>1. Entry(p, mouse, outputs) /\ snap' = snap /\ Visiting(p) /\ overtaken' = overtaken
      BY <1>4, Zenon DEF VisitProjected, Reads, entries, GainsReadiness
    <3> HIDE DEF mouse, outputs
    <3>2. QED BY <1>1, <3>1
  <2>2. mouse # absent
    BY <1>0 DEF Mouse, absent
  <2>3. plan # "Full" /\ UNCHANGED <<asked, waste>>
    BY <1>4 DEF VisitProjected, RP!UsesProjection
  <2>4. snap[p] = "offline" => mouse # "ready"
    BY <2>3 DEF RP!WithholdMouseReady
  <2>5. /\ level'[p] # RP!NotSeen /\ \A q \in Path : q # p => level'[q] = level[q]
        /\ inserted' = inserted \ {p}
    BY <1>0, <1>4, RaiseType DEF VisitProjected, GainsReadiness, RP!Levels
  <2> HIDE DEF mouse
  <2>6. QED BY <2>1, <2>2, <2>3, <2>4, <2>5, SeenByVisit, HalfByVisit, NoWasteByVisit DEF Kept
<1>5. CASE VisitFull(p)
  <2> DEFINE kept == ~Complete(p) /\ MouseReading(p) = "unknown" /\ snap[p] # absent
             mouse == IF kept THEN snap[p] ELSE MouseReading(p)
  <2>1. Visited(p, mouse)
    <3>1. Entry(p, mouse, MouseReading(p)) /\ snap' = snap /\ Visiting(p)
          /\ overtaken' = overtaken
      BY <1>5, Zenon DEF VisitFull, Reads, entries, GainsReadiness
    <3> HIDE DEF mouse
    <3>2. QED BY <1>1, <3>1
  <2>2. mouse # absent
    BY <1>0 DEF Mouse, absent
  <2>3. plan = "Full"
    BY <1>5 DEF VisitFull
  <2>4. /\ level'[p] # RP!NotSeen /\ \A q \in Path : q # p => level'[q] = level[q]
        /\ inserted' = inserted \ {p}
    BY <1>0, <1>5, RaiseType DEF VisitFull, GainsReadiness, RP!Levels
  <2> HIDE DEF mouse
  <2>5. QED BY <1>5, <2>1, <2>2, <2>3, <2>4, SeenByVisit, HalfByVisit, WholeWorkflow DEF Kept
<1>6. QED BY <1>2, <1>3, <1>4, <1>5 DEF Visit

-----------------------------------------------------------------------------
(* A pass begins with no entries, and Full only for somebody. *)
LEMMA StartKept == IInv /\ StartPass => Kept'
<1> SUFFICES ASSUME IInv, StartPass PROVE Kept'
  OBVIOUS
<1>1. /\ DataOK /\ SnapshotsSeen /\ NoWastedFull
      /\ pc = "top" /\ pc' = "visit" /\ draft' = [p \in Path |-> absent]
      /\ UNCHANGED <<snap, level, wasted, inserted>> /\ ReaderPlan(plan')
      /\ asked' = (forced = "Full")
  BY TypeParts, Zenon DEF IInv, StartPass, entries, late
<1>2. SnapshotsSeen'
  BY <1>1 DEF SnapshotsSeen
<1>3. NoHalfDraft'
  BY <1>1 DEF NoHalfDraft, absent
<1>4. FullIsForSomebody'
  <2>1. SUFFICES ASSUME plan' = "Full", ~asked' PROVE RP!Initializing(level)'
    BY DEF FullIsForSomebody
  <2>2. forced # "Full"
    BY <1>1, <2>1, Zenon
  <2>3. RP!Initializing(level)
    BY <1>1, <2>1, <2>2, ReaderPlanOrigin
  <2>4. QED BY <1>1, <2>3
<1>5. QED BY <1>1, <1>2, <1>3, <1>4 DEF Kept, NoWastedFull

(* At the end of a pass either everything goes, or nothing has come, or the
   entries are published and readiness follows them. *)
LEMMA EndKept == IInv /\ (Clear \/ PreserveLast \/ Publish) => Kept'
<1> SUFFICES ASSUME IInv, Clear \/ PreserveLast \/ Publish PROVE Kept'
  OBVIOUS
<1>1. /\ DataOK /\ SnapshotsSeen /\ NoWastedFull
      /\ pc' = "top" /\ wasted' = wasted
  BY TypeParts DEF IInv, Clear, PreserveLast, Publish, waste
<1>2. SnapshotsSeen'
  <2>1. CASE Clear
    BY <1>1, <2>1 DEF SnapshotsSeen, Clear
  <2>2. CASE PreserveLast
    BY <1>1, <2>2 DEF SnapshotsSeen, PreserveLast, Done, store, entries
  <2>3. CASE Publish
    BY <1>1, <2>3 DEF SnapshotsSeen, Publish, Done
  <2>4. QED BY <2>1, <2>2, <2>3
<1>3. QED BY <1>1, <1>2 DEF Kept, NoHalfDraft, FullIsForSomebody, NoWastedFull

(* Nothing else touches what the pass knows. *)
LEMMA OtherKept ==
  ASSUME IInv, UNCHANGED <<snap, level, pc, draft, asked, waste, late>>,
         pc = "top" \/ UNCHANGED <<plan, todo>>
  PROVE  Kept'
<1>1. SnapshotsSeen'
  BY DEF IInv, SnapshotsSeen, late
<1>2. NoHalfDraft' /\ FullIsForSomebody' /\ NoWastedFull'
  BY DEF IInv, NoHalfDraft, FullIsForSomebody, NoWastedFull, waste, late
<1>3. QED BY <1>1, <1>2 DEF Kept

(* The store of a command keeps the history of what it does: an entry without a
   readiness is inserted, and a running pass is overtaken. *)
LEMMA StoreKept ==
  ASSUME IInv, NEW p \in Path, CommandStores(p)
  PROVE  Kept'
<1>1. /\ snap \in [Path -> Mouse \cup {absent}] /\ order[p] \in Mouse
      /\ snap' = [snap EXCEPT ![p] = order[p]]
      /\ inserted' = IF level[p] = RP!NotSeen THEN inserted \cup {p} ELSE inserted
      /\ overtaken' = IF pc = "visit" THEN overtaken \cup {p} ELSE overtaken
      /\ UNCHANGED <<level, pc, plan, todo, draft, asked, settled, wasted>>
  BY DEF CommandStores, IInv, TypeOK, pass, drafts, waste
<1>2. \A q \in Path : snap'[q] = IF q = p THEN order[p] ELSE snap[q]
  BY <1>1
<1>3. order[p] # absent
  BY <1>1 DEF Mouse, absent
<1>4. SnapshotsSeen'
  <2>1. ASSUME NEW q \in Path
        PROVE  /\ snap'[q] # absent /\ level[q] = RP!NotSeen => q \in inserted'
               /\ level[q] # RP!NotSeen => snap'[q] # absent \/ (pc = "visit" /\ draft[q] # absent)
               /\ pc = "visit" /\ draft[q] # absent /\ level[q] = RP!NotSeen => q \in inserted'
               /\ pc = "visit" /\ q \in todo => draft[q] = absent
    <3>1. inserted \subseteq inserted' /\ (level[p] = RP!NotSeen => p \in inserted')
      BY <1>1
    <3>2. CASE q = p
      BY <1>2, <1>3, <3>1, <3>2 DEF IInv, SnapshotsSeen
    <3>3. CASE q # p
      BY <1>2, <3>1, <3>3 DEF IInv, SnapshotsSeen
    <3>4. QED BY <3>2, <3>3
  <2>2. QED BY <1>1, <2>1 DEF SnapshotsSeen
<1>5. NoHalfDraft'
  BY <1>1, <1>2 DEF IInv, NoHalfDraft
<1>6. FullIsForSomebody' /\ NoWastedFull'
  BY <1>1 DEF IInv, FullIsForSomebody, NoWastedFull
<1>7. QED BY <1>4, <1>5, <1>6 DEF Kept

LEMMA Inductive == IInv /\ [Next]_vars => IInv'
<1> SUFFICES ASSUME IInv, [Next]_vars PROVE IInv'
  OBVIOUS
<1>1. TypeOK'
  BY TypeStep DEF IInv
<1>2. Kept'
  <2>1. CASE StartPass
    BY <2>1, StartKept
  <2>2. CASE \E p \in Path : Visit(p)
    BY <2>2, VisitKept
  <2>3. CASE Clear \/ PreserveLast \/ Publish
    BY <2>3, EndKept
  <2>4. CASE Requester
    <3>1. CASE \E p \in Path : CommandStores(p)
      BY <3>1, StoreKept
    <3>2. CASE ~\E p \in Path : CommandStores(p)
      <4>1. UNCHANGED <<snap, level, pc, draft, asked, waste, late, plan, todo>>
        BY <2>4, <3>2
        DEF Requester, ResetBackoff, Request, Command, CommandWrites, CommandEnds, store,
            entries, pass, drafts
      <4>2. QED BY <4>1, OtherKept
    <3>3. QED BY <3>1, <3>2
  <2>5. CASE World
    <3>1. /\ UNCHANGED <<snap, level, pc, draft, asked, waste, late>>
          /\ pc = "top" \/ UNCHANGED <<plan, todo>>
      BY <2>5 DEF World, StartPassEnumerationFails, Change, BackoffExpires, DebounceExpires,
                  store, entries, pass, drafts
    <3>2. QED BY <3>1, OtherKept
  <2>6. CASE UNCHANGED vars
    BY <2>6, OtherKept DEF vars, store, entries, pass, drafts
  <2>7. QED BY <2>1, <2>2, <2>3, <2>4, <2>5, <2>6 DEF Next, Reader
<1>3. QED BY <1>1, <1>2 DEF IInv, Kept

LEMMA InitIInv == Init => IInv
<1> SUFFICES ASSUME Init PROVE IInv
  OBVIOUS
<1>1. TypeOK
  BY InitTypes
<1>2. SnapshotsSeen
  BY DEF Init, SnapshotsSeen
<1>3. NoHalfDraft /\ FullIsForSomebody /\ NoWastedFull
  BY DEF Init, NoHalfDraft, FullIsForSomebody, NoWastedFull
<1>4. QED BY <1>1, <1>2, <1>3 DEF IInv

LEMMA Invariance == Spec => []IInv
<1>1. QED BY InitIInv, Inductive, PTL DEF Spec

-----------------------------------------------------------------------------
(* Between two passes readiness is known of published devices only, and of all of
   them but those whose entry the late store of a command has put there: the map
   that store_snapshots replaces and the one that read_device_once raises come
   apart nowhere else. *)
THEOREM ReadinessAgrees == Spec => []ReadinessMatchesSnapshots
<1>1. IInv => ReadinessMatchesSnapshots
  BY DEF IInv, SnapshotsSeen, ReadinessMatchesSnapshots
<1>2. QED BY <1>1, Invariance, PTL

(* No whole workflow runs for nobody. *)
THEOREM FullReadsAreNeeded == Spec => []NoWastedFull
<1>1. IInv => NoWastedFull
  BY DEF IInv
<1>2. QED BY <1>1, Invariance, PTL

(* The waiting page of a mouse gives way to its dashboard only in a Full pass, by
   the store of a command, or in a pass that such a store has overtaken. *)
THEOREM WaitingPageStays == Spec => NoHalfSnapshot
<1>1. ASSUME IInv, [Next]_vars, NEW p \in Path, snap[p] = "offline", snap'[p] = "ready"
      PROVE  plan = "Full" \/ p \in overtaken \/ CommandStores(p)
  <2>1. CASE Publish
    BY <1>1, <2>1 DEF IInv, NoHalfDraft, Publish, Done
  <2>2. CASE ~Publish
    <3>1. snap' = snap \/ Clear \/ \E q \in Path : CommandStores(q)
      BY <1>1, <2>2 DEF Next, Reader, Visit, StartPass, VisitPresence, VisitKeeps, VisitFails,
           VisitFallsBack, VisitProjected, VisitFull, PreserveLast, Requester, ResetBackoff,
           Request, Command, CommandWrites, CommandEnds, World, StartPassEnumerationFails,
           Change, BackoffExpires, DebounceExpires, store, entries, vars
    <3>2. CASE snap' = snap
      BY <1>1, <3>2
    <3>3. CASE Clear
      BY <1>1, <3>3 DEF Clear, absent
    <3>4. ASSUME NEW q \in Path, CommandStores(q) PROVE CommandStores(p)
      <4>1. snap' = [snap EXCEPT ![q] = order[q]] /\ snap \in [Path -> Mouse \cup {absent}]
        BY <1>1, <3>4 DEF CommandStores, IInv, TypeOK
      <4>2. q = p
        BY <1>1, <4>1
      <4>3. QED BY <3>4, <4>2
    <3>5. QED BY <3>1, <3>2, <3>3, <3>4
  <2>3. QED BY <2>1, <2>2
<1>2. IInv /\ [Next]_vars
        => (\A p \in Path : snap[p] = "offline" /\ snap'[p] = "ready"
               => plan = "Full" \/ p \in overtaken \/ CommandStores(p))
  BY <1>1
<1>3. QED BY <1>2, Invariance, PTL DEF Spec, NoHalfSnapshot

-----------------------------------------------------------------------------
(* The Full that somebody asked for is ahead of a device: in the forced slot, or
   in the running pass, which has still to visit it. *)
Ahead(p) == forced = "Full" \/ (pc = "visit" /\ plan = "Full" /\ p \in todo)

(* Visits of a device do not touch what is owed to the others. *)
LEMMA OwedByVisit ==
  ASSUME TypeOK, NEW p \in Path, Visit(p), ~SkipsComplete(p)
  PROVE  \A q \in wanted' : (q \in wanted => Ahead(q)) => Ahead(q)'
<1>0. DataOK
  BY TypeParts
<1>1. /\ Visiting(p) /\ pc' = "visit" /\ plan' = plan /\ todo' = todo \ {p}
      /\ forced' \in {forced, RP!Merge(forced, "Full")}
  BY Zenon DEF Visit, VisitPresence, VisitKeeps, VisitFails, VisitFallsBack, VisitProjected,
     VisitFull, Entry, Visiting, Reads
<1>2. /\ RP!Merge(forced, "Full") = "Full"
      /\ forced = "Full" => forced' = "Full"
  BY <1>0, <1>1, MergeType DEF DataOK
<1>3. ASSUME NEW q \in wanted', q \in wanted, Ahead(q), q # p PROVE Ahead(q)'
  BY <1>1, <1>2, <1>3 DEF Ahead
<1>4. ASSUME NEW q \in wanted', q \notin wanted PROVE Ahead(q)'
  <2>1. forced' = "Full"
    BY <1>2, <1>4, Zenon DEF Visit, VisitPresence, VisitKeeps, VisitFails, VisitFallsBack,
       VisitProjected, VisitFull
  <2>2. QED BY <2>1 DEF Ahead
<1>5. ASSUME p \in wanted', p \in wanted, Ahead(p) PROVE Ahead(p)'
  <2>1. CASE plan # "Full"
    BY <1>1, <1>2, <1>5, <2>1 DEF Ahead
  <2>2. CASE plan = "Full" /\ VisitKeeps(p)
    <3>1. ~HitsCache(p)
      BY <2>2 DEF HitsCache, RP!UseCachedRead
    <3>2. wanted' = wanted \ {p}
      BY <2>2, <3>1, Zenon DEF VisitKeeps
    <3>3. QED BY <1>5, <3>2
  <2>3. CASE plan = "Full" /\ VisitFails(p)
    BY <1>5, <2>3 DEF VisitFails
  <2>4. CASE plan = "Full" /\ VisitFull(p)
    <3>1. RetryAfter(p) = "Pending"
      BY <1>5, <2>4, Zenon DEF VisitFull
    <3>2. forced' = "Full"
      BY <1>2, <2>4, <3>1, Zenon DEF VisitFull
    <3>3. QED BY <3>2 DEF Ahead
  <2>5. QED
    BY <2>1, <2>2, <2>3, <2>4
    DEF Visit, VisitPresence, VisitFallsBack, VisitProjected, RP!UsesProjection
<1>6. QED BY <1>3, <1>4, <1>5

(* Whatever is owed is ahead, and stays so until it has been tried; only the
   skip of complete peers can pass it over. *)
OwedIsAhead == \A p \in wanted : Ahead(p)

LEMMA OwedStep ==
  ASSUME TypeOK, OwedIsAhead, [Next]_vars,
         \A p \in Path : Visit(p) => ~SkipsComplete(p)
  PROVE  OwedIsAhead'
<1>0. DataOK
  BY TypeParts
<1>1. CASE StartPass
  <2>1. /\ pc = "top" /\ pc' = "visit" /\ ReaderPlan(plan')
        /\ todo' = matched' /\ asked' = (forced = "Full")
        /\ wanted' = IF asked' THEN wanted \cap matched' ELSE wanted
    BY <1>1, Zenon DEF StartPass
  <2>2. CASE forced = "Full"
    <3>1. plan' = "Full"
      BY <1>0, <2>1, <2>2, ReaderPlanOrigin
    <3>2. wanted' = wanted \cap matched'
      BY <2>1, <2>2, Zenon
    <3>3. QED BY <2>1, <3>1, <3>2 DEF OwedIsAhead, Ahead
  <2>3. CASE forced # "Full"
    <3>1. wanted = {}
      BY <2>1, <2>3 DEF OwedIsAhead, Ahead
    <3>2. wanted' = {}
      BY <2>1, <2>3, <3>1, Zenon
    <3>3. QED BY <3>2 DEF OwedIsAhead
  <2>4. QED BY <2>2, <2>3
<1>2. CASE \E p \in Path : Visit(p)
  BY <1>2, OwedByVisit DEF OwedIsAhead
<1>3. CASE Clear
  BY <1>3 DEF Clear, OwedIsAhead
<1>4. CASE PreserveLast \/ Publish
  <2>1. /\ pc = "visit" /\ todo = {} /\ UNCHANGED <<forced, wanted>>
    BY <1>4 DEF PreserveLast, Publish, Done
  <2>2. QED BY <2>1 DEF OwedIsAhead, Ahead
<1>5. CASE \E j \in DOMAIN RequestOf : ResetBackoff(j)
  BY <1>5 DEF ResetBackoff, OwedIsAhead, Ahead, pass
<1>6. ASSUME NEW j \in DOMAIN RequestOf, Request(j) PROVE OwedIsAhead'
  <2>1. /\ RequestOf[j] \in RP!Plans
        /\ j = "refresh" => RequestOf[j] = "Full"
    BY DEF RequestOf, RP!Plans
  <2>2. /\ forced = "Full" => forced' = "Full"
        /\ j = "refresh" => forced' = "Full"
    BY <1>0, <1>6, <2>1, MergeType DEF Request, DataOK
  <2>3. CASE j = "refresh"
    BY <2>2, <2>3 DEF OwedIsAhead, Ahead
  <2>4. CASE j # "refresh"
    BY <1>6, <2>2, <2>4 DEF Request, OwedIsAhead, Ahead, pass
  <2>5. QED BY <2>3, <2>4
<1>7. CASE StartPassEnumerationFails
  BY <1>7 DEF StartPassEnumerationFails, OwedIsAhead
<1>8. CASE \E p \in Path : Change(p) \/ BackoffExpires(p) \/ DebounceExpires(p)
  BY <1>8 DEF Change, BackoffExpires, DebounceExpires, OwedIsAhead, Ahead, pass
<1>9. CASE \E p \in Path : Command(p)
  <2>1. /\ UNCHANGED <<wanted, pass>> /\ forced' \in {forced, RP!Merge(forced, "Quick")}
    BY <1>9 DEF Command, CommandWrites, CommandStores, CommandEnds
  <2>2. forced = "Full" => forced' = "Full"
    BY <1>0, <2>1, MergeType DEF DataOK, RP!Plans
  <2>3. QED BY <2>1, <2>2 DEF OwedIsAhead, Ahead, pass
<1>10. CASE UNCHANGED vars
  BY <1>10 DEF vars, pass, OwedIsAhead, Ahead
<1>11. QED
  BY <1>1, <1>2, <1>3, <1>4, <1>5, <1>6, <1>7, <1>8, <1>9, <1>10, Zenon
  DEF Next, Reader, Requester, World

(* Without a peer there is nobody to be passed over for: whatever was asked for
   is tried before the reader finds nothing queued. *)
THEOREM LoneRequestServed ==
  ASSUME \A p, q \in Path : p = q
  PROVE  Spec => []FullRequestServed
<1>1. ASSUME TypeOK, NEW p \in Path PROVE ~SkipsComplete(p)
  <2>1. SUFFICES ASSUME SkipsComplete(p) PROVE FALSE
    OBVIOUS
  <2>2. RP!Initializing(level) /\ ~RP!NeedsInitialFull(level[p])
    BY <2>1 DEF SkipsComplete, RP!SkipAlreadyComplete
  <2>3. PICK d \in Path : RP!NeedsInitialFull(level[d])
    BY <1>1, <2>2 DEF RP!Initializing, TypeOK
  <2>4. QED BY <2>2, <2>3
<1>2. Init => OwedIsAhead
  BY DEF Init, OwedIsAhead
<1>3. TypeOK /\ OwedIsAhead /\ [Next]_vars => OwedIsAhead'
  BY <1>1, OwedStep
<1>4. OwedIsAhead => FullRequestServed
  <2>1. SUFFICES ASSUME OwedIsAhead, pc = "top", forced # "Full" PROVE wanted = {}
    BY DEF FullRequestServed
  <2>2. QED BY <2>1 DEF OwedIsAhead, Ahead
<1>5. QED BY <1>2, <1>3, <1>4, TypeCorrect, PTL DEF Spec

=============================================================================
