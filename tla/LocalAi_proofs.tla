-------------------------- MODULE LocalAi_proofs --------------------------
(***************************************************************************)
(* Type correctness of LocalAi, its empty pipe, the deployment that runs   *)
(* and the deployments that are not lost: for every set of versions and of *)
(* callers, every size of a batch, every threshold and every bound.        *)
(***************************************************************************)
EXTENDS LocalAi, SequenceTheorems, WellFoundedInduction, TLAPS

-----------------------------------------------------------------------------
(* The answers of a batch. *)

(* A set of numbers that is not empty has a least one. *)
LEMMA LeastExists ==
  ASSUME NEW S, S \subseteq Nat, S # {}
  PROVE  \E i \in S : \A j \in S : i <= j
<1>1. PICK i \in S : \A j \in S : ~(<<j, i>> \in OpToRel(<, Nat))
  BY NatLessThanWellFounded, WFMin
<1>2. \A j \in S : ~(j < i)
  BY <1>1 DEF OpToRel
<1>3. QED BY <1>2

(* Where the reading of n answers ends: at one that ends it, or after the last. *)
Ending(i, q) == q[i].kind \in {"trap", "timeout"} \/ (q[i].kind = "answer" /\ q[i].to # i)

LEMMA ReadEnds ==
  ASSUME NEW n \in Nat \ {0}, NEW q
  PROVE  /\ Read(n, q) \in 1..n
         /\ Ending(Read(n, q), q) \/ Read(n, q) = n
<1> DEFINE ends == {i \in 1..n : Ending(i, q)}
<1>1. Read(n, q) = IF ends = {} THEN n ELSE CHOOSE i \in ends : \A j \in ends : i <= j
  BY Zenon DEF Read, Ending
<1>2. CASE ends = {}
  BY <1>1, <1>2
<1>3. CASE ends # {}
  <2>1. \E i \in ends : \A j \in ends : i <= j
    <3>1. ends \subseteq Nat
      OBVIOUS
    <3> HIDE DEF ends
    <3>2. QED BY <1>3, <3>1, LeastExists
  <2> HIDE DEF ends
  <2>2. Read(n, q) \in ends
    BY <1>1, <1>3, <2>1
  <2>3. QED BY <2>2 DEF ends
<1>4. QED BY <1>2, <1>3

(* The answers to a batch, and what is left of those that are not read. *)
LEMMA AnswersType ==
  ASSUME NEW n \in 0..MaxBatch, NEW m \in Nat, n <= m, NEW kinds \in [1..m -> Kinds]
  PROVE  Answers(n, kinds) \in Seq(Answer) /\ Len(Answers(n, kinds)) = n
<1>1. MaxBatch \in Nat
  BY BoundsAssumption
<1>2. \A i \in 1..n : [to |-> i, kind |-> kinds[i]] \in Answer
  BY <1>1 DEF Answer
<1>3. QED BY <1>1, <1>2 DEF Answers

LEMMA EarlierType ==
  ASSUME NEW q \in Seq(Answer)
  PROVE  Earlier(q) \in Seq(Answer) /\ Len(Earlier(q)) = Len(q)
<1>1. MaxBatch \in Nat
  BY BoundsAssumption
<1>2. ASSUME NEW i \in 1..Len(q) PROVE [to |-> 0, kind |-> q[i].kind] \in Answer
  <2>1. q[i] \in Answer
    BY ElementOfSeq
  <2>2. q[i].kind \in Kinds
    BY <2>1 DEF Answer
  <2>3. QED BY <1>1, <2>2 DEF Answer
<1>3. QED BY <1>2 DEF Earlier

(* The pipe after a batch: what is in it, and when there is something. *)
LEMMA PipeAfter ==
  ASSUME NEW n \in 1..MaxBatch, NEW kinds \in [1..n -> Kinds], pipe \in Seq(Answer)
  PROVE  LET q == pipe \o Answers(n, kinds)
             last == Read(n, q)
             left == Earlier(SubSeq(q, last + 1, Len(q)))
         IN  /\ left \in Seq(Answer)
             /\ ~(q[last].kind = "answer" /\ q[last].to # last) /\ q[last].kind # "timeout"
                /\ q[last].kind # "trap" /\ pipe = <<>> => left = <<>>
<1> DEFINE q == pipe \o Answers(n, kinds)
           last == Read(n, q)
           rest == SubSeq(q, last + 1, Len(q))
<1>0. n \in 0..MaxBatch /\ n \in Nat \ {0}
  BY BoundsAssumption
<1>1. /\ q \in Seq(Answer) /\ Len(q) = Len(pipe) + n
      /\ last \in 1..n /\ (Ending(last, q) \/ last = n)
  <2>1. Answers(n, kinds) \in Seq(Answer) /\ Len(Answers(n, kinds)) = n
    BY <1>0, AnswersType
  <2>2. q \in Seq(Answer) /\ Len(q) = Len(pipe) + n
    BY <2>1
  <2> HIDE DEF q
  <2>3. QED BY <1>0, <2>2, ReadEnds
<1> HIDE DEF q, last
<1>2. rest \in Seq(Answer)
  BY <1>0, <1>1
<1>3. Earlier(rest) \in Seq(Answer) /\ Len(Earlier(rest)) = Len(rest)
  BY <1>2, EarlierType
<1>4. ASSUME ~(q[last].kind = "answer" /\ q[last].to # last), q[last].kind # "timeout",
             q[last].kind # "trap", pipe = <<>>
      PROVE  Earlier(rest) = <<>>
  <2>1. last = n
    BY <1>1, <1>4 DEF Ending
  <2>2. Len(rest) = 0
    BY <1>0, <1>1, <1>4, <2>1
  <2>3. QED BY <1>3, <2>2, EmptySeq
<1>5. QED BY <1>3, <1>4 DEF q, last

-----------------------------------------------------------------------------
(* The steps of activate_directory and of rollback_deployment. *)

Activates ==
    \/ Discard \/ DiscardFails \/ Park \/ ParkFails \/ Activate
    \/ \E restores \in BOOLEAN : ActivateFails(restores)

RollsBack(t) ==
    \/ NothingToRollBack(t) \/ Prepare(t) \/ PrepareFails(t) \/ Promote(t)
    \/ Preserve(t) \/ PreserveFails(t)
    \/ \E restores \in BOOLEAN : PromoteFails(t, restores)

LEMMA RenamesCases ==
  Renames \/ ThingsFail =>
    Recorded /\ (Activates \/ \E t \in Thread : RollsBack(t) \/ Refuse(t))
  BY DEF Renames, ThingsFail, Activates, RollsBack

(* The types of the directories. *)

Places == Renaming \cup {"idle", "check", "decide", "stop", "start", "halt", "disable"}

LEMMA VersionFacts ==
  /\ NoVersion \in Slot /\ Damaged \in Slot /\ Builtin \in Slot /\ Version \subseteq Slot
  /\ \A v \in Version : v # NoVersion
  BY VersionAssumption DEF Slot

(* A thread moves: the other one stays where it is. *)
LEMMA GoesType ==
  ASSUME DeploymentTypeOK, NEW t \in Thread, NEW from, NEW to \in Places, Goes(t, from, to)
  PROVE  /\ at' \in [Thread -> Places] /\ at[t] = from /\ at'[t] = to
         /\ \A u \in Thread : u # t => at'[u] = at[u]
<1>1. at \in [Thread -> Places]
  BY DEF DeploymentTypeOK, Places
<1>2. at[t] = from /\ at' = [at EXCEPT ![t] = to]
  BY DEF Goes
<1> HIDE DEF Places
<1>3. QED BY <1>1, <1>2

(* The two threads, and where they may be. *)
LEMMA PlaceFacts ==
  /\ "command" \in Thread /\ "supervisor" \in Thread /\ "command" # "supervisor"
  /\ \A t \in Thread : t = "command" \/ t = "supervisor"
  /\ \A t \in Thread : Refused(t) \in Places /\ Refused(t) \notin Activating
  /\ Activating \subseteq Renaming /\ Renaming \subseteq Places
  /\ {"idle", "check", "decide", "stop", "start", "halt", "disable"} \subseteq Places
  BY DEF Thread, Refused, Places, Activating, Renaming

(* A thread that leaves the directories alone, between places where nothing is
   staged. *)
LEMMA MoveTypes ==
  ASSUME DeploymentTypeOK, NEW t \in Thread, NEW from, NEW to \in Places, Goes(t, from, to),
         from \notin Activating, to \notin Activating,
         {current', previous', swap'} \subseteq Slot, staging' = staging,
         works' = works, undo' \in SUBSET Thread
  PROVE  DeploymentTypeOK'
<1>1. /\ at' \in [Thread -> Places] /\ at[t] = from /\ at'[t] = to
      /\ \A u \in Thread : u # t => at'[u] = at[u]
  BY GoesType
<1>2. staging' # NoVersion <=> at'["command"] \in Activating
  BY <1>1, PlaceFacts DEF DeploymentTypeOK
<1>3. QED BY <1>1, <1>2 DEF DeploymentTypeOK, Places

LEMMA ActivationTypes ==
  DeploymentTypeOK /\ (Activates \/ \E v \in Version : Stage(v)) => DeploymentTypeOK'
<1> SUFFICES ASSUME DeploymentTypeOK, Activates \/ \E v \in Version : Stage(v)
             PROVE  DeploymentTypeOK'
  OBVIOUS
<1>0. /\ {"idle", "check"} \cap Activating = {}
      /\ {"discard", "park", "activate", "first"} = Activating
  BY DEF Activating
<1>1. PICK from \in {"idle", "discard", "park", "activate", "first"},
           to \in {"idle", "discard", "park", "activate", "first", "check"} :
         /\ Goes("command", from, to)
         /\ staging' # NoVersion <=> to \in Activating
         /\ staging' \in Slot
  <2>1. staging \in Slot /\ (staging # NoVersion <=> at["command"] \in Activating)
    BY DEF DeploymentTypeOK
  <2>2. CASE Discard
    BY <1>0, <2>1, <2>2 DEF Discard, Goes
  <2>3. CASE Park
    BY <1>0, <2>1, <2>3 DEF Park, Goes
  <2>4. CASE ParkFails
    BY <1>0, <2>4, VersionFacts DEF ParkFails
  <2>5. CASE Activate
    BY <1>0, <2>5, VersionFacts DEF Activate
  <2>6. ASSUME NEW restores \in BOOLEAN, ActivateFails(restores)
        PROVE  /\ Goes("command", "activate", "idle") \/ Goes("command", "first", "idle")
               /\ staging' = NoVersion
    BY <2>6 DEF ActivateFails
  <2>7. CASE \E v \in Version : Stage(v)
    BY <1>0, <2>7, VersionFacts DEF Stage
  <2>8. CASE DiscardFails
    BY <1>0, <2>8, VersionFacts DEF DiscardFails
  <2>9. QED
    BY <1>0, <2>2, <2>3, <2>4, <2>5, <2>6, <2>7, <2>8, VersionFacts DEF Activates
<1>2. /\ at' \in [Thread -> Places] /\ at'["command"] = to
  BY <1>1, GoesType, PlaceFacts, <1>0
<1>3. /\ {current', previous', swap'} \subseteq Slot /\ works' = works /\ undo' = undo
  BY VersionFacts
  DEF Activates, DeploymentTypeOK, Discard, DiscardFails, Park, ParkFails, Activate,
      ActivateFails, Stage
<1>4. QED BY <1>1, <1>2, <1>3 DEF DeploymentTypeOK, Places

LEMMA RollbackTypes ==
  ASSUME DeploymentTypeOK, NEW t \in Thread,
         RollsBack(t) \/ Accept(t) \/ Refuse(t) \/ BeginRollback(t)
  PROVE  DeploymentTypeOK'
<1>1. /\ {current, previous, swap, staging} \subseteq Slot /\ undo \in SUBSET Thread
      /\ undo \cup {t} \in SUBSET Thread /\ undo \ {t} \in SUBSET Thread
  BY DEF DeploymentTypeOK
<1>2. {"idle", "prepare", "promote", "preserve", "check", "decide", "stop"} \cap Activating = {}
  BY DEF Activating
<1>3. {"prepare", "promote", "preserve"} \subseteq Places
  BY DEF Places, Renaming
<1>4. CASE NothingToRollBack(t)
  BY <1>1, <1>2, <1>4, MoveTypes, PlaceFacts DEF NothingToRollBack, directories
<1>5. CASE Prepare(t)
  BY <1>1, <1>2, <1>3, <1>5, MoveTypes, VersionFacts DEF Prepare
<1>6. CASE Promote(t)
  BY <1>1, <1>2, <1>3, <1>6, MoveTypes, VersionFacts DEF Promote
<1>7. ASSUME NEW restores \in BOOLEAN, PromoteFails(t, restores) PROVE DeploymentTypeOK'
  BY <1>1, <1>2, <1>7, MoveTypes, PlaceFacts, VersionFacts DEF PromoteFails
<1>8. CASE Preserve(t)
  BY <1>1, <1>2, <1>8, MoveTypes, PlaceFacts, VersionFacts DEF Preserve
<1>81. CASE PrepareFails(t)
  BY <1>1, <1>2, <1>81, MoveTypes, PlaceFacts, VersionFacts DEF PrepareFails
<1>82. CASE PreserveFails(t)
  BY <1>1, <1>2, <1>82, MoveTypes, PlaceFacts DEF PreserveFails, directories
<1>9. CASE Accept(t)
  BY <1>1, <1>2, <1>9, MoveTypes, PlaceFacts DEF Accept, directories
<1>10. CASE Refuse(t)
  BY <1>1, <1>2, <1>3, <1>10, MoveTypes, PlaceFacts DEF Refuse, directories
<1>11. CASE BeginRollback(t)
  BY <1>1, <1>2, <1>3, <1>11, MoveTypes, PlaceFacts DEF BeginRollback, directories
<1>12. QED
  BY <1>4, <1>5, <1>6, <1>7, <1>8, <1>81, <1>82, <1>9, <1>10, <1>11 DEF RollsBack

-----------------------------------------------------------------------------
(* The inductive invariant. *)

(* The Boolean variables. *)
BoolOK ==
    /\ enabled \in BOOLEAN /\ cooling \in BOOLEAN /\ switching \in BOOLEAN
    /\ rolledBack \in BOOLEAN /\ oversized \in BOOLEAN /\ crossed \in BOOLEAN
    /\ refused \in BOOLEAN /\ mixed \in BOOLEAN /\ stranded \in BOOLEAN

(* The controller; nothing waits in the pipe but what an oversized request left. *)
ControllerOK ==
    /\ state \in {"Stopped", "Running", "Failed"}
    /\ running \in Slot /\ pipe \in Seq(Answer)
    /\ (running # NoVersion => state = "Running") /\ (running = NoVersion => pipe = <<>>)

(* The threads; one that has an event to send has one of the two. *)
ThreadsOK ==
    /\ pc \in [Caller -> {"idle", "look", "start", "ask", "emit"}]
    /\ verdict \in [Caller -> {"none", "failed", "success"}]
    /\ starter \in {"idle", "check", "start"}
    /\ \A c \in Caller : pc[c] = "emit" => verdict[c] # "none"

SupervisorOK == crashRx \in Seq({"failed", "success"}) /\ window \in 0..(Threshold - 1)

BoundsOK == events \in 0..MaxEvents /\ mishaps \in 0..MaxMishaps

Typed == DeploymentTypeOK /\ BoolOK /\ ControllerOK /\ ThreadsOK /\ SupervisorOK /\ BoundsOK

LEMMA TypedIsTypeOK == Typed => TypeOK
<1> SUFFICES ASSUME Typed PROVE TypeOK
  OBVIOUS
<1>1. {oversized, crossed, refused, mixed, stranded} \subseteq BOOLEAN
  BY Zenon DEF Typed, BoolOK
<1>2. enabled \in BOOLEAN /\ cooling \in BOOLEAN /\ switching \in BOOLEAN /\ rolledBack \in BOOLEAN
  BY Zenon DEF Typed, BoolOK
<1>3. QED BY <1>1, <1>2, Zenon DEF Typed, ControllerOK, ThreadsOK, SupervisorOK, BoundsOK, TypeOK

LEMMA InitTyped == Init => Typed
<1> SUFFICES ASSUME Init PROVE Typed
  OBVIOUS
<1>1. DeploymentTypeOK
  <2>1. at \in [Thread -> Places] /\ at["command"] = "idle"
    BY PlaceFacts DEF Init, DeploymentInit
  <2>2. "idle" \notin Activating
    BY DEF Activating
  <2>3. QED BY <2>1, <2>2, VersionFacts DEF Init, DeploymentInit, DeploymentTypeOK, Places
<1>2. BoolOK
  BY Zenon DEF Init, BoolOK
<1>3. ControllerOK
  BY VersionFacts, EmptySeq DEF Init, ControllerOK
<1>4. ThreadsOK
  BY DEF Init, ThreadsOK
<1>5. SupervisorOK
  BY ThresholdAssumption, EmptySeq DEF Init, SupervisorOK
<1>6. BoundsOK
  BY BoundsAssumption DEF Init, BoundsOK
<1>7. QED BY <1>1, <1>2, <1>3, <1>4, <1>5, <1>6 DEF Typed

(* How a batch ends. *)
LEMMA AskCases ==
  ASSUME NEW c \in Caller, NEW n \in 1..MaxBatch, NEW kinds \in [1..n -> Kinds],
         Ask(c, n, kinds)
  PROVE  LET q == pipe \o Answers(n, kinds)
             last == Read(n, q)
         IN  \/ MarkFailed /\ verdict' = verdict /\ Moves(c, "ask", "idle")
             \/ Discarded /\ verdict' = verdict /\ Moves(c, "ask", "idle")
             \/ /\ Discarded /\ Moves(c, "ask", "emit")
                /\ verdict' = [verdict EXCEPT ![c] = "failed"]
             \/ /\ ~(q[last].kind = "answer" /\ q[last].to # last)
                /\ q[last].kind # "timeout" /\ q[last].kind # "trap"
                /\ pipe' = Earlier(SubSeq(q, last + 1, Len(q)))
                /\ UNCHANGED <<state, cooling, running, oversized, refused, crashRx>>
                /\ \/ verdict' = [verdict EXCEPT ![c] = "failed"]
                   \/ verdict' = [verdict EXCEPT ![c] = "success"]
                /\ Moves(c, "ask", "emit")
<1> DEFINE q == pipe \o Answers(n, kinds)
           last == Read(n, q)
           wrong == q[last].kind = "answer" /\ q[last].to # last
           bug == \E i \in 1..last : q[i].kind = "bug"
<1>1. (CASE wrong -> MarkFailed /\ UNCHANGED verdict /\ Moves(c, "ask", "idle")
         [] q[last].kind = "timeout" ->
               Discarded /\ UNCHANGED verdict /\ Moves(c, "ask", "idle")
         [] q[last].kind = "trap" -> Discarded /\ verdict' = [verdict EXCEPT ![c] = "failed"]
                                               /\ Moves(c, "ask", "emit")
         [] OTHER ->
               /\ pipe' = Earlier(SubSeq(q, last + 1, Len(q)))
               /\ verdict' = [verdict EXCEPT ![c] = IF bug THEN "failed" ELSE "success"]
               /\ UNCHANGED <<state, cooling, running, oversized, refused, crashRx>>
               /\ Moves(c, "ask", "emit"))
  BY DEF Ask
<1>2. wrong => q[last].kind = "answer"
  OBVIOUS
<1> HIDE DEF wrong, bug, last, q
<1>3. \/ wrong /\ MarkFailed /\ UNCHANGED verdict /\ Moves(c, "ask", "idle")
      \/ Discarded /\ UNCHANGED verdict /\ Moves(c, "ask", "idle")
      \/ Discarded /\ verdict' = [verdict EXCEPT ![c] = "failed"] /\ Moves(c, "ask", "emit")
      \/ /\ ~wrong /\ q[last].kind # "timeout" /\ q[last].kind # "trap"
         /\ pipe' = Earlier(SubSeq(q, last + 1, Len(q)))
         /\ verdict' = [verdict EXCEPT ![c] = IF bug THEN "failed" ELSE "success"]
         /\ UNCHANGED <<state, cooling, running, oversized, refused, crashRx>>
         /\ Moves(c, "ask", "emit")
  BY <1>1, <1>2
<1>4. QED BY <1>3 DEF wrong, last, q

(* What no call for a prediction touches. *)
LEMMA CallFrame ==
  ASSUME NEW c \in Caller, Call(c)
  PROVE  UNCHANGED <<deployment, enabled, starter, switching, window, rolledBack, history>>
<1>1. CASE \E n \in 1..MaxBatch : \E kinds \in [1..n -> Kinds] : Ask(c, n, kinds)
  BY <1>1 DEF Ask
<1>2. CASE Consider(c) \/ Look(c) \/ TooLate(c) \/ Emit(c)
  BY <1>2 DEF Consider, Look, TooLate, Emit, supervisor
<1>3. CASE StartFor(c) \/ AskInVain(c) \/ \E k \in 1..MaxBatch : AskTooMuch(c, k)
  BY <1>3 DEF StartFor, AskInVain, AskTooMuch, supervisor
<1>4. QED BY <1>1, <1>2, <1>3 DEF Call

(* Every step of a thread, sorted by what it does to the directories. *)
LEMMA DeploymentStep == DeploymentTypeOK /\ [Next]_vars => DeploymentTypeOK'
<1> SUFFICES ASSUME DeploymentTypeOK, [Next]_vars PROVE DeploymentTypeOK'
  OBVIOUS
<1>0. ASSUME UNCHANGED deployment PROVE DeploymentTypeOK'
  BY <1>0 DEF deployment, directories, DeploymentTypeOK
<1>1. CASE \E c \in Caller : Call(c)
  <2>1. UNCHANGED deployment
    BY <1>1, CallFrame
  <2>2. QED BY <2>1, <1>0
<1>2. CASE Renames \/ ThingsFail
  BY <1>2, RenamesCases, ActivationTypes, RollbackTypes
<1>3. CASE Validates
  BY <1>3, RollbackTypes DEF Validates
<1>5. CASE InstallOrRollBack
  BY <1>5, ActivationTypes, RollbackTypes, PlaceFacts DEF InstallOrRollBack
<1>6. CASE Receive
  <2>1. UNCHANGED deployment \/ BeginRollback("supervisor")
    BY <1>6 DEF Receive
  <2>2. QED BY <2>1, <1>0, RollbackTypes, PlaceFacts
<1>7. CASE Decide \/ Disable \/ \E t \in Thread : Restarts(t) \/ Halts(t)
  <2>1. PICK t \in Thread, from \in {"decide", "disable", "stop", "start", "halt"},
             to \in {"stop", "halt", "start", "idle"} :
          /\ Goes(t, from, to) /\ UNCHANGED <<directories, works, undo>>
    BY <1>7, PlaceFacts DEF Decide, Disable, Restarts, Halts
  <2>2. /\ from \notin Activating /\ to \notin Activating /\ to \in Places
    BY DEF Activating, Places
  <2>3. QED BY <2>1, <2>2, MoveTypes DEF DeploymentTypeOK, directories
<1>8. CASE Restart
  <2>1. at' \in [Thread -> Places] /\ at'["command"] = "idle" /\ "idle" \notin Activating
    BY <1>8, PlaceFacts DEF Restart, LoseProcess, Activating
  <2>2. QED BY <1>8, <2>1, VersionFacts DEF Restart, LoseProcess, DeploymentTypeOK, Places
<1>9. CASE StopForSwitch \/ StarterChecks \/ StarterStarts \/ CooldownEnds \/ SwitchOn
           \/ SwitchOff \/ FailureAges
  BY <1>0, <1>9
  DEF StopForSwitch, StarterChecks, StarterStarts, CooldownEnds, SwitchOn, SwitchOff, FailureAges
<1>10. CASE UNCHANGED vars
  BY <1>0, <1>10 DEF vars
<1>11. QED
  BY <1>1, <1>2, <1>3, <1>5, <1>6, <1>7, <1>8, <1>9, <1>10, Zenon DEF Next, Manage

(* The three ways in which the controller is emptied. *)
Emptied ==
    /\ running' = NoVersion /\ pipe' = <<>> /\ oversized' = FALSE /\ refused' = FALSE
    /\ state' \in {"Stopped", "Running", "Failed"}
    /\ cooling' = cooling \/ cooling' = TRUE \/ cooling' = FALSE

LEMMA EmptiedCases == Stop \/ MarkFailed \/ Discarded => Emptied
  BY DEF Stop, MarkFailed, Discarded, Emptied

(* What a step does to the controller, whoever takes it. *)
LEMMA ControllerCases ==
  ASSUME [Next]_vars
  PROVE  \/ UNCHANGED sidecar
         \/ Emptied
         \/ StartOk
         \/ /\ ~Alive /\ state' = "Failed" /\ cooling' = TRUE
            /\ UNCHANGED <<running, pipe, oversized, refused>>
         \/ cooling' = FALSE /\ UNCHANGED <<state, running, pipe, oversized, refused>>
         \/ \E n \in 1..MaxBatch : \E kinds \in [1..n -> Kinds] :
               LET q == pipe \o Answers(n, kinds)
                   last == Read(n, q)
               IN  /\ running # NoVersion
                   /\ ~(q[last].kind = "answer" /\ q[last].to # last)
                   /\ q[last].kind # "timeout" /\ q[last].kind # "trap"
                   /\ pipe' = Earlier(SubSeq(q, last + 1, Len(q)))
                   /\ UNCHANGED <<state, cooling, running, oversized, refused>>
         \/ \E k \in 1..MaxBatch :
               /\ running # NoVersion /\ oversized' = TRUE
               /\ pipe' = pipe \o Earlier(Answers(k - 1, [i \in 1..k |-> "answer"]))
               /\ UNCHANGED <<state, cooling, running, refused>>
<1>1. CASE \E c \in Caller : Call(c)
  <2>1. PICK c \in Caller : Call(c)
    BY <1>1
  <2>2. CASE Consider(c) \/ Look(c) \/ TooLate(c) \/ Emit(c)
    BY <2>2 DEF Consider, Look, TooLate, Emit, controller
  <2>3. CASE StartFor(c)
    BY <2>3 DEF StartFor, StartFails
  <2>4. CASE AskInVain(c)
    BY <2>4, EmptiedCases DEF AskInVain
  <2>5. CASE \E k \in 1..MaxBatch : AskTooMuch(c, k)
    BY <2>5 DEF AskTooMuch
  <2>6. CASE \E n \in 1..MaxBatch : \E kinds \in [1..n -> Kinds] : Ask(c, n, kinds)
    <3>1. PICK n \in 1..MaxBatch : \E kinds \in [1..n -> Kinds] : Ask(c, n, kinds)
      BY <2>6
    <3>2. PICK kinds \in [1..n -> Kinds] : Ask(c, n, kinds)
      BY <3>1
    <3>3. running # NoVersion
      BY <3>2 DEF Ask
    <3>4. QED BY <3>2, <3>3, AskCases, EmptiedCases
  <2>7. QED BY <2>1, <2>2, <2>3, <2>4, <2>5, <2>6 DEF Call
<1>2. CASE Renames \/ ThingsFail
  BY <1>2 DEF Renames, ThingsFail, Recorded
<1>3. CASE Validates \/ Decide \/ Disable \/ Receive \/ StarterChecks \/ SwitchOn \/ SwitchOff
           \/ InstallOrRollBack \/ FailureAges
  BY <1>3 DEF Validates, Decide, Disable, Receive, StarterChecks, SwitchOn, SwitchOff,
              InstallOrRollBack, FailureAges, controller
<1>4. CASE \E t \in Thread : Restarts(t) \/ Halts(t)
  BY <1>4, EmptiedCases DEF Restarts, Halts, Start, StartFails
<1>5. CASE StopForSwitch \/ Restart
  BY <1>5, EmptiedCases DEF StopForSwitch, Restart
<1>6. CASE StarterStarts
  BY <1>6 DEF StarterStarts, Start, StartFails
<1>7. CASE CooldownEnds
  BY <1>7 DEF CooldownEnds
<1>8. CASE UNCHANGED vars
  BY <1>8 DEF vars, controller
<1>9. QED BY <1>1, <1>2, <1>3, <1>4, <1>5, <1>6, <1>7, <1>8, Zenon DEF Next, Manage

LEMMA ControllerStep ==
  DeploymentTypeOK /\ ControllerOK /\ [Next]_vars => ControllerOK'
<1> SUFFICES ASSUME DeploymentTypeOK, ControllerOK, [Next]_vars PROVE ControllerOK'
  OBVIOUS
<1>1. CASE UNCHANGED sidecar
  BY <1>1 DEF sidecar, ControllerOK
<1>2. CASE Emptied
  BY <1>2, VersionFacts, EmptySeq DEF Emptied, ControllerOK
<1>3. CASE StartOk
  <2>1. CASE UNCHANGED controller
    BY <2>1 DEF controller, sidecar, ControllerOK
  <2>2. CASE Resolve \in works /\ running' = Resolve /\ state' = "Running" /\ pipe' = <<>>
    <3>1. Resolve \in Version
      BY <2>2 DEF DeploymentTypeOK
    <3>2. QED BY <2>2, <3>1, VersionFacts, EmptySeq DEF ControllerOK
  <2>3. QED BY <1>3, <2>1, <2>2 DEF StartOk
<1>4. CASE /\ ~Alive /\ state' = "Failed" /\ cooling' = TRUE
           /\ UNCHANGED <<running, pipe, oversized, refused>>
  BY <1>4 DEF Alive, ControllerOK
<1>5. CASE cooling' = FALSE /\ UNCHANGED <<state, running, pipe, oversized, refused>>
  BY <1>5 DEF ControllerOK
<1>6. ASSUME NEW n \in 1..MaxBatch, NEW kinds \in [1..n -> Kinds], running # NoVersion,
             LET q == pipe \o Answers(n, kinds)
             IN  pipe' = Earlier(SubSeq(q, Read(n, q) + 1, Len(q))),
             UNCHANGED <<state, running>>
      PROVE  ControllerOK'
  <2>1. pipe' \in Seq(Answer)
    BY <1>6, PipeAfter DEF ControllerOK
  <2>2. QED BY <1>6, <2>1 DEF ControllerOK
<1>7. ASSUME NEW k \in 1..MaxBatch, running # NoVersion, UNCHANGED <<state, running>>,
             pipe' = pipe \o Earlier(Answers(k - 1, [i \in 1..k |-> "answer"]))
      PROVE  ControllerOK'
  <2>1. k - 1 \in 0..MaxBatch /\ k \in Nat /\ k - 1 <= k
    BY BoundsAssumption
  <2>2. [i \in 1..k |-> "answer"] \in [1..k -> Kinds]
    BY DEF Kinds
  <2>3. Earlier(Answers(k - 1, [i \in 1..k |-> "answer"])) \in Seq(Answer)
    BY <2>1, <2>2, AnswersType, EarlierType
  <2>4. pipe' \in Seq(Answer)
    BY <1>7, <2>3 DEF ControllerOK
  <2>5. QED BY <1>7, <2>4 DEF ControllerOK
<1>8. QED BY <1>1, <1>2, <1>3, <1>4, <1>5, <1>6, <1>7, ControllerCases

(* The Boolean variables of the controller, and the other ones. *)
LEMMA SidecarBools == BoolOK /\ [Next]_vars => cooling' \in BOOLEAN /\ oversized' \in BOOLEAN
<1> SUFFICES ASSUME BoolOK, [Next]_vars PROVE cooling' \in BOOLEAN /\ oversized' \in BOOLEAN
  OBVIOUS
<1>1. cooling' \in {cooling, TRUE, FALSE} /\ oversized' \in {oversized, TRUE, FALSE}
  BY ControllerCases DEF sidecar, Emptied, StartOk, controller
<1>2. cooling \in BOOLEAN /\ oversized \in BOOLEAN
  BY Zenon DEF BoolOK
<1>3. QED BY <1>1, <1>2

LEMMA HistoryBools ==
  BoolOK /\ [Next]_vars => /\ crossed' \in BOOLEAN /\ refused' \in BOOLEAN
                           /\ mixed' \in BOOLEAN /\ stranded' \in BOOLEAN
<1> SUFFICES ASSUME BoolOK, [Next]_vars
             PROVE  /\ crossed' \in BOOLEAN /\ refused' \in BOOLEAN
                    /\ mixed' \in BOOLEAN /\ stranded' \in BOOLEAN
  OBVIOUS
<1>0. crossed \in BOOLEAN /\ refused \in BOOLEAN /\ mixed \in BOOLEAN /\ stranded \in BOOLEAN
  BY Zenon DEF BoolOK
<1>1. \/ UNCHANGED history
      \/ crossed' = (crossed \/ enabled) /\ UNCHANGED <<mixed, stranded>>
      \/ Recorded
      \/ mixed' = FALSE /\ stranded' = FALSE /\ UNCHANGED crossed
  BY CallFrame DEF Next, Manage, Renames, ThingsFail, Validates, Decide, Disable,
     Receive, StarterChecks, SwitchOn, SwitchOff, InstallOrRollBack, FailureAges, Restarts,
     Halts, StopForSwitch, Restart, StarterStarts, CooldownEnds, vars, history
<1>2. \/ UNCHANGED refused
      \/ refused' = FALSE
      \/ Recorded
  <2>1. CASE \E c \in Caller : Call(c)
    <3>1. PICK c \in Caller : Call(c)
      BY <2>1
    <3>2. CASE \E n \in 1..MaxBatch : \E kinds \in [1..n -> Kinds] : Ask(c, n, kinds)
      BY <3>2, AskCases DEF MarkFailed, Discarded
    <3>3. CASE \/ Consider(c) \/ Look(c) \/ StartFor(c) \/ TooLate(c) \/ Emit(c)
               \/ AskInVain(c) \/ \E k \in 1..MaxBatch : AskTooMuch(c, k)
      BY <3>3 DEF Consider, Look, StartFor, TooLate, Emit, AskInVain, AskTooMuch, StartOk,
                  StartFails, MarkFailed, controller
    <3>4. QED BY <3>1, <3>2, <3>3 DEF Call
  <2>2. QED
    BY <2>1 DEF Next, Manage, Renames, ThingsFail, Validates, Decide, Disable,
       Receive, StarterChecks, SwitchOn, SwitchOff, InstallOrRollBack, FailureAges, Restarts,
       Halts, StopForSwitch, Restart, StarterStarts, CooldownEnds, vars, controller, Stop,
       Start, StartOk, StartFails
<1>3. refused' \in BOOLEAN
  BY <1>0, <1>2 DEF Recorded
<1>4. crossed' \in BOOLEAN /\ mixed' \in BOOLEAN /\ stranded' \in BOOLEAN
  BY <1>0, <1>1 DEF history, Recorded
<1>5. QED BY <1>3, <1>4

LEMMA BoolStep == BoolOK /\ [Next]_vars => BoolOK'
<1> SUFFICES ASSUME BoolOK, [Next]_vars PROVE BoolOK'
  OBVIOUS
<1>1. enabled \in BOOLEAN /\ switching \in BOOLEAN /\ rolledBack \in BOOLEAN
  BY Zenon DEF BoolOK
<1>2. \/ UNCHANGED enabled
      \/ enabled' = TRUE \/ enabled' = FALSE
  BY CallFrame DEF Next, Manage, Renames, ThingsFail, Recorded, Validates, Decide, Disable,
     Receive, StarterChecks, SwitchOn, SwitchOff, InstallOrRollBack, FailureAges, Restarts,
     Halts, StopForSwitch, Restart, StarterStarts, CooldownEnds, vars
<1>3. \/ UNCHANGED switching
      \/ switching' = TRUE \/ switching' = FALSE
  BY CallFrame DEF Next, Manage, Renames, ThingsFail, Recorded, Validates, Decide, Disable,
     Receive, StarterChecks, SwitchOn, SwitchOff, InstallOrRollBack, FailureAges, Restarts,
     Halts, StopForSwitch, Restart, StarterStarts, CooldownEnds, vars, threads
<1>4. \/ UNCHANGED rolledBack
      \/ rolledBack' = TRUE \/ rolledBack' = FALSE
  BY CallFrame DEF Next, Manage, Renames, ThingsFail, Recorded, Validates, Decide, Disable,
     Receive, StarterChecks, SwitchOn, SwitchOff, InstallOrRollBack, FailureAges, Restarts,
     Halts, StopForSwitch, Restart, StarterStarts, CooldownEnds, vars, supervisor
<1>5. enabled' \in BOOLEAN /\ switching' \in BOOLEAN /\ rolledBack' \in BOOLEAN
  BY <1>1, <1>2, <1>3, <1>4
<1>6. QED BY <1>5, SidecarBools, HistoryBools, Zenon DEF BoolOK

(* A caller moves; one that comes to have an event to send has its verdict. *)
LEMMA MovesKeep ==
  ASSUME ThreadsOK, NEW c \in Caller, NEW from,
         NEW to \in {"idle", "look", "start", "ask", "emit"}, Moves(c, from, to),
         NEW w \in {"none", "failed", "success"},
         verdict' = verdict \/ verdict' = [verdict EXCEPT ![c] = w],
         to = "emit" => verdict' = [verdict EXCEPT ![c] = w] /\ w # "none",
         UNCHANGED starter
  PROVE  ThreadsOK'
<1>1. /\ pc' \in [Caller -> {"idle", "look", "start", "ask", "emit"}] /\ pc'[c] = to
      /\ \A d \in Caller : d # c => pc'[d] = pc[d]
  BY DEF ThreadsOK, Moves
<1>2. /\ verdict' \in [Caller -> {"none", "failed", "success"}]
      /\ \A d \in Caller : d # c => verdict'[d] = verdict[d]
      /\ to = "emit" => verdict'[c] # "none"
  BY DEF ThreadsOK
<1>3. QED BY <1>1, <1>2 DEF ThreadsOK

LEMMA CallThreads == ASSUME ThreadsOK, NEW c \in Caller, Call(c) PROVE ThreadsOK'
<1>0. UNCHANGED starter
  BY CallFrame
<1>1. CASE Consider(c) \/ Look(c) \/ StartFor(c) \/ TooLate(c) \/ AskInVain(c)
           \/ \E k \in 1..MaxBatch : AskTooMuch(c, k)
  <2>1. PICK from \in {"idle", "look", "start", "ask"}, to \in {"idle", "look", "start", "ask"} :
           Moves(c, from, to) /\ verdict' = verdict
    BY <1>1 DEF Consider, Look, StartFor, TooLate, AskInVain, AskTooMuch
  <2>2. QED BY <1>0, <2>1, MovesKeep
<1>2. CASE Emit(c)
  BY <1>0, <1>2, MovesKeep DEF Emit
<1>3. CASE \E n \in 1..MaxBatch : \E kinds \in [1..n -> Kinds] : Ask(c, n, kinds)
  <2>1. \/ verdict' = verdict /\ Moves(c, "ask", "idle")
        \/ verdict' = [verdict EXCEPT ![c] = "failed"] /\ Moves(c, "ask", "emit")
        \/ verdict' = [verdict EXCEPT ![c] = "success"] /\ Moves(c, "ask", "emit")
    BY <1>3, AskCases
  <2>2. QED BY <1>0, <2>1, MovesKeep
<1>4. QED BY <1>1, <1>2, <1>3 DEF Call

LEMMA ThreadsStep == ThreadsOK /\ [Next]_vars => ThreadsOK'
<1> SUFFICES ASSUME ThreadsOK, [Next]_vars PROVE ThreadsOK'
  OBVIOUS
<1>1. CASE \E c \in Caller : Call(c)
  BY <1>1, CallThreads
<1>2. CASE Restart
  BY <1>2 DEF Restart, ThreadsOK
<1>3. CASE StarterChecks \/ StarterStarts \/ SwitchOn
  BY <1>3 DEF StarterChecks, StarterStarts, SwitchOn, ThreadsOK
<1>4. CASE Manage \/ Receive \/ StopForSwitch \/ CooldownEnds \/ SwitchOff
           \/ InstallOrRollBack \/ FailureAges \/ ThingsFail \/ UNCHANGED vars
  <2>1. UNCHANGED <<pc, verdict, starter>>
    BY <1>4 DEF Manage, Renames, ThingsFail, Recorded, Validates, Decide, Disable, Receive,
       SwitchOff, InstallOrRollBack, FailureAges, Restarts, Halts, StopForSwitch,
       CooldownEnds, vars, threads
  <2>2. QED BY <2>1 DEF ThreadsOK
<1>5. QED BY <1>1, <1>2, <1>3, <1>4, Zenon DEF Next

(* The supervisor's channel and its count. *)
LEMMA SupervisorStep == ThreadsOK /\ SupervisorOK /\ [Next]_vars => SupervisorOK'
<1> SUFFICES ASSUME ThreadsOK, SupervisorOK, [Next]_vars PROVE SupervisorOK'
  OBVIOUS
<1>0. Threshold \in Nat \ {0}
  BY ThresholdAssumption
<1>1. ASSUME NEW w \in {"failed", "success"},
             crashRx' = crashRx \/ crashRx' = Append(crashRx, w), UNCHANGED window
      PROVE  SupervisorOK'
  BY <1>1 DEF SupervisorOK
<1>2. CASE \E c \in Caller : Call(c)
  <2>1. PICK c \in Caller : Call(c)
    BY <1>2
  <2>2. UNCHANGED window
    BY <2>1, CallFrame
  <2>3. CASE Emit(c)
    <3>1. verdict[c] \in {"failed", "success"} /\ crashRx' = Append(crashRx, verdict[c])
      BY <2>3 DEF Emit, Moves, ThreadsOK
    <3>2. QED BY <1>1, <2>2, <3>1
  <2>4. CASE Consider(c) \/ Look(c) \/ StartFor(c) \/ TooLate(c) \/ AskInVain(c)
             \/ \E k \in 1..MaxBatch : AskTooMuch(c, k)
    <3>1. crashRx' = crashRx \/ crashRx' = Append(crashRx, "failed")
      BY <2>4 DEF Consider, Look, StartFor, TooLate, AskInVain, AskTooMuch, StartOk,
                  StartFails, MarkFailed, supervisor
    <3>2. QED BY <1>1, <2>2, <3>1
  <2>5. CASE \E n \in 1..MaxBatch : \E kinds \in [1..n -> Kinds] : Ask(c, n, kinds)
    <3>1. crashRx' = crashRx \/ crashRx' = Append(crashRx, "failed")
      BY <2>5, AskCases DEF MarkFailed, Discarded
    <3>2. QED BY <1>1, <2>2, <3>1
  <2>6. QED BY <2>1, <2>3, <2>4, <2>5 DEF Call
<1>3. CASE \E t \in Thread : Restarts(t)
  <2>1. UNCHANGED window /\ (crashRx' = crashRx \/ crashRx' = Append(crashRx, "failed"))
    BY <1>3 DEF Restarts, Start, StartOk, StartFails
  <2>2. QED BY <1>1, <2>1
<1>4. CASE StarterStarts
  <2>1. UNCHANGED window /\ (crashRx' = crashRx \/ crashRx' = Append(crashRx, "failed"))
    BY <1>4 DEF StarterStarts, Start, StartOk, StartFails
  <2>2. QED BY <1>1, <2>1
<1>5. CASE Receive
  <2>1. crashRx' \in Seq({"failed", "success"})
    BY <1>5 DEF Receive, SupervisorOK
  <2>2. window' = 0 \/ (window' = window + 1 /\ ~(window + 1 >= Threshold))
        \/ (\/ window' = window + 1 /\ Head(crashRx) = "failed" /\ ~rolledBack
               /\ window + 1 < Threshold)
    BY <1>0, <1>5 DEF Receive, SupervisorOK
  <2>3. QED BY <1>0, <2>1, <2>2 DEF SupervisorOK
<1>6. CASE FailureAges
  BY <1>0, <1>6 DEF FailureAges, SupervisorOK
<1>7. CASE Restart
  BY <1>0, <1>7, EmptySeq DEF Restart, SupervisorOK
<1>8. CASE Renames \/ Validates \/ Decide \/ Disable \/ (\E t \in Thread : Halts(t))
           \/ StopForSwitch \/ StarterChecks \/ CooldownEnds \/ SwitchOn \/ SwitchOff
           \/ InstallOrRollBack \/ ThingsFail \/ UNCHANGED vars
  <2>1. UNCHANGED <<crashRx, window>>
    BY <1>8 DEF Renames, ThingsFail, Recorded, Validates, Decide, Disable, StarterChecks,
       SwitchOn, SwitchOff, InstallOrRollBack, Halts, StopForSwitch, CooldownEnds, vars,
       supervisor
  <2>2. QED BY <2>1 DEF SupervisorOK
<1>9. QED BY <1>2, <1>3, <1>4, <1>5, <1>6, <1>7, <1>8, Zenon DEF Next, Manage

LEMMA BoundsStep == BoundsOK /\ [Next]_vars => BoundsOK'
<1> SUFFICES ASSUME BoundsOK, [Next]_vars PROVE BoundsOK'
  OBVIOUS
<1>1. MaxEvents \in Nat /\ MaxMishaps \in Nat
  BY BoundsAssumption
<1>2. UNCHANGED bounds \/ Happens \/ Mishap
  <2>1. CASE \E c \in Caller : Call(c)
    <3>1. PICK c \in Caller : Call(c)
      BY <2>1
    <3>2. CASE Consider(c) \/ Look(c) \/ TooLate(c) \/ Emit(c)
      BY <3>2 DEF Consider, Look, TooLate, Emit
    <3>3. CASE StartFor(c) \/ AskInVain(c) \/ \E k \in 1..MaxBatch : AskTooMuch(c, k)
      BY <3>3 DEF StartFor, AskInVain, AskTooMuch, StartOk, StartFails
    <3>4. CASE \E n \in 1..MaxBatch : \E kinds \in [1..n -> Kinds] : Ask(c, n, kinds)
      BY <3>4, Zenon DEF Ask
    <3>5. QED BY <3>1, <3>2, <3>3, <3>4 DEF Call
  <2>2. CASE Manage
    BY <2>2 DEF Manage, Renames, Validates, Decide, Disable, Restarts, Halts, Start, StartOk,
                StartFails, bounds
  <2>3. CASE Receive \/ StopForSwitch \/ StarterChecks \/ StarterStarts \/ CooldownEnds
             \/ SwitchOn \/ SwitchOff \/ InstallOrRollBack \/ FailureAges \/ ThingsFail
             \/ Restart \/ UNCHANGED vars
    BY <2>3 DEF Receive, StopForSwitch, StarterChecks, StarterStarts, CooldownEnds, SwitchOn,
                SwitchOff, InstallOrRollBack, FailureAges, ThingsFail, Restart, Start,
                StartOk, StartFails, vars, bounds
  <2>4. QED BY <2>1, <2>2, <2>3, Zenon DEF Next
<1>3. QED BY <1>1, <1>2 DEF bounds, Happens, Mishap, BoundsOK

LEMMA TypedStep == Typed /\ [Next]_vars => Typed'
<1> SUFFICES ASSUME Typed, [Next]_vars PROVE Typed'
  OBVIOUS
<1>1. /\ DeploymentTypeOK /\ BoolOK /\ ControllerOK /\ ThreadsOK /\ SupervisorOK /\ BoundsOK
  BY DEF Typed
<1>2. QED
  BY <1>1, DeploymentStep, BoolStep, ControllerStep, ThreadsStep, SupervisorStep, BoundsStep
  DEF Typed

LEMMA AlwaysTyped == Spec => []Typed
<1>1. Init => Typed
  BY InitTyped
<1>2. Typed /\ [Next]_vars => Typed'
  BY TypedStep
<1>3. QED BY <1>1, <1>2, PTL DEF Spec

(* Type correctness, for every constant: there is a sidecar only while
   the controller is Running, what waits in the pipe are answers, the count of
   failures stays below the threshold, and a staging directory exists only
   between the steps of an activation. *)
THEOREM TypeCorrect == Spec => []TypeOK
<1>1. Typed => TypeOK
  BY TypedIsTypeOK
<1>2. QED BY <1>1, AlwaysTyped, PTL

-----------------------------------------------------------------------------
(* The empty pipe. *)

LEMMA DrainsStep ==
  ControllerOK /\ DrainsItsAnswers /\ [Next]_vars => DrainsItsAnswers'
<1> SUFFICES ASSUME ControllerOK, DrainsItsAnswers, [Next]_vars, pipe' # <<>> PROVE oversized'
  BY DEF DrainsItsAnswers
<1>1. CASE UNCHANGED <<pipe, oversized>>
  BY <1>1 DEF DrainsItsAnswers
<1>2. CASE StartOk
  BY <1>1, <1>2 DEF StartOk, controller, sidecar
<1>3. ASSUME NEW n \in 1..MaxBatch, NEW kinds \in [1..n -> Kinds],
             LET q == pipe \o Answers(n, kinds)
                 last == Read(n, q)
             IN  /\ ~(q[last].kind = "answer" /\ q[last].to # last)
                 /\ q[last].kind # "timeout" /\ q[last].kind # "trap"
                 /\ pipe' = Earlier(SubSeq(q, last + 1, Len(q))),
             UNCHANGED oversized
      PROVE  oversized'
  <2>1. pipe # <<>>
    BY <1>3, PipeAfter DEF ControllerOK
  <2>2. QED BY <1>3, <2>1 DEF DrainsItsAnswers
<1>4. QED BY <1>1, <1>2, <1>3, ControllerCases DEF sidecar, Emptied

(* Outside of a prediction no answer waits in the pipe, whatever the size of a
   batch, the number of callers, and the order of their batches, failures,
   restarts and stops; only a request too long to be sent leaves some. *)
THEOREM PipeIsDrained == Spec => []DrainsItsAnswers
<1>1. Init => DrainsItsAnswers
  BY DEF Init, DrainsItsAnswers
<1>2. Typed /\ DrainsItsAnswers /\ [Next]_vars => DrainsItsAnswers'
  BY DrainsStep DEF Typed
<1>3. QED BY <1>1, <1>2, AlwaysTyped, PTL DEF Spec

-----------------------------------------------------------------------------
(* The deployment that runs. *)

(* A sidecar of another deployment than the installed one is still to be
   stopped by a thread that has replaced the directories. *)
Settled == {"idle", "start"}
StaleIsStopped ==
    running # NoVersion /\ ~refused /\ running # Resolve
        => \E t \in Thread : at[t] \notin Settled

LEMMA StaleKept ==
  ASSUME StaleIsStopped,
         \/ running' = NoVersion
         \/ running' = Resolve /\ UNCHANGED current
         \/ refused'
         \/ \E t \in Thread : at'[t] \notin Settled
         \/ /\ UNCHANGED <<current, running, refused>>
            /\ \A t \in Thread : at[t] \notin Settled => at'[t] \notin Settled
  PROVE  StaleIsStopped'
  BY DEF StaleIsStopped, Resolve

LEMMA CallStale == ASSUME StaleIsStopped, NEW c \in Caller, Call(c) PROVE StaleIsStopped'
<1>0. UNCHANGED <<current, at>>
  BY CallFrame DEF deployment, directories
<1>1. \/ running' = NoVersion
      \/ running' = Resolve
      \/ UNCHANGED <<running, refused>>
  <2>1. CASE \E n \in 1..MaxBatch : \E kinds \in [1..n -> Kinds] : Ask(c, n, kinds)
    BY <2>1, AskCases DEF MarkFailed, Discarded
  <2>2. CASE Consider(c) \/ Look(c) \/ StartFor(c) \/ TooLate(c) \/ AskInVain(c) \/ Emit(c)
             \/ \E k \in 1..MaxBatch : AskTooMuch(c, k)
    BY <2>2 DEF Consider, Look, StartFor, TooLate, Emit, AskInVain, AskTooMuch, StartOk,
                StartFails, MarkFailed, controller, sidecar
  <2>3. QED BY <2>1, <2>2 DEF Call
<1>2. QED BY <1>0, <1>1, StaleKept

(* A step that replaces the directories leaves its thread to go on, or the
   command ends with an error, which is recorded. *)
LEMMA RenamesStale ==
  ASSUME DeploymentTypeOK, StaleIsStopped, Recorded,
         Activates \/ \E t \in Thread : RollsBack(t) \/ Refuse(t)
  PROVE  StaleIsStopped'
<1>1. UNCHANGED running
  BY DEF Recorded, sidecar
<1>2. \E t \in Thread : \E from \in Renaming \cup {"check"} : \E to \in Places :
         Goes(t, from, to) /\ (to \notin Settled \/ (t = "command" /\ to = "idle"
                                                     /\ from \in Renaming))
  <2>1. CASE Activates
    BY <2>1, PlaceFacts DEF Activates, Discard, DiscardFails, Park, Activate, ParkFails,
       ActivateFails, Settled, Places, Renaming, Activating
  <2>2. ASSUME NEW t \in Thread, RollsBack(t) \/ Refuse(t)
        PROVE  \E from \in Renaming \cup {"check"} : \E to \in Places :
                  Goes(t, from, to) /\ (to \notin Settled \/ (t = "command" /\ to = "idle"
                                                              /\ from \in Renaming))
    BY <2>2 DEF RollsBack, NothingToRollBack, Prepare, PrepareFails, Promote, PromoteFails,
       Preserve, PreserveFails, Refuse, Refused, Settled, Places, Renaming
  <2>3. QED BY <2>1, <2>2
<1>3. PICK t \in Thread, from \in Renaming \cup {"check"}, to \in Places :
         Goes(t, from, to) /\ (to \notin Settled \/ (t = "command" /\ to = "idle"
                                                     /\ from \in Renaming))
  BY <1>2
<1>4. at[t] = from /\ at'[t] = to
  BY <1>3, GoesType
<1>5. CASE to \notin Settled
  BY <1>4, <1>5, StaleKept
<1>6. CASE t = "command" /\ to = "idle" /\ from \in Renaming
  <2>1. running = NoVersion \/ refused'
    BY <1>4, <1>6 DEF Recorded
  <2>2. QED BY <1>1, <2>1, StaleKept
<1>7. QED BY <1>3, <1>5, <1>6

LEMMA StaleStep == DeploymentTypeOK /\ StaleIsStopped /\ [Next]_vars => StaleIsStopped'
<1> SUFFICES ASSUME DeploymentTypeOK, StaleIsStopped, [Next]_vars PROVE StaleIsStopped'
  OBVIOUS
<1>1. CASE \E c \in Caller : Call(c)
  BY <1>1, CallStale
<1>2. CASE Renames \/ ThingsFail
  BY <1>2, RenamesCases, RenamesStale
<1>3. CASE Validates \/ Decide \/ Disable \/ InstallOrRollBack
  <2>1. \E t \in Thread : \E from : \E to \in Places \ Settled : Goes(t, from, to)
    <3>1. ASSUME NEW t \in Thread, Accept(t) \/ Refuse(t) \/ BeginRollback(t)
          PROVE  \E from : \E to \in Places \ Settled : Goes(t, from, to)
      BY <3>1 DEF Accept, Refuse, BeginRollback, Places, Settled, Renaming
    <3>2. CASE Decide \/ Disable \/ \E v \in Version : Stage(v)
      BY <3>2, PlaceFacts DEF Decide, Disable, Stage, Places, Settled, Renaming, Activating
    <3>3. QED BY <1>3, <3>1, <3>2, PlaceFacts DEF Validates, InstallOrRollBack
  <2>2. PICK t \in Thread : at'[t] \notin Settled
    BY <2>1, GoesType
  <2>3. QED BY <2>2, StaleKept
<1>4. ASSUME NEW t \in Thread, Restarts(t) PROVE StaleIsStopped'
  <2>1. CASE Goes(t, "stop", "start") /\ Stop
    BY <2>1, StaleKept DEF Stop
  <2>2. CASE Goes(t, "start", "idle") /\ Start
    <3>1. UNCHANGED current
      BY <1>4 DEF Restarts, directories
    <3>2. \A u \in Thread : at[u] \notin Settled => at'[u] \notin Settled
      BY <2>2, GoesType DEF Places, Settled
    <3>3. running' = Resolve \/ UNCHANGED <<running, refused>>
      BY <2>2 DEF Start, StartOk, StartFails, controller, sidecar
    <3>4. QED BY <3>1, <3>2, <3>3, StaleKept
  <2>3. QED BY <1>4, <2>1, <2>2 DEF Restarts
<1>5. CASE StopForSwitch \/ Restart \/ \E t \in Thread : Halts(t)
  BY <1>5, StaleKept DEF StopForSwitch, Restart, Halts, Stop
<1>6. CASE StarterStarts
  <2>1. running' = Resolve \/ UNCHANGED <<running, refused>>
    BY <1>6 DEF StarterStarts, Start, StartOk, StartFails, controller, sidecar
  <2>2. UNCHANGED <<current, at>>
    BY <1>6 DEF StarterStarts, deployment, directories
  <2>3. QED BY <2>1, <2>2, StaleKept
<1>7. CASE Receive
  <2>1. BeginRollback("supervisor") \/ UNCHANGED deployment
    BY <1>7 DEF Receive
  <2>2. CASE BeginRollback("supervisor")
    <3>1. at'["supervisor"] = "prepare"
      BY <2>2, GoesType, PlaceFacts DEF BeginRollback, Places, Renaming
    <3>2. QED BY <3>1, StaleKept, PlaceFacts DEF Settled
  <2>3. CASE UNCHANGED deployment
    BY <1>7, <2>3, StaleKept DEF Receive, controller, sidecar, deployment, directories
  <2>4. QED BY <2>1, <2>2, <2>3
<1>8. CASE StarterChecks \/ CooldownEnds \/ SwitchOn \/ SwitchOff \/ FailureAges \/ UNCHANGED vars
  <2>1. UNCHANGED <<current, at, running, refused>>
    BY <1>8 DEF StarterChecks, CooldownEnds, SwitchOn, SwitchOff, FailureAges, vars,
                controller, sidecar, deployment, directories
  <2>2. QED BY <2>1, StaleKept
<1>9. QED
  BY <1>1, <1>2, <1>3, <1>4, <1>5, <1>6, <1>7, <1>8, Zenon DEF Next, Manage

(* When nobody is at work on it, the sidecar that runs is the deployment that is
   installed, in every interleaving of the two threads that rename the
   directories, the callers, the switch and its two threads, unless a command
   has ended with an error under it. *)
THEOREM RunsWhatIsInstalled == Spec => []RunsInstalled
<1>1. Init => StaleIsStopped
  BY DEF Init, StaleIsStopped
<1>2. Typed /\ StaleIsStopped /\ [Next]_vars => StaleIsStopped'
  BY StaleStep DEF Typed
<1>3. StaleIsStopped => RunsInstalled
  BY DEF StaleIsStopped, RunsInstalled, Quiet, Settled
<1>4. QED BY <1>1, <1>2, <1>3, AlwaysTyped, PTL DEF Spec

-----------------------------------------------------------------------------
(* The deployments that are not lost. *)

(* As long as the two threads have not met, a swap is what one of them has set
   aside or an error has left there, current is free for its next rename, and
   previous for the one after. *)
AtWork(place) == \E t \in Thread : at[t] = place
SwapInUse ==
    ~mixed /\ ~Overlap =>
        /\ swap # NoVersion => stranded \/ AtWork("promote") \/ AtWork("preserve")
        /\ AtWork("promote") => current = NoVersion
        /\ AtWork("preserve") => previous = NoVersion

Moved(t, from, to) ==
    /\ at[t] = from /\ at'[t] = to
    /\ \A u \in Thread : u # t => at'[u] = at[u] /\ at[u] \notin Renaming

(* What an error has left in the swap stays known. *)
Known == stranded /\ swap # NoVersion /\ UNCHANGED swap => stranded'

LEMMA KnownKept ==
  ASSUME Recorded \/ UNCHANGED stranded
  PROVE  Known
  BY Zenon DEF Recorded, Known

LEMMA GivenUp ==
  ASSUME DeploymentTypeOK, Recorded, NEW t \in Thread, NEW from \in Renaming,
         Goes(t, from, Refused(t))
  PROVE  swap' = NoVersion \/ stranded'
<1>1. at[t] = from /\ at'[t] = Refused(t)
  BY GoesType, PlaceFacts
<1>2. GivesUp
  BY <1>1 DEF GivesUp
<1>3. QED BY <1>2, Zenon DEF Recorded

(* A thread that renames, the other one not, or that begins to. *)
LEMMA SwapKept ==
  ASSUME ~mixed, ~Overlap, SwapInUse, NEW t \in Thread, NEW from, NEW to, Moved(t, from, to),
         \/ from \notin {"promote", "preserve"} /\ to \notin {"promote", "preserve"}
            /\ UNCHANGED swap /\ Known
         \/ to = "promote" /\ current' = NoVersion
         \/ to = "preserve" /\ previous' = NoVersion
         \/ to \notin {"promote", "preserve"} /\ (swap' = NoVersion \/ stranded')
  PROVE  SwapInUse'
<1>1. "promote" \in Renaming /\ "preserve" \in Renaming
  BY DEF Renaming
<1>2. \A u \in Thread : u # t => /\ at[u] \notin {"promote", "preserve"}
                                 /\ at'[u] \notin {"promote", "preserve"}
  BY <1>1 DEF Moved
<1>3. at[t] = from /\ at'[t] = to
  BY DEF Moved
<1>4. QED BY <1>2, <1>3 DEF SwapInUse, AtWork, Known

(* What a step that renames does, the other thread not being at it. *)
LEMMA RenamesMove ==
  ASSUME DeploymentTypeOK, ~Overlap, NEW t \in Thread, NEW from \in Renaming,
         NEW to \in Places, Goes(t, from, to)
  PROVE  Moved(t, from, to)
<1>1. /\ at[t] = from /\ at'[t] = to
      /\ \A u \in Thread : u # t => at'[u] = at[u]
  BY GoesType
<1>2. \A u \in Thread : u # t => at[u] \notin Renaming
  BY <1>1, PlaceFacts DEF Overlap
<1>3. QED BY <1>1, <1>2 DEF Moved

(* A rollback that ends with an error. *)
LEMMA GivenUpSwap ==
  ASSUME DeploymentTypeOK, Recorded, ~mixed, ~Overlap, SwapInUse, NEW t \in Thread,
         NEW from \in Renaming, Goes(t, from, Refused(t))
  PROVE  SwapInUse'
<1>1. Refused(t) \in Places /\ Refused(t) \notin {"promote", "preserve"}
  BY PlaceFacts DEF Refused
<1>2. swap' = NoVersion \/ stranded'
  BY GivenUp
<1>3. Moved(t, from, Refused(t))
  BY <1>1, RenamesMove
<1>4. QED BY <1>1, <1>2, <1>3, SwapKept

LEMMA RollbackSwap ==
  ASSUME DeploymentTypeOK, Recorded, ~mixed, ~Overlap, SwapInUse, NEW t \in Thread, RollsBack(t)
  PROVE  SwapInUse'
<1>0. /\ {"prepare", "promote", "preserve"} \subseteq Renaming
      /\ {"promote", "preserve", "check"} \subseteq Places
  BY DEF Renaming, Places
<1>1. CASE \E from \in Renaming : Goes(t, from, Refused(t))
  BY <1>1, GivenUpSwap
<1>2. CASE Prepare(t)
  BY <1>0, <1>2, RenamesMove, SwapKept DEF Prepare
<1>3. CASE Promote(t)
  BY <1>0, <1>3, RenamesMove, SwapKept DEF Promote
<1>4. CASE Preserve(t) /\ Goes(t, "preserve", "check")
  <2>1. at[t] = "preserve"
    BY <1>4 DEF Goes
  <2>2. previous = NoVersion
    BY <2>1 DEF SwapInUse, AtWork
  <2>3. swap' = NoVersion
    BY <1>4, <2>2 DEF Preserve
  <2>4. QED BY <1>0, <1>4, <2>3, RenamesMove, SwapKept
<1>5. QED
  BY <1>0, <1>1, <1>2, <1>3, <1>4
  DEF RollsBack, NothingToRollBack, PrepareFails, PromoteFails, Preserve, PreserveFails

LEMMA ActivationSwap ==
  ASSUME DeploymentTypeOK, Recorded, ~mixed, ~Overlap, SwapInUse, Activates
  PROVE  SwapInUse'
<1>1. PICK from \in Activating, to \in {"park", "first", "activate", "check", "idle"} :
         Goes("command", from, to) /\ UNCHANGED swap
  BY DEF Activates, Discard, DiscardFails, Park, Activate, ParkFails, ActivateFails, Activating
<1>2. /\ from \in Renaming /\ from \notin {"promote", "preserve"}
      /\ to \in Places /\ to \notin {"promote", "preserve"}
  BY DEF Renaming, Activating, Places
<1>3. QED BY <1>1, <1>2, RenamesMove, SwapKept, PlaceFacts, KnownKept

(* A thread that moves without renaming, or that begins to rename. *)
LEMMA OtherSwap ==
  ASSUME DeploymentTypeOK, SwapInUse, NEW t \in Thread,
         NEW from \in Places \ Renaming, NEW to \in Places \ {"promote", "preserve"},
         Goes(t, from, to), UNCHANGED <<current, previous, swap>>, mixed => mixed', Known
  PROVE  SwapInUse'
<1>1. /\ at[t] = from /\ at'[t] = to
      /\ \A u \in Thread : u # t => at'[u] = at[u]
  BY GoesType
<1>2. ~Overlap
  BY <1>1 DEF Overlap
<1>3. from \notin {"promote", "preserve"}
  BY DEF Renaming
<1>4. \A u \in Thread : \A p \in {"promote", "preserve"} : at'[u] = p <=> at[u] = p
  BY <1>1, <1>3
<1>5. QED BY <1>2, <1>4 DEF SwapInUse, AtWork, Known

LEMMA SwapStep == DeploymentTypeOK /\ SwapInUse /\ [Next]_vars => SwapInUse'
<1> SUFFICES ASSUME DeploymentTypeOK, SwapInUse, [Next]_vars PROVE SwapInUse'
  OBVIOUS
<1>0. ASSUME UNCHANGED <<current, previous, swap, at, mixed, stranded>> PROVE SwapInUse'
  BY <1>0 DEF SwapInUse, AtWork, Overlap
<1>1. CASE \E c \in Caller : Call(c)
  <2>1. UNCHANGED <<deployment, history>>
    BY <1>1, CallFrame
  <2>2. QED BY <1>0, <2>1 DEF deployment, directories, history
<1>2. CASE Renames \/ ThingsFail
  <2>1. CASE mixed \/ Overlap
    <3>1. mixed'
      BY <1>2, <2>1, RenamesCases DEF Recorded
    <3>2. QED BY <3>1 DEF SwapInUse
  <2>2. CASE ~mixed /\ ~Overlap /\ \E t \in Thread : Refuse(t)
    <3>1. PICK t \in Thread : Goes(t, "check", "prepare") /\ UNCHANGED directories
      BY <2>2 DEF Refuse
    <3>2. ~mixed
      BY <2>2
    <3>3. "check" \in Places \ Renaming /\ "prepare" \in Places \ {"promote", "preserve"}
      BY DEF Places, Renaming, Activating
    <3>4. Known
      BY <1>2, RenamesCases, KnownKept
    <3>5. QED BY <3>1, <3>2, <3>3, <3>4, OtherSwap DEF directories
  <2>3. CASE ~mixed /\ ~Overlap /\ (Activates \/ \E t \in Thread : RollsBack(t))
    BY <1>2, <2>3, RenamesCases, ActivationSwap, RollbackSwap
  <2>4. QED BY <1>2, <2>1, <2>2, <2>3, RenamesCases
<1>3. CASE Validates \/ Decide \/ Disable \/ InstallOrRollBack
           \/ \E t \in Thread : Restarts(t) \/ Halts(t)
  <2>1. PICK t \in Thread, from \in {"check", "decide", "disable", "idle", "stop", "start", "halt"},
             to \in {"decide", "stop", "halt", "start", "idle", "prepare", "discard"} :
          Goes(t, from, to)
    <3>1. CASE Validates
      BY <1>3, <3>1 DEF Validates, Accept, Refuse
    <3>2. CASE InstallOrRollBack
      BY <1>3, <3>2, PlaceFacts DEF InstallOrRollBack, BeginRollback, Stage
    <3>3. QED BY <1>3, <3>1, <3>2, PlaceFacts DEF Decide, Disable, Restarts, Halts
  <2>2. UNCHANGED <<current, previous, swap, mixed, stranded>>
    BY <1>3 DEF Validates, Accept, Refuse, InstallOrRollBack, BeginRollback, Stage, Decide,
       Disable, Restarts, Halts, directories, history
  <2>3. from \in Places \ Renaming /\ to \in Places \ {"promote", "preserve"}
    BY DEF Places, Renaming, Activating
  <2>4. QED BY <2>1, <2>2, <2>3, OtherSwap, KnownKept
<1>4. CASE Receive
  <2>1. UNCHANGED <<mixed, stranded>> /\ (BeginRollback("supervisor") \/ UNCHANGED deployment)
    BY <1>4 DEF Receive, history
  <2>2. "idle" \in Places \ Renaming /\ "prepare" \in Places \ {"promote", "preserve"}
    BY DEF Places, Renaming, Activating
  <2>3. QED
    BY <1>0, <2>1, <2>2, OtherSwap, PlaceFacts, KnownKept DEF BeginRollback, deployment, directories
<1>5. CASE Restart
  BY <1>5 DEF Restart, LoseProcess, SwapInUse, AtWork
<1>6. CASE StopForSwitch \/ StarterChecks \/ StarterStarts \/ CooldownEnds \/ SwitchOn
           \/ SwitchOff \/ FailureAges \/ UNCHANGED vars
  BY <1>0, <1>6 DEF StopForSwitch, StarterChecks, StarterStarts, CooldownEnds, SwitchOn,
     SwitchOff, FailureAges, vars, deployment, directories, history
<1>7. QED BY <1>1, <1>2, <1>3, <1>4, <1>5, <1>6, Zenon DEF Next, Manage

(* What a step may lose. *)
Keeps ==
    \/ Deployed \subseteq Deployed'
    \/ mixed \/ Overlap
    \/ Deployed \ Deployed' = {previous} /\ at["command"] = "discard"
    \/ Deployed \ Deployed' = {swap} /\ (stranded \/ LoseProcess)

LEMMA ActivationKeeps == Activates => Keeps
<1>1. CASE Discard \/ DiscardFails
  <2>1. /\ at["command"] = "discard" /\ UNCHANGED <<current, swap>>
        /\ previous' \in {previous, NoVersion, Damaged}
    BY <1>1 DEF Discard, DiscardFails, Goes
  <2>2. QED BY <2>1 DEF Deployed, Keeps
<1>2. CASE Park
  BY <1>2 DEF Park, Deployed, Keeps
<1>3. CASE Activate
  BY <1>3 DEF Activate, Deployed, Keeps
<1>4. CASE ParkFails
  BY <1>4 DEF ParkFails, Deployed, Keeps
<1>5. ASSUME NEW restores \in BOOLEAN, ActivateFails(restores) PROVE Keeps
  BY <1>5 DEF ActivateFails, Deployed, Keeps
<1>6. QED BY <1>1, <1>2, <1>3, <1>4, <1>5 DEF Activates

LEMMA RollbackKeeps ==
  ASSUME DeploymentTypeOK, SwapInUse, NEW t \in Thread, RollsBack(t)
  PROVE  Keeps
<1>1. CASE NothingToRollBack(t)
  BY <1>1 DEF NothingToRollBack, directories, Deployed, Keeps
<1>2. CASE (Prepare(t) \/ PrepareFails(t)) /\ ~mixed /\ ~Overlap
  <2>1. at[t] = "prepare" /\ \A u \in Thread : u # t => at[u] \notin Renaming
    <3>1. "prepare" \in Renaming /\ "promote" \in Places /\ Refused(t) \in Places
      BY PlaceFacts DEF Renaming, Places
    <3>2. QED BY <1>2, <3>1, RenamesMove DEF Prepare, PrepareFails, Moved
  <2>2. ~AtWork("promote") /\ ~AtWork("preserve")
    BY <2>1 DEF AtWork, Renaming
  <2>3. swap = NoVersion \/ stranded
    BY <1>2, <2>2 DEF SwapInUse
  <2>4. /\ UNCHANGED previous
        /\ UNCHANGED current \/ swap' = current
    BY <1>2 DEF Prepare, PrepareFails
  <2>5. Deployed \subseteq Deployed' \cup {swap} /\ NoVersion \notin Deployed
    BY <2>4 DEF Deployed
  <2>6. QED BY <2>3, <2>5 DEF Keeps
<1>3. CASE Promote(t)
  BY <1>3 DEF Promote, Deployed, Keeps
<1>4. ASSUME NEW restores \in BOOLEAN, PromoteFails(t, restores) PROVE Keeps
  BY <1>4 DEF PromoteFails, Deployed, Keeps
<1>5. CASE Preserve(t)
  BY <1>5 DEF Preserve, Deployed, Keeps
<1>6. CASE PreserveFails(t)
  BY <1>6 DEF PreserveFails, directories, Deployed, Keeps
<1>7. QED BY <1>1, <1>2, <1>3, <1>4, <1>5, <1>6 DEF RollsBack, Keeps

LEMMA KeepsStep == DeploymentTypeOK /\ SwapInUse /\ Next => Keeps
<1> SUFFICES ASSUME DeploymentTypeOK, SwapInUse, Next PROVE Keeps
  OBVIOUS
<1>0. ASSUME UNCHANGED <<current, previous, swap>> PROVE Keeps
  BY <1>0 DEF Deployed, Keeps
<1>1. CASE \E c \in Caller : Call(c)
  <2>1. UNCHANGED deployment
    BY <1>1, CallFrame
  <2>2. QED BY <1>0, <2>1 DEF deployment, directories
<1>2. CASE Renames \/ ThingsFail
  <2>1. CASE Activates \/ \E t \in Thread : RollsBack(t)
    BY <2>1, ActivationKeeps, RollbackKeeps
  <2>2. CASE \E t \in Thread : Refuse(t)
    BY <1>0, <2>2 DEF Refuse, directories
  <2>3. QED BY <1>2, <2>1, <2>2, RenamesCases
<1>3. CASE Validates \/ Decide \/ Disable \/ InstallOrRollBack \/ Receive
           \/ \E t \in Thread : Restarts(t) \/ Halts(t)
  BY <1>0, <1>3 DEF Validates, Accept, Refuse, InstallOrRollBack, BeginRollback, Stage, Decide,
     Disable, Restarts, Halts, Receive, deployment, directories
<1>4. CASE Restart
  <2>1. LoseProcess /\ UNCHANGED <<current, previous>> /\ swap' = NoVersion
    BY <1>4 DEF Restart, LoseProcess
  <2>2. QED BY <2>1 DEF Deployed, Keeps
<1>5. CASE StopForSwitch \/ StarterChecks \/ StarterStarts \/ CooldownEnds \/ SwitchOn
           \/ SwitchOff \/ FailureAges
  BY <1>0, <1>5 DEF StopForSwitch, StarterChecks, StarterStarts, CooldownEnds, SwitchOn,
     SwitchOff, FailureAges, deployment, directories
<1>6. QED BY <1>1, <1>2, <1>3, <1>4, <1>5, Zenon DEF Next, Manage

(* Installing and rolling back lose no deployment, whichever removals and
   renames fail and wherever the process ends, but for the older one that an
   installation discards, the swap of a process that ends, and what an error has
   left in the swap, as long as the two threads have not renamed at the same
   time. *)
THEOREM NothingIsLost == Spec => NothingLost
<1>1. Init => SwapInUse
  BY DEF Init, DeploymentInit, SwapInUse, AtWork
<1>2. Typed /\ SwapInUse /\ [Next]_vars => SwapInUse'
  BY SwapStep DEF Typed
<1>3. Typed /\ SwapInUse /\ [Next]_vars => [Keeps]_vars
  BY KeepsStep DEF Typed
<1>4. QED BY <1>1, <1>2, <1>3, AlwaysTyped, PTL DEF Spec, NothingLost, Keeps

=============================================================================
