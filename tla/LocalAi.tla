------------------------------- MODULE LocalAi -------------------------------
(***************************************************************************)
(* Local AI: the controller of the sidecar that predicts battery life, the *)
(* switch, the commands that install and roll back its bundle, and the     *)
(* automatic rollback (src-tauri/src/local_ai_controller.rs,               *)
(* local_ai_auto_rollback.rs, and their callers in lib.rs).                *)
(*                                                                         *)
(* The controller is one mutex; a thread's work under it is one step.  The *)
(* answers of the sidecar come through a pipe, one per request; an answer  *)
(* is the place in its batch of the request it answers, 0 for a request of *)
(* an earlier batch, and its kind.                                         *)
(***************************************************************************)
EXTENDS AiDeployment

CONSTANTS
    Caller,     \* threads that ask for predictions
    MaxBatch,   \* devices asked about at once
    Threshold,  \* FAILURE_THRESHOLD
    MaxEvents,  \* bound on the user's commands
    MaxMishaps, \* bound on what goes wrong and on restarts
    MaxQueue    \* bound on the events that wait for the supervisor

ASSUME BoundsAssumption == {MaxBatch, MaxEvents, MaxMishaps, MaxQueue} \subseteq Nat
ASSUME ThresholdAssumption == Threshold \in Nat \ {0}

VARIABLES
    enabled,    \* local_ai_analysis_enabled
    state, cooling, running,    \* ControllerInner; cooling: within FAILURE_COOLDOWN
    pipe,       \* answers of the running sidecar that nobody has read
    pc, verdict,    \* where each caller is, and the event it has to send
    starter, switching,     \* the thread of start_local_ai_in_background; settings_set
    crashRx,    \* the channel of CrashEvents
    window, rolledBack,     \* locals of AutoRollbackSupervisor::run
    oversized,  \* history: the sidecar has met a batch it was not sent in full
    crossed,    \* history: a stop ran although the switch was on
    refused,    \* history: a command has ended with an error under the running sidecar
    mixed,      \* history: the two threads have renamed at the same time
    stranded,   \* history: what an error has left in the swap is still there
    events, mishaps

sidecar == <<state, cooling, running, pipe, oversized>>
controller == <<sidecar, refused>>
history == <<crossed, mixed, stranded>>
threads == <<pc, verdict, starter, switching>>
supervisor == <<crashRx, window, rolledBack>>
bounds == <<events, mishaps>>
vars == <<deployment, enabled, controller, threads, supervisor, history, bounds>>

Kinds == {"answer", "bug", "trap", "timeout"}
Answer == [to : 0..MaxBatch, kind : Kinds]

TypeOK ==
    /\ DeploymentTypeOK
    /\ enabled \in BOOLEAN
    /\ state \in {"Stopped", "Running", "Failed"} /\ cooling \in BOOLEAN
    /\ running \in Slot /\ pipe \in Seq(Answer)
    /\ (running # NoVersion => state = "Running") /\ (running = NoVersion => pipe = <<>>)
    /\ pc \in [Caller -> {"idle", "look", "start", "ask", "emit"}]
    /\ verdict \in [Caller -> {"none", "failed", "success"}]
    /\ starter \in {"idle", "check", "start"} /\ switching \in BOOLEAN
    /\ crashRx \in Seq({"failed", "success"})
    /\ window \in 0..(Threshold - 1) /\ rolledBack \in BOOLEAN
    /\ {oversized, crossed, refused, mixed, stranded} \subseteq BOOLEAN
    /\ events \in 0..MaxEvents /\ mishaps \in 0..MaxMishaps

Init ==
    /\ DeploymentInit
    /\ enabled \in BOOLEAN
    /\ state = "Stopped" /\ cooling = FALSE /\ running = NoVersion /\ pipe = <<>>
    /\ pc = [c \in Caller |-> "idle"] /\ verdict = [c \in Caller |-> "none"]
    /\ starter = "check" /\ switching = FALSE
    /\ crashRx = <<>> /\ window = 0 /\ rolledBack = FALSE
    /\ oversized = FALSE /\ crossed = FALSE /\ refused = FALSE
    /\ mixed = FALSE /\ stranded = FALSE
    /\ events = 0 /\ mishaps = 0

Happens == events < MaxEvents /\ events' = events + 1 /\ UNCHANGED mishaps
Mishap == mishaps < MaxMishaps /\ mishaps' = mishaps + 1 /\ UNCHANGED events

-----------------------------------------------------------------------------
(* The controller. *)

Alive == state = "Running" /\ running # NoVersion

(* start: nothing to do, a handshake, or a failure that is reported. *)
StartOk ==
    /\ IF Alive THEN UNCHANGED controller
       ELSE /\ Resolve \in works
            /\ running' = Resolve /\ state' = "Running" /\ pipe' = <<>>
            /\ cooling' = FALSE /\ oversized' = FALSE /\ refused' = FALSE
    /\ UNCHANGED <<crashRx, bounds>>

(* Mutant of StartFails: a failed start is not reported. *)
StartFailsSilently ==
    /\ ~Alive
    /\ (Resolve \notin works /\ UNCHANGED bounds) \/ (Resolve \in works /\ Mishap)
    /\ state' = "Failed" /\ cooling' = TRUE
    /\ UNCHANGED <<running, pipe, oversized, refused, crashRx>>

StartFails ==
    /\ ~Alive
    /\ (Resolve \notin works /\ UNCHANGED bounds) \/ (Resolve \in works /\ Mishap)
    /\ state' = "Failed" /\ cooling' = TRUE
    /\ crashRx' = Append(crashRx, "failed")
    /\ UNCHANGED <<running, pipe, oversized, refused>>

Start == StartOk \/ StartFails

(* stop *)
Stop ==
    /\ running' = NoVersion /\ state' = "Stopped" /\ pipe' = <<>>
    /\ cooling' = FALSE /\ oversized' = FALSE /\ refused' = FALSE

(* Mutant of MarkFailed: the sidecar is not taken out of the controller. *)
MarkFailedOnly ==
    /\ state' = "Failed" /\ cooling' = TRUE
    /\ crashRx' = Append(crashRx, "failed")
    /\ UNCHANGED <<running, pipe, oversized, refused>>

(* mark_failed: the sidecar is killed and the failure reported under the lock. *)
MarkFailed ==
    /\ running' = NoVersion /\ state' = "Failed" /\ pipe' = <<>>
    /\ cooling' = TRUE /\ oversized' = FALSE /\ refused' = FALSE
    /\ crashRx' = Append(crashRx, "failed")

(* Mutant of Discarded: it ends like a stop. *)
DiscardedStopped ==
    /\ running' = NoVersion /\ state' = "Stopped" /\ pipe' = <<>>
    /\ oversized' = FALSE /\ refused' = FALSE /\ UNCHANGED <<cooling, crashRx>>

(* discard_interrupted_runtime: killed, to be started by the next prediction. *)
Discarded ==
    /\ running' = NoVersion /\ state' = "Running" /\ pipe' = <<>>
    /\ oversized' = FALSE /\ refused' = FALSE /\ UNCHANGED <<cooling, crashRx>>

CooldownEnds ==
    /\ cooling /\ cooling' = FALSE
    /\ UNCHANGED <<deployment, enabled, state, running, pipe, oversized, refused, threads,
                   supervisor, history, bounds>>

-----------------------------------------------------------------------------
(* predict *)

Moves(c, from, to) == pc[c] = from /\ pc' = [pc EXCEPT ![c] = to]

(* The caller has read the switch before it calls predict. *)
Consider(c) ==
    /\ enabled /\ Len(crashRx) < MaxQueue
    /\ Moves(c, "idle", "look")
    /\ UNCHANGED <<deployment, enabled, controller, verdict, starter, switching, supervisor,
                   history, bounds>>

Look(c) ==
    /\ Moves(c, "look", IF state = "Stopped" \/ (state = "Failed" /\ cooling) THEN "idle"
                        ELSE IF running = NoVersion THEN "start" ELSE "ask")
    /\ UNCHANGED <<deployment, enabled, controller, verdict, starter, switching, supervisor,
                   history, bounds>>

(* The lock was released: the controller may have been stopped meanwhile. *)
StartFor(c) ==
    /\ \/ StartOk /\ Moves(c, "start", "ask")
       \/ StartFails /\ Moves(c, "start", "idle")
    /\ UNCHANGED <<deployment, enabled, verdict, starter, switching, window, rolledBack, history>>

TooLate(c) ==
    /\ running = NoVersion
    /\ Moves(c, "ask", "idle")
    /\ UNCHANGED <<deployment, enabled, controller, verdict, starter, switching, supervisor,
                   history, bounds>>

(* The answers of the sidecar to a batch of n requests. *)
Answers(n, kinds) == [i \in 1..n |-> [to |-> i, kind |-> kinds[i]]]
Earlier(q) == [i \in DOMAIN q |-> [to |-> 0, kind |-> q[i].kind]]

(* Mutant of Read: a bug of the handler ends the reading. *)
ReadUntilBug(n, q) ==
    LET Ends(i) == q[i].kind # "answer" \/ q[i].to # i
        ends == {i \in 1..n : Ends(i)}
    IN  IF ends = {} THEN n ELSE CHOOSE i \in ends : \A j \in ends : i <= j

(* parse_prediction, over the n answers that are read: the place of the first
   that ends the reading.  Only a result is held against its request. *)
Read(n, q) ==
    LET Ends(i) == q[i].kind \in {"trap", "timeout"} \/ (q[i].kind = "answer" /\ q[i].to # i)
        ends == {i \in 1..n : Ends(i)}
    IN  IF ends = {} THEN n ELSE CHOOSE i \in ends : \A j \in ends : i <= j

(* A batch of which everything was written and something was answered. *)
Ask(c, n, kinds) ==
    LET q == pipe \o Answers(n, kinds)
        last == Read(n, q)
        bug == \E i \in 1..last : q[i].kind = "bug"
    IN  /\ running # NoVersion /\ pc[c] = "ask"
        /\ IF \A i \in 1..n : kinds[i] = "answer" THEN UNCHANGED bounds ELSE Mishap
        /\ CASE q[last].kind = "answer" /\ q[last].to # last ->
                    MarkFailed /\ UNCHANGED verdict /\ Moves(c, "ask", "idle")
             [] q[last].kind = "timeout" ->
                    Discarded /\ UNCHANGED verdict /\ Moves(c, "ask", "idle")
             [] q[last].kind = "trap" ->
                    Discarded /\ verdict' = [verdict EXCEPT ![c] = "failed"]
                              /\ Moves(c, "ask", "emit")
             [] OTHER ->
                    /\ pipe' = Earlier(SubSeq(q, last + 1, Len(q)))
                    /\ verdict' = [verdict EXCEPT ![c] = IF bug THEN "failed" ELSE "success"]
                    /\ UNCHANGED <<state, cooling, running, oversized, refused, crashRx>>
                    /\ Moves(c, "ask", "emit")
        /\ UNCHANGED <<deployment, enabled, starter, switching, window, rolledBack, history>>

(* The k-th request is too long: those before it have been written. *)
AskTooMuch(c, k) ==
    /\ running # NoVersion /\ Mishap /\ Len(pipe) + k <= MaxBatch + 1
    /\ Moves(c, "ask", "idle")
    /\ pipe' = pipe \o Earlier(Answers(k - 1, [i \in 1..k |-> "answer"]))
    /\ oversized' = TRUE
    /\ UNCHANGED <<deployment, enabled, state, cooling, running, refused, verdict, starter,
                   switching, supervisor, history>>

(* The sidecar has died, hangs, or answers what cannot be decoded. *)
AskInVain(c) ==
    /\ running # NoVersion /\ Mishap
    /\ MarkFailed /\ Moves(c, "ask", "idle")
    /\ UNCHANGED <<deployment, enabled, verdict, starter, switching, window, rolledBack, history>>

(* emit_crash_event, after the lock is released. *)
Emit(c) ==
    /\ Moves(c, "emit", "idle")
    /\ crashRx' = Append(crashRx, verdict[c])
    /\ verdict' = [verdict EXCEPT ![c] = "none"]
    /\ UNCHANGED <<deployment, enabled, controller, starter, switching, window, rolledBack,
                   history, bounds>>

-----------------------------------------------------------------------------
(* The switch: settings_set runs on the main thread. *)

SwitchOn ==
    /\ Happens /\ ~enabled /\ ~switching /\ starter = "idle"
    /\ enabled' = TRUE /\ starter' = "check"
    /\ UNCHANGED <<deployment, controller, pc, verdict, switching, supervisor, history>>

SwitchOff ==
    /\ Happens /\ enabled /\ ~switching
    /\ enabled' = FALSE /\ switching' = TRUE
    /\ UNCHANGED <<deployment, controller, pc, verdict, starter, supervisor, history>>

StopForSwitch ==
    /\ switching /\ switching' = FALSE /\ Stop
    /\ crossed' = (crossed \/ enabled) /\ UNCHANGED <<mixed, stranded>>
    /\ UNCHANGED <<deployment, enabled, pc, verdict, starter, supervisor, bounds>>

StarterChecks ==
    /\ starter = "check" /\ starter' = (IF enabled THEN "start" ELSE "idle")
    /\ UNCHANGED <<deployment, enabled, controller, pc, verdict, switching, supervisor,
                   history, bounds>>

StarterStarts ==
    /\ starter = "start" /\ starter' = "idle" /\ Start
    /\ UNCHANGED <<deployment, enabled, pc, verdict, switching, window, rolledBack, history>>

-----------------------------------------------------------------------------
(* The commands and the supervisor. *)

InstallOrRollBack ==
    /\ Happens
    /\ BeginRollback("command") \/ \E v \in Version : Stage(v)
    /\ UNCHANGED <<enabled, controller, threads, supervisor, history>>

Overlap == \A t \in Thread : at[t] \in Renaming

(* A thread gives a rollback up. *)
GivesUp == \E t \in Thread : at[t] \in Renaming /\ at'[t] = Refused(t)

Recorded ==
    /\ refused' = (refused \/ (running # NoVersion /\ at["command"] \in Renaming
                                                  /\ at'["command"] = "idle"))
    /\ mixed' = (mixed \/ Overlap)
    /\ stranded' = (swap' # NoVersion /\ (GivesUp \/ (stranded /\ swap' = swap)))
    /\ UNCHANGED <<enabled, sidecar, threads, supervisor, crossed>>

Renames ==
    /\ \/ Discard \/ Park \/ Activate
       \/ \E t \in Thread : NothingToRollBack(t) \/ Prepare(t) \/ Promote(t) \/ Preserve(t)
       \/ ParkFails /\ previous # NoVersion
       \/ ActivateFails(TRUE) /\ current # NoVersion
       \/ \E t \in Thread :
            PromoteFails(t, TRUE) /\ (previous = NoVersion \/ current # NoVersion)
    /\ Recorded /\ UNCHANGED bounds

(* A removal, a rename, also that which restores, or a handshake that fails
   for another reason. *)
ThingsFail ==
    /\ Mishap
    /\ \/ DiscardFails \/ ParkFails
       \/ \E restores \in BOOLEAN :
            ActivateFails(restores) \/ \E t \in Thread : PromoteFails(t, restores)
       \/ \E t \in Thread : PrepareFails(t) \/ PreserveFails(t) \/ Refuse(t)
    /\ Recorded

Validates ==
    /\ \E t \in Thread : Accept(t) \/ (Refuse(t) /\ Resolve \notin works)
    /\ UNCHANGED <<enabled, controller, threads, supervisor, history, bounds>>

(* The command has an answer: restart or stop as the switch says now. *)
Decide ==
    /\ Goes("command", "decide", IF enabled THEN "stop" ELSE "halt")
    /\ UNCHANGED <<directories, works, undo, enabled, controller, threads, supervisor, history,
                   bounds>>

(* restart is a stop and a start. *)
Restarts(t) ==
    /\ \/ Goes(t, "stop", "start") /\ Stop /\ UNCHANGED <<crashRx, bounds>>
       \/ Goes(t, "start", "idle") /\ Start
    /\ UNCHANGED <<directories, works, undo, enabled, threads, window, rolledBack, history>>

(* disable_local_ai_and_notify *)
Disable ==
    /\ Goes("supervisor", "disable", "halt")
    /\ enabled' = FALSE
    /\ UNCHANGED <<directories, works, undo, controller, threads, supervisor, history, bounds>>

Halts(t) ==
    /\ Goes(t, "halt", "idle") /\ Stop
    /\ crossed' = (crossed \/ enabled) /\ UNCHANGED <<mixed, stranded>>
    /\ UNCHANGED <<directories, works, undo, enabled, threads, supervisor, bounds>>

(* process_failure_event, and the rollback that it asks for once. *)
Receive ==
    /\ at["supervisor"] = "idle" /\ crashRx # <<>>
    /\ crashRx' = Tail(crashRx)
    /\ LET failed == Head(crashRx) = "failed"
       IN  IF failed /\ ~rolledBack /\ window + 1 >= Threshold
           THEN /\ rolledBack' = TRUE /\ BeginRollback("supervisor")
                /\ window' = 0     \* which is not looked at again
           ELSE /\ window' = IF failed /\ ~rolledBack THEN window + 1 ELSE 0
                /\ UNCHANGED <<rolledBack, deployment>>
    /\ UNCHANGED <<enabled, controller, threads, history, bounds>>

(* FAILURE_WINDOW has passed since the oldest failure. *)
FailureAges ==
    /\ window > 0
    /\ window' = window - 1
    /\ UNCHANGED <<deployment, enabled, controller, threads, crashRx, rolledBack, history, bounds>>

(* The application stops and starts again. *)
Restart ==
    /\ Mishap /\ LoseProcess /\ Stop
    /\ pc' = [c \in Caller |-> "idle"] /\ verdict' = [c \in Caller |-> "none"]
    /\ starter' = "check" /\ switching' = FALSE
    /\ crashRx' = <<>> /\ window' = 0 /\ rolledBack' = FALSE
    /\ mixed' = FALSE /\ stranded' = FALSE /\ UNCHANGED <<enabled, crossed>>

Call(c) ==
    \/ Consider(c) \/ Look(c) \/ StartFor(c) \/ TooLate(c) \/ Emit(c) \/ AskInVain(c)
    \/ \E n \in 1..MaxBatch : \E kinds \in [1..n -> Kinds] : Ask(c, n, kinds)
    \/ \E k \in 1..MaxBatch : AskTooMuch(c, k)

Manage == Renames \/ Validates \/ Decide \/ Disable \/ \E t \in Thread : Restarts(t) \/ Halts(t)

Next ==
    \/ \E c \in Caller : Call(c)
    \/ Manage \/ Receive
    \/ StopForSwitch \/ StarterChecks \/ StarterStarts \/ CooldownEnds
    \/ SwitchOn \/ SwitchOff \/ InstallOrRollBack
    \/ FailureAges \/ ThingsFail \/ Restart

Spec == Init /\ [][Next]_vars

(* Threads run, predictions are asked for with every reading, time passes. *)
Fairness ==
    /\ WF_vars(Manage) /\ WF_vars(Receive) /\ WF_vars(CooldownEnds)
    /\ WF_vars(StopForSwitch) /\ WF_vars(StarterChecks \/ StarterStarts)
    /\ \A c \in Caller : WF_vars(Call(c))

FairSpec == Spec /\ Fairness

-----------------------------------------------------------------------------
(* Properties. *)

(* Outside of a prediction no answer waits in the pipe: the next prediction
   would take it for its own and give the sidecar up as faulty.  predict reads
   as many answers as it has written requests, also after a bug of the handler
   (local_ai_controller.rs, the comment at PredictionError::HandlerBug), or
   discards the sidecar; only an oversized request leaves early. *)
DrainsItsAnswers == pipe # <<>> => oversized

(* Installing and rolling back lose a deployment in three ways only, whatever
   removal or rename fails: the older one is discarded by an installation, the
   end of the process abandons a swap, and what an error has left in the swap
   (the renames of rollback_deployment that follow the first) is removed by
   the next rollback as a stale swap.  It holds as long as the command and the
   automatic rollback, which rename without a lock, have not met. *)
Deployed == {current, previous, swap} \ {NoVersion, Damaged}
NothingLost ==
    [][\/ Deployed \subseteq Deployed'
       \/ mixed \/ Overlap
       \/ Deployed \ Deployed' = {previous} /\ at["command"] = "discard"
       \/ Deployed \ Deployed' = {swap} /\ (stranded \/ LoseProcess)]_vars

(* When no thread is at work on it, the sidecar that runs is the deployment
   that is installed: every path that replaces the directories ends with a
   restart or a stop (install_local_ai_update, rollback_local_ai_update and
   execute_rollback), unless a command ended with an error while it ran. *)
Quiet ==
    /\ \A t \in Thread : at[t] = "idle"
    /\ \A c \in Caller : pc[c] \in {"idle", "emit"}
    /\ starter = "idle" /\ ~switching
RunsInstalled == Quiet /\ ~refused /\ running # NoVersion => running = Resolve

(* A prediction is answered. *)
Served == \E c \in Caller : verdict[c] = "success"

(* While local AI is switched on and what is installed works, predictions are
   answered again and again: no failure, trap, timeout, rollback or restart
   leaves the controller where predict returns early for ever.  Excused is a
   controller that a late stop reached after the switch was on again. *)
Serves == <>[](enabled /\ Resolve \in works) => []<>(crossed \/ Served)

(* While local AI is on and what is installed does not work, failures reach
   the supervisor again and again, unless an older sidecar still answers: it
   tries its rollback, or for ever each failure that it has counted leaves the
   window before FAILURE_THRESHOLD is reached. *)
HandlesFailures ==
    <>[](enabled /\ Resolve \notin works) =>
        \/ []<>(crossed \/ Served \/ rolledBack)
        \/ []<><<FailureAges>>_vars
=============================================================================
