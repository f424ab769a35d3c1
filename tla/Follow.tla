------------------------------- MODULE Follow -------------------------------
(***************************************************************************)
(* The follow side of CommandExecutor, together with Navigation, which it  *)
(* preempts, and with the HTTP follow engine, of which the gateway only    *)
(* knows what it answers.                                                  *)
(*                                                                         *)
(* start_follow looks at the mode without the mutex: in Stopping it leaves *)
(* its request in a slot for whoever ends the stop, otherwise it waits for *)
(* the mutex.  Holding it, it stops navigation, calls the engine and then  *)
(* drains the slot.  An emergency stop calls the engine first and takes    *)
(* the mutex afterwards.                                                   *)
(***************************************************************************)
EXTENDS Navigation

CONSTANTS
  FollowThreads,   \* the follow commands that may ever be received
  FollowCommands,  \* their kinds
  Outcomes         \* what a call to the engine may come to

AllFollowCommands == {"start_follow", "stop_follow",           \* top-level types
                      "http_start", "http_stop", "http_estop", "http_get"} \* type=follow
AllOutcomes == {"done",     \* executed and answered ok
                "refused",  \* not executed
                "lost"}     \* executed, but the answer never came

ASSUME FollowInputsAssumption ==
  FollowCommands \subseteq AllFollowCommands /\ Outcomes \subseteq AllOutcomes

NoRequest == "none"
Requests == {"placeholder", "http"}   \* start_backend = false, true

VARIABLES
  follower,        \* the threads of the follow commands
  pending_follow,  \* pending_follow_request_ and has_pending_follow_request_
  request,         \* the request that the holder of the mutex is carrying out
  running,         \* Follow::running_, an atomic
  following,       \* does the engine move the robot?
  unconfirmed      \* history: the answer to a start that it executed was lost

engine == <<following, unconfirmed>>
follow_vars == <<follower, pending_follow, request, running, engine>>
all_vars == <<vars, follow_vars>>

FollowHolders == {"follow_check", "follow_verify", "follow_survivor", "follow_backend",
                  "follow_answered", "follow_failed", "follow_drain"}

ASSUME FollowWorkersAssumption == Workers \cap FollowHolders = {}

FollowThread == [pc : {"unborn", "queueing", "draining", "waiting", "answering", "done"},
                 cmd : AllFollowCommands \cup {"none"},
                 ok : BOOLEAN]

\* Whoever else may have the mutex or the gate.
FollowFieldsOK ==
  /\ FieldsOK
  /\ follower \in [FollowThreads -> FollowThread]
  /\ pending_follow \in Requests \cup {NoRequest}
  /\ request \in Requests \cup {NoRequest}
  /\ running \in BOOLEAN
  /\ following \in BOOLEAN /\ unconfirmed \in BOOLEAN

FollowTypeOK ==
  /\ FollowFieldsOK
  /\ lock \in Holders \cup FollowHolders \cup Workers \cup {Free}
  /\ active_command \in Managed \cup {NoCommand}

FollowInit ==
  /\ Init
  /\ follower = [t \in FollowThreads |-> [pc |-> "unborn", cmd |-> "none", ok |-> FALSE]]
  /\ pending_follow = NoRequest
  /\ request = NoRequest
  /\ running = FALSE
  /\ following = FALSE
  /\ unconfirmed = FALSE

RequestOf(cmd) == IF cmd = "http_start" THEN "http" ELSE "placeholder"

-----------------------------------------------------------------------------
\* A follow command arrives on a thread of its own.

Arrives(t, cmd, pc, ok) ==
  /\ cmd \in FollowCommands
  /\ follower[t].pc = "unborn"
  /\ fsm.generation < MaxGeneration
  /\ follower' = [follower EXCEPT ![t] = [pc |-> pc, cmd |-> cmd, ok |-> ok]]

Goes(t, pc) == follower' = [follower EXCEPT ![t].pc = pc]

\* The glance at the mode; a start that is turned away at once leaves no trace.
StartFollowReceived(t, cmd) ==
  /\ cmd \in {"start_follow", "http_start"}
  /\ fsm.motion_mode \notin FollowModes \cup {"Mapping", "Failed"}
  /\ Arrives(t, cmd, IF fsm.motion_mode = "Stopping" THEN "queueing" ELSE "waiting", FALSE)
  /\ UNCHANGED <<vars, pending_follow, request, running, engine>>

\* Mutant: the thread leaves the slot to the stop it has seen.
FollowQueuedAndLeft(t) ==
  /\ follower[t].pc = "queueing"
  /\ pending_follow' = RequestOf(follower[t].cmd)
  /\ Goes(t, "done")
  /\ UNCHANGED <<vars, request, running, engine>>

\* queue_pending_follow_request(): the slot holds one request, the last one.
FollowQueued(t) ==
  /\ follower[t].pc = "queueing"
  /\ pending_follow' = RequestOf(follower[t].cmd)
  /\ Goes(t, "draining")
  /\ UNCHANGED <<vars, request, running, engine>>

\* Both stops and the emergency stop clear the slot before they wait for anything.
StopFollowReceived(t, cmd) ==
  /\ cmd \in {"stop_follow", "http_stop"}
  /\ Arrives(t, cmd, "waiting", FALSE)
  /\ pending_follow' = NoRequest
  /\ UNCHANGED <<vars, request, running, engine>>

\* The emergency stop reaches the engine without the mutex.
EstopReceived(t, outcome) ==
  /\ Arrives(t, "http_estop", "answering", outcome = "done")
  /\ pending_follow' = NoRequest
  /\ following' = (following /\ outcome = "refused")
  /\ UNCHANGED <<vars, request, running, unconfirmed>>

EstopAnswered(t) ==
  /\ follower[t].pc = "answering" /\ follower[t].cmd = "http_estop"
  /\ running' = (running /\ ~follower[t].ok)
  /\ Goes(t, "waiting")
  /\ UNCHANGED <<vars, pending_follow, request, engine>>

\* get_follow asks the engine and copies the answer to running_ when it arrives.
GetFollowReceived(t) ==
  /\ Arrives(t, "http_get", "answering", following)
  /\ UNCHANGED <<vars, pending_follow, request, running, engine>>

GetFollowAnswered(t) ==
  /\ follower[t].pc = "answering" /\ follower[t].cmd = "http_get"
  /\ running' = follower[t].ok
  /\ Goes(t, "done")
  /\ UNCHANGED <<vars, pending_follow, request, engine>>

-----------------------------------------------------------------------------
\* Starting, under the mutex.  The part of the state that these steps change:

machine_state == <<nav_process, environment, odometry, navigation_env_ready,
                   localization_ready_flag>>

\* process_pending_follow_request() at the end of a transition.
Drain == IF pending_follow = NoRequest THEN Free ELSE "follow_drain"

BeginFollow(r) ==
  /\ fsm' = begin_follow(fsm)
  /\ invalidate_navigation_requests
  /\ request' = r
  /\ lock' = "follow_check"
  /\ UNCHANGED <<timers, confirmed, expected, threads, machine_state, running, engine>>

\* The decision under the mutex; a start that is rejected or redundant ends here.
StartFollowDecided(t) ==
  /\ lock = Free
  /\ follower[t].pc = "waiting" /\ follower[t].cmd \in {"start_follow", "http_start"}
  /\ Goes(t, "done")
  /\ UNCHANGED pending_follow
  /\ IF follow_decision(fsm) = "Start" THEN BeginFollow(RequestOf(follower[t].cmd))
     ELSE UNCHANGED <<vars, request, running, engine>>

\* A thread that has queued its request drains the slot itself if nobody else did.
FollowDrainer(t) ==
  /\ lock = Free
  /\ follower[t].pc = "draining"
  /\ Goes(t, "done")
  /\ lock' = Drain
  /\ UNCHANGED <<fsm, active_command, requests, threads, flags, machine,
                 pending_follow, request, running, engine>>

FollowDrained ==
  /\ lock = "follow_drain"
  /\ UNCHANGED follower
  /\ pending_follow' = NoRequest
  /\ IF pending_follow # NoRequest /\ follow_decision(fsm) = "Start"
     THEN BeginFollow(pending_follow)
     ELSE /\ lock' = Free
          /\ UNCHANGED <<fsm, active_command, requests, threads, flags, machine,
                         request, running, engine>>

\* Navigation is down, or could not be brought down.
NavigationGone(clean) ==
  /\ fsm' = CASE ~clean                              -> stopped(fsm, FALSE, TRUE)
              [] clean /\ request = "placeholder"    ->
                   follow_started(stopped(fsm, TRUE, TRUE), TRUE)
              [] clean /\ request = "http"           -> stopped(fsm, TRUE, TRUE)
  /\ lock' = IF clean /\ request = "http" THEN "follow_backend" ELSE Drain
  /\ request' = IF clean /\ request = "http" THEN request ELSE NoRequest
  /\ UNCHANGED <<active_command, requests, threads, follower, pending_follow, running, engine>>

FollowFindsNothing ==
  /\ lock = "follow_check"
  /\ ~is_navigation_environment_running
  /\ NavigationGone(TRUE)
  /\ nav_process' = ForgetDeadProcess
  /\ UNCHANGED <<flags, environment, odometry>>

FollowCleansUp ==
  /\ lock = "follow_check"
  /\ is_navigation_environment_running
  /\ CleansUp("follow_verify", "follow_survivor")
  /\ UNCHANGED follow_vars

FollowVerifies ==
  /\ lock \in {"follow_verify", "follow_survivor"}
  /\ NavigationGone(IsClean("follow_verify"))
  /\ ForgetsNavigation

\* /follow/start is called once, under the mutex, and not retried.
EngineCalled(outcome) ==
  /\ lock = "follow_backend"
  /\ following' = (following \/ outcome # "refused")
  /\ unconfirmed' = (unconfirmed \/ outcome = "lost")
  /\ lock' = IF outcome = "done" THEN "follow_answered" ELSE "follow_failed"
  /\ UNCHANGED <<fsm, active_command, requests, threads, flags, machine,
                 follower, pending_follow, request, running>>

FollowStarted ==
  /\ lock = "follow_answered"
  /\ running' = TRUE
  /\ fsm' = follow_started(fsm, FALSE)
  /\ request' = NoRequest
  /\ lock' = Drain
  /\ UNCHANGED <<active_command, requests, threads, flags, machine,
                 follower, pending_follow, engine>>

FollowFailed ==
  /\ lock = "follow_failed"
  /\ fsm' = stopped(fsm, FALSE, FALSE)
  /\ request' = NoRequest
  /\ lock' = Drain
  /\ UNCHANGED <<active_command, requests, threads, flags, machine,
                 follower, pending_follow, running, engine>>

-----------------------------------------------------------------------------
\* Stopping, under the mutex.

\* Mutant: the state machine leaves the follow whatever the engine answers.
FollowStoppedAnyway(t, outcome) ==
  /\ lock = Free
  /\ follower[t].pc = "waiting" /\ follower[t].cmd \in {"stop_follow", "http_stop"}
  /\ following' = (following /\ outcome = "refused")
  /\ running' = (running /\ outcome # "done")
  /\ fsm' = follow_stopped(fsm, TRUE)
  /\ Goes(t, "done")
  /\ UNCHANGED <<lock, active_command, requests, threads, flags, machine,
                 pending_follow, request, unconfirmed>>

\* The top-level stop_follow calls the engine only if running_ says so, type=follow
\* always; without an ok from the engine the state machine is left as it is.
FollowStopped(t, outcome) ==
  /\ lock = Free
  /\ follower[t].pc = "waiting" /\ follower[t].cmd \in {"stop_follow", "http_stop"}
  /\ IF follower[t].cmd = "http_stop" \/ running
     THEN /\ following' = (following /\ outcome = "refused")
          /\ running' = (running /\ outcome # "done")
          /\ fsm' = IF outcome = "done" THEN follow_stopped(fsm, TRUE) ELSE fsm
     ELSE /\ fsm' = follow_stopped(fsm, TRUE)
          /\ UNCHANGED <<running, following>>
  /\ Goes(t, "done")
  /\ UNCHANGED <<lock, active_command, requests, threads, flags, machine,
                 pending_follow, request, unconfirmed>>

EstopRecorded(t) ==
  /\ lock = Free
  /\ follower[t].pc = "waiting" /\ follower[t].cmd = "http_estop"
  /\ fsm' = follow_stopped(fsm, FALSE)
  /\ Goes(t, "done")
  /\ UNCHANGED <<lock, active_command, requests, threads, flags, machine,
                 pending_follow, request, running, engine>>

-----------------------------------------------------------------------------
\* stop_navigation beside follow, and the engine on its own.

\* A stop_navigation drains the slot before it releases the mutex.
StopVerifiesAndDrains == StopEnds(Drain) /\ UNCHANGED follow_vars

EngineGivesUp ==
  /\ following
  /\ following' = FALSE
  /\ UNCHANGED <<vars, follower, pending_follow, request, running, unconfirmed>>

-----------------------------------------------------------------------------
FollowReceived(t) ==
  \/ \E cmd \in {"start_follow", "http_start"} : StartFollowReceived(t, cmd)
  \/ \E cmd \in {"stop_follow", "http_stop"} : StopFollowReceived(t, cmd)
  \/ \E outcome \in Outcomes : EstopReceived(t, outcome)
  \/ GetFollowReceived(t)

FollowThreadStep(t) ==
  \/ FollowQueued(t)
  \/ EstopAnswered(t)
  \/ GetFollowAnswered(t)
  \/ StartFollowDecided(t)
  \/ FollowDrainer(t)
  \/ \E outcome \in Outcomes : FollowStopped(t, outcome)
  \/ EstopRecorded(t)

FollowStartStep ==
  \/ FollowFindsNothing
  \/ FollowCleansUp
  \/ FollowVerifies
  \/ \E outcome \in Outcomes : EngineCalled(outcome)
  \/ FollowStarted
  \/ FollowFailed
  \/ FollowDrained

StopStep ==
  \/ (StopBegins \/ StopCleansUp) /\ UNCHANGED follow_vars
  \/ StopVerifiesAndDrains
  \/ StopRejected /\ UNCHANGED follow_vars

FollowNext ==
  \/ Step /\ UNCHANGED follow_vars
  \/ StopVerifiesAndDrains
  \/ StopRejected /\ UNCHANGED follow_vars
  \/ \E t \in FollowThreads : FollowReceived(t) \/ FollowThreadStep(t)
  \/ FollowStartStep
  \/ EngineGivesUp

FollowSpec == FollowInit /\ [][FollowNext]_all_vars

\* The same fairness as Navigation's: threads run on, HTTP calls end (3 s at most),
\* a thread that waits for a mutex which stays free gets it.
FollowFairness ==
  /\ WF_all_vars(StartStep /\ UNCHANGED follow_vars)
  /\ WF_all_vars(StopStep)
  /\ \A w \in Workers : WF_all_vars(WorkerStep(w) /\ UNCHANGED follow_vars)
  /\ \A t \in FollowThreads : WF_all_vars(FollowThreadStep(t))
  /\ WF_all_vars(FollowStartStep)

FairFollowSpec == FollowSpec /\ FollowFairness

-----------------------------------------------------------------------------
(***************************************************************************)
(* Safety.                                                                 *)
(***************************************************************************)

\* FSM_DESIGN.md: a follow starts "after all known navigation processes have
\* exited".  From then on no navigation command occupies the gate, no confirmation
\* is awaited and no download that was under way comes back to fork a launcher.
FollowingAlone ==
  is_follow(fsm) =>
    /\ active_command = NoCommand
    /\ nav_process # "running" /\ ~environment
    /\ \A k \in Kind : ~pending[k]

\* A follow that is queued behind a stop is not forgotten: as long as it is in the
\* slot somebody is left who looks there, although the glance at the mode, the
\* queueing and the end of the stop are three unsynchronised steps.
QueuedFollowHasDrainer ==
  pending_follow # NoRequest =>
    \/ lock \in StopPhases \cup FollowHolders
    \/ \E t \in FollowThreads : follower[t].pc = "draining"

\* The safety of the follow commands: the types, a follow alone, a queue with a drainer.
FollowInv == FollowTypeOK /\ FollowingAlone /\ QueuedFollowHasDrainer

\* The engine moves the robot only while the state machine says so; Web motion is
\* admitted in Idle on the strength of this.  Three things defeat it, and nothing else:
\* a start whose answer is lost, an emergency stop, and the top-level stop_follow, which
\* trusts running_, reset perhaps by a status poll that was answered late.
EngineOnlyInFollow ==
  following =>
    \/ is_follow(fsm)
    \/ unconfirmed
    \/ \E t \in FollowThreads : follower[t].cmd \in {"http_estop", "stop_follow"}

\* Follow and navigation together drive the behaviour only as the arbiter allows.
FollowImplementsArbiter == Arbiter!ArbiterSpec

-----------------------------------------------------------------------------
(***************************************************************************)
(* What the repository says of follow and the code does not do.            *)
(***************************************************************************)

NoFollowCommandLeft ==
  /\ lock = Free
  /\ \A t \in FollowThreads : follower[t].pc \in {"unborn", "done"}

\* handle_follow_stop_command(): an emergency stop is sent to the engine first and
\* recorded afterwards "so the FSM is consistent".  When every follow command is
\* over, the engine moves the robot only if the state machine says Following.
EstopLeavesConsistent ==
  NoFollowCommandLeft /\ following => fsm.motion_mode = "Following"

-----------------------------------------------------------------------------
(***************************************************************************)
(* Liveness, under FairFollowSpec.                                         *)
(***************************************************************************)

\* Somebody waits: the thread of a command, or a request in the slot.
FollowWaits ==
  \/ pending_follow # NoRequest
  \/ \E t \in FollowThreads : follower[t].pc \notin {"unborn", "done"}

\* Nobody waits for ever, however stops, starts and other follows take the mutex before
\* them: when the cloud has sent its last command, all commands come to an end and the slot
\* is drained.
FollowEnds == FollowWaits ~> ~FollowWaits
=============================================================================
