----------------------------- MODULE Navigation -----------------------------
(***************************************************************************)
(* The navigation side of CommandExecutor: the commands that start, feed   *)
(* and stop the navigation environment, the background threads they leave  *)
(* behind, and the ROS callbacks that complete them.                       *)
(*                                                                         *)
(* Every command runs on a thread of its own and every one of them, every  *)
(* worker, timer and /rosout line takes behavior_execution_mutex_ before   *)
(* it touches the behaviour.  A handler that does not wait while it holds  *)
(* the mutex is therefore one step; start_navigation (HTTP and file work), *)
(* stop_navigation (seconds of killing) and a rosservice call hold it      *)
(* across several steps.  Odometry is delivered without the mutex.         *)
(*                                                                         *)
(* Messages to the cloud, telemetry and the pause/resume queue have no     *)
(* influence on this state and are left out.                               *)
(***************************************************************************)
EXTENDS RobotFsm, FiniteSets

CONSTANTS
  Workers,        \* the background threads that may ever be launched
  Commands,       \* the command types the cloud sends
  Lines,          \* the /rosout lines the navigation nodes print
  Points,         \* the lengths of target_points the cloud sends
  MaxGeneration,  \* bound: no start or stop is accepted at this generation
  MaxAttempt      \* bound: no command that needs an attempt is accepted at this number

Free    == "free"
Holders == {"start_check", "start_prepare", "stop_cleanup", "stop_verify", "stop_survivor"}

StartPhases == {"start_check", "start_prepare"}
StopPhases  == {"stop_cleanup", "stop_verify", "stop_survivor"}

NoCommand == "none"
ServiceCommands == {"start_task", "cancel_task", "start_recharge", "stop_recharge",
                    "clear_waypoints"}
Managed == {"start_navigation", "initial_pose", "navigation_task", "start_task",
            "cancel_task", "clear_waypoints"}
AllCommands == ServiceCommands \cup Managed \cup {"stop_navigation"}
AllLines == {"paused", "resumed", "env_ready", "waypoint_added", "cleared", "initialized"}

ASSUME WorkersAssumption == Workers \cap (Holders \cup {Free}) = {}
ASSUME InputsAssumption  == Commands \subseteq AllCommands /\ Lines \subseteq AllLines
ASSUME PointsAssumption  == Points \subseteq Nat
ASSUME BoundsAssumption  == MaxGeneration \in Nat /\ MaxAttempt \in Nat

\* What waits for a confirmation line: each kind has a pending flag, an attempt
\* number and a timeout thread per attempt.
Kind == {"env", "pose", "task", "clear"}

command_of == [env |-> "start_navigation", pose |-> "initial_pose",
               task |-> "navigation_task", clear |-> "clear_waypoints"]

VARIABLES
  fsm,             \* behavior_fsm_
  lock,            \* who holds behavior_execution_mutex_, and where it has got to
  active_command,  \* active_command_, the busy gate
  pending,         \* navigation_env_pending_, initial_pose_pending_, ...
  attempt,         \* navigation_env_attempt_id_, initial_pose_attempt_id_, ...
  timers,          \* timeout threads asleep: <<kind, attempt>>
  confirmed,       \* navigation_task_confirmed_points_
  expected,        \* navigation_task_expected_points_
  worker,          \* the background threads
  thrown,          \* commands whose handler threw, on the way to the catch block
  stop_waiting,    \* a stop_navigation waits for the mutex
  nav_process,     \* nav_process_: no pid, a live process, or one that has exited
  environment,     \* are navigation nodes alive on this machine (what pgrep sees)
  odometry,        \* a localization message waits in the subscriber queue
  navigation_env_ready,   \* navigation_env_ready_, an atomic
  localization_ready_flag \* localization_ready_, an atomic

behaviour == <<fsm, lock, active_command>>
requests  == <<pending, attempt, timers, confirmed, expected>>
threads   == <<worker, thrown, stop_waiting>>
flags     == <<navigation_env_ready, localization_ready_flag>>
machine   == <<nav_process, environment, odometry>>
vars      == <<behaviour, requests, threads, flags, machine>>

Thread == [pc : {"unborn", "preparing", "queued", "calling", "exited"},
           type : ServiceCommands \cup {"start_navigation", NoCommand},
           generation : Nat]

Unborn == [pc |-> "unborn", type |-> NoCommand, generation |-> 0]

\* The types of all but the mutex and the gate, which Follow and Mapping share.
FieldsOK ==
  /\ fsm \in RobotDto
  /\ pending \in [Kind -> BOOLEAN]
  /\ attempt \in [Kind -> Nat]
  /\ timers \subseteq Kind \X Nat
  /\ confirmed \in Nat
  /\ expected \in Nat
  /\ worker \in [Workers -> Thread]
  /\ thrown \subseteq Managed \X Nat
  /\ stop_waiting \in BOOLEAN
  /\ nav_process \in {"none", "running", "exited"}
  /\ environment \in BOOLEAN
  /\ odometry \in BOOLEAN
  /\ navigation_env_ready \in BOOLEAN
  /\ localization_ready_flag \in BOOLEAN

TypeOK ==
  /\ FieldsOK
  /\ lock \in Holders \cup Workers \cup {Free}
  /\ active_command \in Managed \cup {NoCommand}

\* The gateway starts Idle; navigation nodes may have outlived its last run.
Init ==
  /\ fsm = initial_state
  /\ lock = Free
  /\ active_command = NoCommand
  /\ pending = [k \in Kind |-> FALSE]
  /\ attempt = [k \in Kind |-> 0]
  /\ timers = {}
  /\ confirmed = 0
  /\ expected = 0
  /\ worker = [w \in Workers |-> Unborn]
  /\ thrown = {}
  /\ stop_waiting = FALSE
  /\ nav_process = "none"
  /\ environment \in BOOLEAN
  /\ odometry = FALSE
  /\ navigation_env_ready = FALSE
  /\ localization_ready_flag = FALSE

-----------------------------------------------------------------------------
\* Helpers that several handlers call.

is_navigation_environment_running ==
  \/ nav_process = "running"
  \/ navigation_env_ready
  \/ localization_ready_flag
  \/ environment

\* The same call forgets a pid it finds dead.
ForgetDeadProcess == IF nav_process = "exited" THEN "none" ELSE nav_process

\* admit_behavior_command(): may this command run in the state the mutex shows?
admit_behavior_command(type) ==
  /\ is_navigation(fsm)
  /\ type \notin {"stop_recharge", "cancel_task"} => fsm.navigation_environment_ready
  /\ type \in {"start_task", "start_recharge"} => fsm.localization_ready

\* try_begin_command(): unmanaged commands pass, managed ones need the free gate.
try_begin_command(type) ==
  type \in Managed => active_command = NoCommand

GateTakenBy(type) == IF type \in Managed THEN type ELSE active_command

\* finish_command(), called when the state machine is in state f.
finish_command(type, f) ==
  /\ fsm' = IF type = "start_navigation" /\ f.motion_mode = "StartingNavigation"
            THEN navigation_ready(f, FALSE) ELSE f
  /\ active_command' = IF active_command = type THEN NoCommand ELSE active_command

\* launch_background_task() for a thread that runs to the behaviour mutex.
Launch(type, pc) ==
  \E w \in Workers :
    /\ worker[w].pc = "unborn"
    /\ worker' = [worker EXCEPT ![w] =
                    [pc |-> pc, type |-> type, generation |-> fsm.generation]]

Exits(w) == worker' = [worker EXCEPT ![w].pc = "exited"]

\* Raise the pending flag under a new attempt number, with or without a timeout.
Request(k) ==
  /\ pending' = [pending EXCEPT ![k] = TRUE]
  /\ attempt' = [attempt EXCEPT ![k] = @ + 1]

RequestWithTimeout(k) ==
  /\ Request(k)
  /\ timers' = timers \cup {<<k, attempt[k] + 1>>}

\* The pending flag is consumed by the one completion that still matches it.
Consume(k) == pending' = [pending EXCEPT ![k] = FALSE]

\* Mutant: a completion does not compare attempt numbers.
IsPendingAtAll(k, a) == pending[k]

IsPending(k, a) == pending[k] /\ a = attempt[k]

-----------------------------------------------------------------------------
\* start_navigation: admitted in Idle, then a long section under the mutex.

StartBegins ==
  /\ "start_navigation" \in Commands
  /\ lock = Free
  /\ can_begin_navigation(fsm)
  /\ try_begin_command("start_navigation")
  /\ fsm.generation < MaxGeneration
  /\ fsm' = begin_navigation(fsm)
  /\ active_command' = "start_navigation"
  /\ lock' = "start_check"
  /\ UNCHANGED <<requests, threads, flags, machine>>

\* An environment is already running: finish_command() turns the start into a fault.
StartRefused ==
  /\ lock = "start_check"
  /\ is_navigation_environment_running
  /\ finish_command("start_navigation", fsm)
  /\ nav_process' = ForgetDeadProcess
  /\ lock' = Free
  /\ UNCHANGED <<requests, threads, flags, environment, odometry>>

StartChecked ==
  /\ lock = "start_check"
  /\ ~is_navigation_environment_running
  /\ nav_process' = ForgetDeadProcess
  /\ lock' = "start_prepare"
  /\ UNCHANGED <<fsm, active_command, requests, threads, flags, environment, odometry>>

\* No uuid for the map, or no map named (the flags are cleared before that test).
StartAborted ==
  /\ lock = "start_prepare"
  /\ \/ UNCHANGED flags
     \/ navigation_env_ready' = FALSE /\ localization_ready_flag' = FALSE
  /\ finish_command("start_navigation", navigation_start_aborted(fsm))
  /\ lock' = Free
  /\ UNCHANGED <<requests, threads, machine>>

\* A file operation throws: the mutex is released before the catch block takes it again.
StartThrows ==
  /\ lock = "start_prepare"
  /\ thrown' = thrown \cup {<<"start_navigation", fsm.generation>>}
  /\ lock' = Free
  /\ UNCHANGED <<fsm, active_command, requests, worker, stop_waiting, flags, machine>>

StartLaunchesWorker ==
  /\ lock = "start_prepare"
  /\ Launch("start_navigation", "preparing")
  /\ navigation_env_ready' = FALSE
  /\ localization_ready_flag' = FALSE
  /\ lock' = Free
  /\ UNCHANGED <<fsm, active_command, requests, thrown, stop_waiting, machine>>

\* start_navigation_async after its download, which ran without the mutex.
PreparedTooLate(w) ==
  /\ lock = Free
  /\ worker[w].pc = "preparing"
  /\ ~navigation_current(fsm, worker[w].generation)
  /\ Exits(w)
  /\ UNCHANGED <<behaviour, requests, thrown, stop_waiting, flags, machine>>

\* The deployment or the fork failed, or either threw.
PreparationFails(w) ==
  /\ lock = Free
  /\ worker[w].pc = "preparing"
  /\ navigation_current(fsm, worker[w].generation)
  /\ \/ UNCHANGED flags
     \/ navigation_env_ready' = FALSE /\ localization_ready_flag' = FALSE
  /\ finish_command("start_navigation", navigation_start_aborted(fsm))
  /\ Exits(w)
  /\ UNCHANGED <<lock, requests, thrown, stop_waiting, machine>>

EnvironmentLaunched(w) ==
  /\ lock = Free
  /\ worker[w].pc = "preparing"
  /\ navigation_current(fsm, worker[w].generation)
  /\ nav_process' = "running"
  /\ environment' = TRUE
  /\ RequestWithTimeout("env")
  /\ Exits(w)
  /\ UNCHANGED <<behaviour, confirmed, expected, thrown, stop_waiting, flags, odometry>>

-----------------------------------------------------------------------------
\* Commands of a running navigation.  Each leaves a completion outstanding.

Admitted(type) ==
  /\ type \in Commands
  /\ lock = Free
  /\ admit_behavior_command(type)
  /\ try_begin_command(type)

\* The flag is cleared before the pose is parsed; a malformed pose throws before
\* the timeout thread exists.
InitialPose ==
  /\ Admitted("initial_pose") /\ attempt["pose"] < MaxAttempt
  /\ active_command' = "initial_pose"
  /\ localization_ready_flag' = FALSE
  /\ \/ RequestWithTimeout("pose") /\ UNCHANGED thrown
     \/ /\ Request("pose")
        /\ thrown' = thrown \cup {<<"initial_pose", fsm.generation>>}
        /\ UNCHANGED timers
  /\ UNCHANGED <<fsm, lock, confirmed, expected, worker, stop_waiting,
                 navigation_env_ready, machine>>

\* An empty list of points takes and releases the gate in the same step: no change.
NavigationTask ==
  /\ Admitted("navigation_task") /\ attempt["task"] < MaxAttempt
  /\ active_command' = "navigation_task"
  /\ RequestWithTimeout("task")
  /\ confirmed' = 0
  /\ expected' \in Points \ {0}
  /\ \/ UNCHANGED thrown
     \/ thrown' = thrown \cup {<<"navigation_task", fsm.generation>>}
  /\ UNCHANGED <<fsm, lock, worker, stop_waiting, flags, machine>>

\* exec_rosservice_cmd() for the commands that only call a service.
ServiceCommand(type) ==
  /\ Admitted(type)
  /\ type # "clear_waypoints"
  /\ active_command' = GateTakenBy(type)
  /\ Launch(type, "queued")
  /\ UNCHANGED <<fsm, lock, requests, thrown, stop_waiting, flags, machine>>

ClearWaypoints ==
  /\ Admitted("clear_waypoints") /\ attempt["clear"] < MaxAttempt
  /\ active_command' = "clear_waypoints"
  /\ RequestWithTimeout("clear")
  /\ Launch("clear_waypoints", "queued")
  /\ UNCHANGED <<fsm, lock, confirmed, expected, thrown, stop_waiting, flags, machine>>

-----------------------------------------------------------------------------
\* A service worker: checks its generation, calls under the mutex, checks again.

ServiceTooLate(w) ==
  /\ lock = Free
  /\ worker[w].pc = "queued"
  /\ ~navigation_current(fsm, worker[w].generation)
  /\ Exits(w)
  /\ UNCHANGED <<behaviour, requests, thrown, stop_waiting, flags, machine>>

ServiceCalled(w) ==
  /\ lock = Free
  /\ worker[w].pc = "queued"
  /\ navigation_current(fsm, worker[w].generation)
  /\ worker' = [worker EXCEPT ![w].pc = "calling"]
  /\ lock' = w
  /\ UNCHANGED <<fsm, active_command, requests, thrown, stop_waiting, flags, machine>>

ServiceReturns(w, success) ==
  /\ lock = w
  /\ worker[w].pc = "calling"
  /\ LET type == worker[w].type IN
     IF ~navigation_current(fsm, worker[w].generation) THEN UNCHANGED <<fsm, active_command>>
     ELSE finish_command(type,
            CASE success /\ type \in {"start_task", "start_recharge"} -> task_state(fsm, "Running")
              [] success /\ type \in {"cancel_task", "stop_recharge"} -> task_state(fsm, "Cancelled")
              [] OTHER -> fsm)
  /\ Exits(w)
  /\ lock' = Free
  /\ UNCHANGED <<requests, thrown, stop_waiting, flags, machine>>

-----------------------------------------------------------------------------
\* complete_..._result(): what the confirmation line and the timeout both call.

\* Mutant: a failed environment leaves the busy gate occupied.
CompleteEnvSilently(a, success) ==
  IF ~IsPending("env", a) THEN UNCHANGED <<fsm, active_command, pending, flags>>
  ELSE /\ Consume("env")
       /\ IF ~is_navigation(fsm) THEN UNCHANGED <<fsm, active_command, flags>>
          ELSE /\ fsm' = navigation_ready(fsm, success)
               /\ active_command' = IF success THEN NoCommand ELSE active_command
               /\ navigation_env_ready' = success
               /\ localization_ready_flag' = FALSE

CompleteEnv(a, success) ==
  IF ~IsPending("env", a) THEN UNCHANGED <<fsm, active_command, pending, flags>>
  ELSE /\ Consume("env")
       /\ IF ~is_navigation(fsm) THEN UNCHANGED <<fsm, active_command, flags>>
          ELSE /\ finish_command("start_navigation", navigation_ready(fsm, success))
               /\ navigation_env_ready' = success
               /\ localization_ready_flag' = FALSE

\* Mutant: the result is recorded but the command is not finished.
CompletePoseUnfinished(a, success) ==
  IF ~is_navigation(fsm) \/ ~IsPending("pose", a)
  THEN UNCHANGED <<fsm, active_command, pending, flags>>
  ELSE /\ Consume("pose")
       /\ localization_ready_flag' = success
       /\ fsm' = localization_ready(fsm, success)
       /\ UNCHANGED <<active_command, navigation_env_ready>>

CompletePose(a, success) ==
  IF ~is_navigation(fsm) \/ ~IsPending("pose", a)
  THEN UNCHANGED <<fsm, active_command, pending, flags>>
  ELSE /\ Consume("pose")
       /\ localization_ready_flag' = success
       /\ finish_command("initial_pose", localization_ready(fsm, success))
       /\ UNCHANGED navigation_env_ready

CompleteOther(k, a) ==
  /\ IF ~is_navigation(fsm) \/ ~IsPending(k, a)
     THEN UNCHANGED <<fsm, active_command, pending>>
     ELSE Consume(k) /\ finish_command(command_of[k], fsm)
  /\ UNCHANGED flags

Complete(k, a, success) ==
  CASE k = "env"  -> CompleteEnv(a, success)
    [] k = "pose" -> CompletePose(a, success)
    [] OTHER      -> CompleteOther(k, a)

TimeoutFires(k, a) ==
  /\ lock = Free
  /\ <<k, a>> \in timers
  /\ timers' = timers \ {<<k, a>>}
  /\ Complete(k, a, FALSE)
  /\ UNCHANGED <<lock, attempt, confirmed, expected, threads, machine>>

-----------------------------------------------------------------------------
\* initial_pose_rosout_callback(): any node may print any line at any time, and
\* the lines carry nothing that says which request they answer.

Reads(line) == line \in Lines /\ lock = Free /\ is_navigation(fsm)

TaskLineRead(line, status) ==
  /\ Reads(line)
  /\ fsm' = task_state(fsm, status)
  /\ UNCHANGED <<lock, active_command, requests, threads, flags, machine>>

PauseLineRead  == TaskLineRead("paused", "Paused")
ResumeLineRead == TaskLineRead("resumed", "Running")

ConfirmationRead(line, k) ==
  /\ Reads(line)
  /\ pending[k]
  /\ Complete(k, attempt[k], TRUE)
  /\ UNCHANGED <<lock, attempt, timers, confirmed, expected, threads, machine>>

EnvReadyLineRead    == ConfirmationRead("env_ready", "env")
ClearedLineRead     == ConfirmationRead("cleared", "clear")
InitializedLineRead == ConfirmationRead("initialized", "pose")

\* One line per waypoint; the last one expected completes the request.
WaypointLineRead ==
  /\ Reads("waypoint_added")
  /\ pending["task"]
  /\ confirmed' = confirmed + 1
  /\ IF expected > 0 /\ confirmed + 1 >= expected
     THEN Complete("task", attempt["task"], TRUE)
     ELSE UNCHANGED <<fsm, active_command, pending, flags>>
  /\ UNCHANGED <<lock, attempt, timers, expected, threads, machine>>

-----------------------------------------------------------------------------
\* localization_callback() and the processes around the gateway.

OdometryPublished ==
  /\ environment /\ ~odometry
  /\ odometry' = TRUE
  /\ UNCHANGED <<behaviour, requests, threads, flags, nav_process, environment>>

\* Needs no mutex and looks at no state: a message may outlive its publisher.
LocalizationCallback ==
  /\ odometry
  /\ odometry' = FALSE
  /\ localization_ready_flag' = TRUE
  /\ UNCHANGED <<behaviour, requests, threads, navigation_env_ready, nav_process, environment>>

LauncherExits ==
  /\ nav_process = "running"
  /\ nav_process' = "exited"
  /\ UNCHANGED <<behaviour, requests, threads, flags, environment, odometry>>

EnvironmentDies ==
  /\ environment
  /\ environment' = FALSE
  /\ UNCHANGED <<behaviour, requests, threads, flags, nav_process, odometry>>

-----------------------------------------------------------------------------
\* stop_navigation waits for the mutex first and begins the stop under it.  It is
\* rejected only in mapping and follow, which no command of this module enters.

StopRequested ==
  /\ "stop_navigation" \in Commands
  /\ ~stop_waiting
  /\ lock \notin StopPhases
  /\ fsm.generation < MaxGeneration
  /\ stop_waiting' = TRUE
  /\ UNCHANGED <<behaviour, requests, worker, thrown, flags, machine>>

invalidate_navigation_requests ==
  /\ active_command' = NoCommand
  /\ pending' = [k \in Kind |-> FALSE]
  /\ attempt' = [k \in Kind |-> attempt[k] + 1]

StopBegins ==
  /\ stop_waiting
  /\ lock = Free
  /\ can_begin_stop(fsm)
  /\ fsm' = begin_stop(fsm)
  /\ invalidate_navigation_requests
  /\ stop_waiting' = FALSE
  /\ lock' = "stop_cleanup"
  /\ UNCHANGED <<timers, confirmed, expected, worker, thrown, flags, machine>>

\* handle_stop_navigation(): the kills may leave the launcher or some nodes alive;
\* the pid is forgotten either way.
CleansUp(verify, survivor) ==
  /\ \/ lock' = verify
     \/ lock' = survivor /\ nav_process = "running"
  /\ nav_process' = "none"
  /\ environment' \in {FALSE, environment}
  /\ navigation_env_ready' = FALSE
  /\ localization_ready_flag' = FALSE
  /\ UNCHANGED <<fsm, active_command, requests, threads, odometry>>

\* Mutant: the verdict does not look at what is still running.
IsCleanByExitStatus(verify) == lock = verify

\* Its verdict reads the flags, which odometry may have raised again; then it clears
\* them once more.
IsClean(verify) == lock = verify /\ ~is_navigation_environment_running

ForgetsNavigation ==
  /\ nav_process' = ForgetDeadProcess
  /\ navigation_env_ready' = FALSE
  /\ localization_ready_flag' = FALSE
  /\ UNCHANGED <<environment, odometry>>

StopCleansUp ==
  /\ lock = "stop_cleanup"
  /\ CleansUp("stop_verify", "stop_survivor")

StopEnds(next) ==
  /\ lock \in {"stop_verify", "stop_survivor"}
  /\ fsm' = stopped(fsm, IsClean("stop_verify"), FALSE)
  /\ ForgetsNavigation
  /\ lock' = next
  /\ UNCHANGED <<active_command, requests, threads>>

StopVerifies == StopEnds(Free)

\* The rejection in mapping and follow, for the modules that add them.
StopRejected ==
  /\ stop_waiting
  /\ lock = Free
  /\ ~can_begin_stop(fsm)
  /\ stop_waiting' = FALSE
  /\ UNCHANGED <<behaviour, requests, worker, thrown, flags, machine>>

-----------------------------------------------------------------------------
\* The catch block of execute(), when the mutex is free again.

\* Mutant: the handler of a late exception does not ask for a launcher.
ExceptionHandledBlindly(type, g) ==
  /\ lock = Free
  /\ <<type, g>> \in thrown
  /\ thrown' = thrown \ {<<type, g>>}
  /\ finish_command(type, IF type = "start_navigation"
                          THEN navigation_start_aborted(fsm) ELSE fsm)
  /\ UNCHANGED <<lock, requests, worker, stop_waiting, flags, machine>>

ExceptionHandled(type, g) ==
  /\ lock = Free
  /\ <<type, g>> \in thrown
  /\ thrown' = thrown \ {<<type, g>>}
  /\ finish_command(type, IF type = "start_navigation" /\ nav_process = "none"
                          THEN navigation_start_aborted(fsm) ELSE fsm)
  /\ UNCHANGED <<lock, requests, worker, stop_waiting, flags, machine>>

-----------------------------------------------------------------------------
WorkerStep(w) ==
  \/ PreparedTooLate(w)
  \/ PreparationFails(w)
  \/ EnvironmentLaunched(w)
  \/ ServiceTooLate(w)
  \/ ServiceCalled(w)
  \/ \E success \in BOOLEAN : ServiceReturns(w, success)

StartStep ==
  \/ StartRefused
  \/ StartChecked
  \/ StartAborted
  \/ StartThrows
  \/ StartLaunchesWorker

CloudStep ==
  \/ StartBegins
  \/ InitialPose
  \/ NavigationTask
  \/ \E type \in ServiceCommands : ServiceCommand(type)
  \/ ClearWaypoints
  \/ StopRequested

LineRead ==
  \/ PauseLineRead
  \/ ResumeLineRead
  \/ EnvReadyLineRead
  \/ WaypointLineRead
  \/ ClearedLineRead
  \/ InitializedLineRead

MachineStep ==
  \/ OdometryPublished
  \/ LocalizationCallback
  \/ LauncherExits
  \/ EnvironmentDies

\* Everything but the end of a stop, which Follow prolongs.
Step ==
  \/ CloudStep
  \/ StartStep
  \/ StopBegins
  \/ StopCleansUp
  \/ \E w \in Workers : WorkerStep(w)
  \/ \E t \in timers : TimeoutFires(t[1], t[2])
  \/ \E t \in thrown : ExceptionHandled(t[1], t[2])
  \/ LineRead
  \/ MachineStep

Next == Step \/ StopVerifies

Spec == Init /\ [][Next]_vars

-----------------------------------------------------------------------------
(***************************************************************************)
(* Fairness.  A thread that is running goes on running, a sleep ends, a    *)
(* rosservice call is under `timeout 10s`, and a thread that waits for a   *)
(* mutex which stays free gets it.  Nothing is assumed of the cloud, of    *)
(* the lines the nodes print or of the nodes themselves.                   *)
(***************************************************************************)
Fairness ==
  /\ WF_vars(StartStep)
  /\ WF_vars(StopBegins \/ StopCleansUp \/ StopVerifies)
  /\ \A w \in Workers : WF_vars(WorkerStep(w))
  /\ WF_vars(\E t \in timers : TimeoutFires(t[1], t[2]))
  /\ WF_vars(\E t \in thrown : ExceptionHandled(t[1], t[2]))

FairSpec == Spec /\ Fairness

-----------------------------------------------------------------------------
(***************************************************************************)
(* Safety.                                                                 *)
(***************************************************************************)

AnyoneCurrent(pc, type) ==
  \E w \in Workers : /\ worker[w].pc \in pc
                     /\ worker[w].type = type
                     /\ navigation_current(fsm, worker[w].generation)

WillTimeOut(k) == pending[k] /\ <<k, attempt[k]>> \in timers

WillBeCaught(type) == \E g \in 0..fsm.generation : <<type, g>> \in thrown

\* The busy gate is never orphaned: as long as a command occupies it, some thread
\* is left that will release it whatever the nodes do - the handler itself, a
\* worker of this generation, the timeout of the current attempt, or a pending
\* catch block.  try_begin_command() answers 409 to every managed command until
\* then, so an orphaned gate would disable the robot until a stop.
GateHasOwner ==
  /\ active_command = "start_navigation" =>
       \/ lock \in StartPhases
       \/ AnyoneCurrent({"preparing"}, "start_navigation")
       \/ WillTimeOut("env")
       \/ WillBeCaught("start_navigation")
  /\ active_command = "initial_pose" =>
       WillTimeOut("pose") \/ WillBeCaught("initial_pose")
  /\ active_command = "navigation_task" =>
       WillTimeOut("task") \/ WillBeCaught("navigation_task")
  /\ active_command \in Managed \cap ServiceCommands =>
       AnyoneCurrent({"queued", "calling"}, active_command)

\* Outside navigation nothing of navigation is left over: no command occupies the
\* gate, and in Idle - where follow, mapping and Web motion are admitted - no
\* launcher runs and no confirmation is awaited that could still change anything.
IdleHasNoNavigation ==
  /\ ~is_navigation(fsm) => active_command = NoCommand
  /\ fsm.motion_mode = "Idle" =>
       nav_process # "running" /\ \A k \in Kind : ~pending[k]

\* The two records of "the environment is ready", one in the state machine and one
\* in an atomic, are set in different calls; the first never claims readiness that
\* the second denies, and only a mode that can use the environment claims it.
ReadinessAgrees ==
  fsm.navigation_environment_ready =>
    \/ fsm.motion_mode \in {"NavigationReady", "Navigating"} /\ navigation_env_ready
    \/ fsm.motion_mode = "Stopping"

\* A start_navigation worker that was downloading while a stop and another start
\* went by never launches a second environment: navigation.sh is forked only when
\* no earlier one and none of its nodes are alive.
OneEnvironment ==
  [][nav_process # "running" /\ nav_process' = "running"
       => nav_process = "none" /\ ~environment]_vars

\* FSM_DESIGN.md: "Attempt IDs invalidate localization, environment, waypoint and
\* clear-point timeouts."  A timeout thread that outlived its attempt, because the
\* request was confirmed, repeated or cancelled by a stop, disturbs nothing.
StaleTimeoutHarmless ==
  [][\A t \in timers \ timers' : t[2] # attempt[t[1]] =>
       UNCHANGED <<fsm, active_command, pending, flags>>]_vars

\* The navigation commands drive the behaviour only as the arbiter allows.
OwnerOf(mode) ==
  CASE mode = "Idle"             -> "nobody"
    [] mode \in NavigationModes  -> "navigation"
    [] mode \in FollowModes      -> "follow"
    [] mode \in MappingModes     -> "mapping"
    [] mode = "Stopping"         -> "stopping"
    [] mode = "Failed"           -> "fault"

Arbiter == INSTANCE BehaviorArbiter
             WITH owner <- OwnerOf(fsm.motion_mode), epoch <- fsm.generation

ImplementsArbiter == Arbiter!ArbiterSpec

-----------------------------------------------------------------------------
(***************************************************************************)
(* What documents of the repository say and the code does not do.          *)
(***************************************************************************)

\* FSM_DESIGN.md: "A stop request invalidates the generation before waiting for an
\* operation already in progress to leave the mutex."  Once a stop is requested no
\* service is called and no environment launched on behalf of an older request.
StopInvalidatesFirst ==
  [][stop_waiting /\ stop_waiting' =>
       /\ ~\E w \in Workers : worker[w].pc = "queued" /\ worker'[w].pc = "calling"
       /\ ~(nav_process # "running" /\ nav_process' = "running")]_vars

\* FSM_DESIGN.md: "Generation numbers invalidate older startup and service
\* workers."  The catch block of an older start changes nothing of a newer one.
OlderStartupInvalidated ==
  [][\A t \in thrown \ thrown' : t[2] # fsm.generation =>
       UNCHANGED <<fsm, active_command>>]_vars

-----------------------------------------------------------------------------
(***************************************************************************)
(* Liveness, under FairSpec.                                               *)
(***************************************************************************)

\* Whatever the nodes print or fail to print, a command that occupies the busy gate
\* is over some day: its worker returns, its timeout fires or it is caught.
GateReleased == active_command # NoCommand ~> active_command = NoCommand

\* A stop that waits for the mutex behind calls and starts ends in Idle or a fault.
StopCompletes == stop_waiting ~> fsm.motion_mode \in {"Idle", "Failed"} /\ ~stop_waiting
=============================================================================
