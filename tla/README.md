# A TLA+ verification of the robot gateway

`robot_dog` (ROS node `/leggedog_gateway_node`) is the bridge between a cloud service and
a legged robot: it takes JSON commands from a WebSocket, decides which *behaviour* may own
the robot (navigation, follow, mapping), starts and kills the processes of that behaviour,
calls ROS services, and reports back. This directory holds TLA+ models of its concurrent
core, the TLC configurations that check them, and theorems proved with TLAPS.

All paths below are relative to the repository; line numbers are those of this commit.

## 1. Inventory

### 1.1 Threads and shared state

* Each cloud command except motion control gets **a thread of its own**
  (`gateway.cc:1083`); it ends in `CommandExecutor::execute()` and `robot_bt()`.
* **Background threads** (`launch_background_task()`, `CommandExecutor.cc:427`) download
  maps, call `rosservice`, upload maps and sleep until a timeout.
* **ROS callbacks** read `/rosout` lines (the confirmations that navigation nodes print),
  localization and telemetry.
* `behavior_execution_mutex_` serialises what touches the behaviour; several atomics are
  written beside it. The gateway's WebSocket client has one **client thread** of its own, the
  battery forwarder another.
* **Watchdogs**, of the motion control and of the camera, run on a thread each.
* **`main()`** ends all of this in an order of its own when `ros::spin()` returns.

Three devices keep this in order, and most of the models are about whether they do: the
state machine's **generation** (a counter raised by each begin and stop, compared by
workers when they come back), per-request **attempt numbers** (compared by timeouts), and
the **busy gate** `active_command_` (one managed command at a time).

### 1.2 Components

| Component | State | Operations | Hard behaviour | What makes it correct |
|---|---|---|---|---|
| `RobotFsm` (`include/RobotFsm.h`) | mode, task status, two readiness flags, generation | begin/ready/abort navigation, begin/end stop, begin/start/stop follow, begin/process/fail mapping | called from several threads, in places without the mutex | behaviours exclude each other; ownership changes hands only by way of a stop |
| Navigation commands (`CommandExecutor.cc`, `NavigationLifecycleHandler.cc`) | busy gate, four pending flags with attempts, `nav_process_`, readiness atomics | start, stop, initial pose, waypoint list, clear, task and recharge services, `/rosout` lines, timeouts | downloads without the mutex, a stop in between, exceptions handled later, lines that carry no request id | no second environment, nothing left in Idle, the gate never orphaned, stale timeouts inert |
| Follow commands and engine client (`CommandExecutor.cc`, `follow/followHandle.cc`) | one-slot queue, `running_` | start (two ways), stop (two ways), emergency stop, status poll | queued behind a stop after a glance without the mutex; answers of the engine lost; emergency stop outside the mutex | a follow runs alone; a queued one is not forgotten; the engine moves only in a follow |
| Mapping workflow, `MappingHandle` (`CommandExecutor.cc`, `mapping/maphandle.cc`) | capture pid, uploader flag, processing attempt | start capture, stop and upload, complete, processing timeout | an uploader outside the mutex | a capture runs alone, processing ends, the uploader ends |
| Pause and resume (`CommandExecutor.cc`) | request queue, worker flag, active transition, `task_paused_` | enqueue, toggle service, lines read, reset by a stop | the robot only offers a *toggle*; its lines arrive later | the queue has a worker; the records agree; at rest the record is the truth |
| Web connection (`gateway/gateway.cc`) | connection handle, two flags, one timer flag | connect, open, fail, close, send, time out | other threads clear the flags beside the client thread | one session; never stranded offline |
| Heartbeat (`gateway.cc`) | second connection, number of beating chains | open, close, fail, send, and each opening of the Web connection | chains are started by two kinds of events and end one by one; a failed attempt is not repeated | a connected heartbeat beats, has no rival, and only a failed attempt silences it |
| Command intake (`gateway.cc`) | ring and set of the last 100 command ids | expiry, duplicates, dispatch to threads | retries of a command that is under way, or that was turned away before | nothing done twice within the window, nothing refused that was not done |
| Outbox (`CommandExecutor.cc:246-393`) | queue of unsent messages, limit of 50 | queue, evict, take, send, put back | several flushers, sends that give up and run all the same, a flag that rises beside a flush | a message is lost or kept twice by no interleaving; none waits for lack of a flush |
| `BmsForwarder` | connection handles and flags, generation, newest reading | reading, open, close, fail, send, status and reconnect timers | events of old connections write the flags of the new one; a reading comes between send and clear | the newest reading gets through; status and reconnection do not dry up |
| `MotionHandle` | last motion, last pose, ages | pose, velocity, stop, watchdog, robot state | the filter of repeated poses, the watchdog and the behaviours each know a part | only Idle moves the base; an old motion is over; what is ignored was told |
| PTZ (`hikvision/hikvihandle.cc`) | is a continuous movement on record | turn, halt, relative move, watchdog, destructor | HTTP answers that are lost | a camera that turns is watched and stops |
| Reports (`CommandExecutor.cc`) | last round, point reached, failure being printed | lists, lines | lines late, twice, lost, and bound to no task | told once |
| Upload rate (`CommandExecutor.cc`) | interval and last upload, two atomics | ask, set | two askers and a setter without a mutex | the interval is kept |
| End of the program (`main.cc`) | flags and thread lists of gateway and executor | stop, joins | threads that start threads, sends to a client thread that has ended | ends, and no gateway thread outlives the executor |
| `BatteryProvider`, `LightPolicy` | last readings | select and convert | staleness | a table |
| `robotState`, `LocalWebsocketServer`, `modifyHandle`, broadcast, AI acknowledgements, file transfer, process runner, wiring | caches or none | input and output | - | no protocol of their own |

Interaction: intake -> `execute()` -> handlers -> `RobotFsm`, the process runner, the
engine's HTTP interface, ROS services; results go to the outbox and from there to
`sendToWeb()`. Follow preempts navigation through the same cleanup as `stop_navigation`;
mapping, navigation and follow share the mutex and the state machine, mapping and navigation
the gate.

`PROJECT.json` lists every component with its status, and the hazards of the code line by
line, with the properties that cover them or the reason why none does.

## 2. Modules

| Module | Models | Built on |
|---|---|---|
| `BehaviorArbiter` | the abstract promise: who owns the robot, and when that may change | - |
| `RobotFsm` | `include/RobotFsm.h`, each transition as an operator on the DTO | - |
| `Navigation` | navigation commands, workers, timeouts, lines, stop | `RobotFsm` |
| `Follow` | follow commands and engine beside navigation | `Navigation` |
| `Mapping` | the mapping workflow beside navigation and follow: all three behaviours at once | `Follow` |
| `TaskState` | the pause queue beside navigation | `Navigation` |
| `WebLink` | the gateway's connection to the Web server | - |
| `MessageStore` | the abstract promise of the outbox: what is kept, sent, given up | - |
| `Outbox` | the queue of unsent messages on that connection | `WebLink` |
| `BmsForwarder`, `CommandIntake`, `Heartbeat`, `HikvisionHandle`, `MotionHandle`, `TaskReports`, `UploadRate` | the parts of those names: the battery's connection, the intake of commands, the second connection, the camera, motion control, what is told of a task, how often a position goes out | - |
| `Shutdown` | the end of `main()` against every thread it ends | - |
| `MCParts` | composes the last eight, which share no state, for TLC: the first state picks the one that goes on | those eight |
| `MCNavigation`, `MCFollow`, `MCMapping`, `MCTaskState` | symmetry sets for TLC, nothing else | the module of that name |
| `NavigationProofs`, `NavigationSafety` | proofs about `Navigation` | `Navigation` |
| `BehaviourProofs` | proofs about `Follow` and `Mapping` | those, `NavigationSafety` |
| `WebLinkProofs` | proofs about `WebLink` | `WebLink` |
| `OutboxProofs` | proofs about `Outbox`, and again about the link under it | `Outbox`, `WebLinkProofs` |
| `GatewayProofs` | proofs about `Heartbeat`, `Shutdown`, `CommandIntake` | those |
| `TaskProofs` | proofs about `TaskState`, and again about navigation beside it | `TaskState`, `NavigationSafety` |
| `PartsProofs` | proofs about `HikvisionHandle`, `MotionHandle`, `BmsForwarder`, `TaskReports`, `UploadRate`, and the types of all eight parts | `MCParts`, `GatewayProofs` |

### 2.1 How state and actions correspond to the code

**`RobotFsm`.** The record `fsm` is `RobotDto`; `begin_navigation(f)`, `stopped(f, ...)`
and so on are the methods, as functions of the record. Tests of the methods' return value
are separate operators (`can_begin_navigation`, `follow_decision`). Display strings and a
`health` field that nothing sets are left out.

**`Navigation`.** The grain of atomicity is the mutex: a handler that does not wait while
it holds it is one action, because whatever else reads that state takes the same mutex.
Where it does wait (file and HTTP work of a start, seconds of killing in a stop, a
`rosservice` call) the holder has phases in the variable `lock`, and the steps that do not
need the mutex interleave: odometry (`localization_callback()` writes its atomic without the
mutex), the death of a process, the arrival of a stop. `worker` is the set of background
threads with the generation they captured; `timers` the sleeping timeouts with the
attempt they captured; `thrown` the exceptions between `robot_bt()` and the catch block
of `execute()`, which takes the mutex *again*. Every other thread waits for the mutex by
having `lock = Free` in its guard. Any node may print any line at any time, and lines carry
no request id. A stop may fail to kill the launcher or the nodes.

**`Follow`.** `follower` is one thread per command; `lock` gets the phases of
a follow start; `following` is what the engine does, `running` what the gateway
believes. A call to the engine is *done*, *refused*, or *lost* (executed, answer lost).
`stop_navigation` ends by draining the slot, so its last action is prolonged here
(`StopEnds(Drain)`).

**`Mapping`.** `uploader` is the program counter of `stop_and_uploadmap_async()`, which
runs without the mutex; in one place its last two steps (`finish_command()` and the
destructor that clears the flag) are visibly apart. `processing_timers` are the
300-second timeouts. `MappingSpec` has all three behaviours: its steps are those of `Follow`
(with navigation's) and those of mapping, and neither kind touches the other's own state.

**`TaskState`.** `standing` is the robot's real state, `said` the lines printed and not
yet read, `task_paused` the gateway's record. A toggle that reported failure may have
toggled. Starting a task and stopping navigation reset the record as the code does.

**`WebLink`.** One action per handler, timer and posted task, for the client thread runs
them one at a time; `mark_web_disconnected()` on another thread is two actions and a posted
third, for its two stores and its post are not atomic. A connection that is `failed` or
`dropped` is closed in `websocketpp` while its handler has yet to run. Because
`OneSession` holds, the branch of `on_client_open()` for a stale handle cannot be
reached and is not written.

**`Outbox`.** `step` is the program counter of each thread in `send_to_cloud()` and
`try_flush_msgs()`, `hand` the message it has taken and not yet sent. The mutex of the queue
is held in single actions only, never over a send. The flush asks for the connection once
(`FlushBegins`) and then takes until the queue is empty or a send fails (`Take`, `Answered`,
`PutBack`). A thread posts its send to the client thread and waits (`Posts`, `Answers`), or
gives up after two seconds (`GivesUp`): then `WebLink` has a late send that may still run.
The client thread flushes when a connection opens, sends at once, and does nothing else
meanwhile. Every step of the link is a step of `WebLink` with the outbox beside it, except
`ClientSends`, for which `WebLink` has no name. `Kept` maps the queue and the hands to the
set `kept` of `MessageStore`; order, threads and connections have no counterpart there.

**`BmsForwarder`.** One action per handler and timer of its client thread. A reading may arrive
between a send and the clearing of what was sent, hence `PostedSendRuns` and
`ClearsWhatWasSent`; and a send posted before may run between the storing of a reading and
the posting of its own send, hence `ReadingStored` and `ReadingPosted`. The handlers of fail and close do not look at the connection they are
called for, and the model's do not either: there may be several connections at once.

**`CommandIntake`.** One action per branch of `on_message()`: turned away, duplicate, executed on
the client thread, given a thread. `since` and `executed` are history.

**`Heartbeat`.** `chains` counts the chains of `schedule_heartbeat()`. A timer that goes on
as it was changes nothing and is no action.

**`HikvisionHandle`.** The mutex is held over the HTTP request, so a command is one action with
an outcome: *done*, *refused*, or *lost* (obeyed, answer lost). `expired` is the age of the
last command against the 800 ms of the watchdog.

**`MotionHandle`.** Admission, recording under `motion_mutex_`, and publishing are three
actions, for the frame goes out after `motion_mutex_` is released while
`behavior_execution_mutex_` is still held. Ages count half seconds; time passes only when the
watchdog, which looks five times as often, has looked.

**`TaskReports`.** One action per command or line, each under the mutex. A failure of planning
is printed in several lines, any of which may be lost; `failure` is what the robot prints.

**`UploadRate`.** `should_send_upload_position()` load by load up to its compare-exchange,
which may fail spuriously.

**`Shutdown`.** `main_pc` is how far `main()` is, one action per call it makes to stop, take,
join; threads of gateway and executor start, send and end as long as the flags let them.

## 3. Properties and runs

Twelve runs; sizes as TLC reports them, with two workers.

| Run | Distinct states | Checks |
|---|---|---|
| `navigation_lifecycle` | 484k | `IdleHasNoNavigation`, `GateHasOwner`, `ReadinessAgrees`, `OneEnvironment`, `StaleTimeoutHarmless`, refinement `ImplementsArbiter` |
| `navigation_requests` | 305k | liveness `GateReleased`, `StopCompletes` |
| `follow_commands` | 626k | `FollowInv` (types, `FollowingAlone`, `QueuedFollowHasDrainer`), `EngineOnlyInFollow`, refinement, liveness `FollowEnds` |
| `mapping` | 481k | `MappingInv` (types, `CaptureAlone`, `ProcessingHasEnd`, and of follow `FollowingAlone`, `EngineOnlyInFollow`, `QueuedFollowHasDrainer`), refinement, liveness `MappingEnds` (`ProcessingEnds`, `UploaderEnds`), all with follow and navigation going on beside it |
| `task_state` | 543k | `TaskInv` (types, `QueueHasWorker`, `PauseRecordsAgree`), `QuietRecordIsRight`, liveness `RequestsAnswered` |
| `outbox` | 341k | `KeptOnce`, `OnlyPutBackWaits`, `OneSession`, `FlagsHaveConnection`, `OneTimer`, `NeverStranded`, refinement `ImplementsStore`, liveness `Flows`, `TriesAgain` |
| `parts` | 459k | `PartsTypeOK`; battery: `BmsKeepsUp`; intake: `RetriesFiltered`, `RefusedRightly`; heartbeat: `HeartbeatLives`; camera: `CameraWatched`, liveness `CameraStops`; motion: `OnlyIdleMoves`, `MotionRemembered`; end of the program: `CallbacksEndFirst`, liveness `ShutdownEnds`; reports: `ReportedOnce`; upload rate: `RateKept` |
| `stop_invalidates_first`, `older_startup_invalidated`, `estop_leaves_consistent`, `upload_gate_owned`, `executor_threads_joined` | until the counterexample | one statement of the repository each, which the code does not keep (section 6) |

`MCParts` adds the state spaces of eight modules instead of multiplying them: they have
neither variables nor actions in common, so nothing is lost, and each keeps the fairness of
its own `Fair...Spec`.

What they show, in words:

* **The gate is never orphaned** (`GateHasOwner`, `GateReleased`): as long as a navigation
  command occupies the busy gate, a thread is left that will release it whatever the nodes
  do. The invariant names the thread; the liveness property says it gets there.
* **Nothing is left over** (`IdleHasNoNavigation`) and **never two environments**
  (`OneEnvironment`): a download overtaken by a stop and another start launches nothing.
* **Stale timeouts are inert** (`StaleTimeoutHarmless`).
* **The arbiter is implemented** by navigation, navigation with follow, all three behaviours, and
  navigation with pauses and resumptions: owner and epoch of `BehaviorArbiter` are the mode's behaviour and the
  generation.
* **A follow runs alone**, a queued follow has a drainer although glance, queueing and
  end of the stop are three unsynchronised steps.
* **No two behaviours run together**: with all three in one model, a capture meets neither a
  navigation nor a follow engine (but for the three ways to lose track of the engine that
  `EngineOnlyInFollow` names), although the uploader moves the mode without the mutex.
* **Mapping processing always has somebody who ends it**, which matters since it rejects
  `stop_navigation`.
* **The pause queue is never stuck**, and once every line is read, its record is the truth,
  a request under way or not, in the first generation until a task is started (afterwards a stop or a started task
  *assumes* that the robot runs).
* **The robot is never stranded offline**, although three threads write the flags of the
  reconnection without a lock.
* **The outbox loses nothing but positions** and keeps nothing twice, however flushes, losses of
  the connection and sends that were given up overlap. The server may get a message twice
  for one reason only: a send that was given up ran after all. Nothing waits because
  nobody looked: `send_to_cloud()` queues and then asks for the flag, `on_client_open()` raises
  the flag and then looks at the queue. What was put back may wait for the next
  occasion (`OnlyPutBackWaits`, and `Flows` with its exceptions).
* **The outbox implements a store** (`ImplementsStore`) in which a message is kept until a
  connection took it, and a position is given up only when another is said and `Limit`
  others are kept.
* **Order is not kept** by the outbox, and no property claims it: of two threads that each
  have a message in hand the later one may send first.
* **The battery forwarder keeps up** although no handler but one knows which connection it
  is for; the newest reading is with an open connection or waits.
* **A command is not done twice** unless as many others as the memory holds came in between,
  and is refused only if it was done: a copy that came too late to be valid does not block
  the next one.
* **The heartbeat** of a connected robot beats, and the one way to silence it is a connection
  attempt that fails.
* **A turning camera stops** when commands cease, unless one of three answers or requests was
  lost that nobody repeats; the statement names them.
* **Only in Idle does a frame of the Web move the robot**, though the mode is looked at two locks
  before the frame is published. Three passages of the documents deny that there is such a rule
  at all (section 6); and 2.5 s after the last command it has been told to stand.
* **A task tells of a point or round once**, whatever the lines do.
* **Positions keep their interval** with two askers and without a lock, a change of the
  frequency excepted.
* **The program ends**, although the threads it joins may wait for a thread it joined before.

### 3.1 Bounds and why they are enough

* `Workers`, 1 to 3: in `navigation_lifecycle`, a download of the first generation, one of
  the third, and a service call, which is what `OneEnvironment` and the races of the gate
  need. Workers are interchangeable: symmetry is used where only safety is checked.
* `MaxGeneration`, 2 to 5: start, stop, start again is three. The refinement and the late
  exceptions need no more. In `mapping` it is 3: a mapping
  takes up two if it fails, and a navigation that was stopped before it two as well.
* `MaxAttempt`, 1 to 3: a timeout is stale at the second attempt. It bounds the *commands* that
  ask for a confirmation, as `MaxGeneration` bounds the starts and stops; the launch at the end
  of a download, also one after a stop, raises the number beyond it. In `navigation_requests`
  it is 2: a stop uses up the first number, and commands after it still get one.
* `Points = {2}`: a list that is confirmed in part. `Commands` and `Lines` are split over the
  two navigation runs, one for the start, the pose and the stop, one for lists, clears and
  cancels.
* `FollowThreads`, 2: a start and the stop it is queued behind, an emergency stop or poll
  against either, beside navigation with its own stop; 3 in `estop_leaves_consistent`.
  `EngineOnlyInFollow` excepts the steps after which the gateway cannot know what the engine
  does (`unconfirmed`: an answer that was lost, an emergency stop; see 6).
  In `mapping` it is 1: one follow command of any kind against a mapping and a navigation,
  with one worker; the proof carries safety to any number of them.
* `MaxProcessing = 2`: the second attempt finds the first one's timeout asleep.
* In `task_state`, `MaxRequests = 2`, `MaxSaid = 2`: a request queued behind the one under way and
  one more; two unread lines, so that the record lags behind by a whole toggle. That the arbiter
  is implemented with pausing too is left to the proof, which has no bound.
* `Connections`, 3: the current one, and the one being replaced, whose handler has yet to
  run, beside a new one.
* In `outbox`: one thread beside the client thread, which flushes too, so two flush at a time;
  `MaxPosted = 2` leaves a send that was given up beside the next one; three messages and
  `Limit = 2`, so a position is evicted from a full queue, or finds it full of results and is
  dropped. The proofs carry the same properties to any number.
* In `parts`: 2 connections of the battery, opened 3 times, 3 readings (one before, between and
  after a send); 4 command ids of all three kinds, memory for 2, each delivered twice, so an
  id is forgotten and comes again; 4 openings of either connection of the heartbeat; 6 camera
  and 4 motion commands; 2 threads each of gateway and executor; 3 points, 2 rounds, 2 lists,
  3 failures; 2 uploaders and 2 setters with intervals 1 and 2 up to time 5.

In `navigation_requests` and `task_state`, where liveness forbids symmetry, the action constraint
`LaunchedInOrder` has background threads launched in one order. They are alike before they are
launched, so this leaves out only behaviours that differ in the names of threads.

The bounds sit in the guards of the actions that raise a counter (the arrival of a command, a
request, a toggle, a timeout), so no thread is stopped half way by one. The number of `Workers`
bounds the commands that launch a thread in the same way, with one exception: a
`start_navigation` that has been admitted and finds no thread left can be refused, abort or
throw, and no longer succeed. The proofs have no such bound. The bounds are why
the runs say `CHECK_DEADLOCK FALSE`: a system whose inputs are used up stops. The program
itself may stop too, when the cloud sends nothing.

### 3.2 Fairness

Weak fairness of **threads only**: a thread that is running goes on, a sleep ends, and one
that waits for a mutex that stays free gets it. The code justifies it where time passes:
`rosservice` runs under `timeout 10s`, HTTP calls have timeouts (3 s for the engine),
killing is a bounded loop, confirmations have timeout threads. **Nothing is assumed of the
cloud, of the nodes, of the lines they print, or of the capture.** Fairness is stated per
thread (or per holder of the mutex, which is one thread), never for single outcomes of a
choice: that a call succeeds is assumed nowhere. In `TaskState` a printed
line is delivered. In `Outbox`, `websocketpp` ends a handshake and a goodbye by its own
timeouts (for the fairness of a handshake, opening and failing are one choice), the client
thread runs what is posted when it is free, and a thread that flushes goes on. In
`HikvisionHandle`, 800 ms pass and the watchdog and the destructor go on. In `Shutdown`,
`main()` goes on, callbacks return, a send waits two seconds at most, and what a thread does
has an end.

`std::mutex` promises no fairness among waiting threads; weak fairness suffices because in
the finite instances a competitor has only finitely many steps.

### 3.3 Mutants

Beside a definition stands, where there is one, a `Mutant:` operator: the same action with a
plausible slip (a dropped comparison of attempts, a timeout that captures the number before
it is incremented, a handler that does not clear the queue). Each property of a passing run
is violated by one of them under its own configuration, so none of them holds vacuously.
The mutants are no part of any specification.

## 4. Proofs

Proved by TLAPS, for every set of workers, commands and lines and every bound that the
assumptions allow:

| Theorem | Says |
|---|---|
| `TypeCorrect` | `Spec => []TypeOK` |
| `SafeAlways` | the inductive invariant `IInv` always holds |
| `NothingLeftOver` | `Spec => []IdleHasNoNavigation` |
| `ReadinessRecordsAgree` | `Spec => []ReadinessAgrees` |
| `NeverTwoEnvironments` | `Spec => OneEnvironment`, an action property |
| `GateAlwaysOwned` | `Spec => []GateHasOwner` |
| `StaleTimeoutsInert` | `Spec => StaleTimeoutHarmless`, an action property |
| `NavigationImplementsArbiter` | `Spec => ImplementsArbiter`, the refinement |
| `FollowRunsAlone`, `EngineObeys` | `FollowSpec => []FollowInv`, `FollowSpec => []EngineOnlyInFollow` |
| `MappingRunsAlone` | `MappingSpec => []MappingInv` |
| `FollowImplements`, `MappingImplements` | the refinement of the arbiter, by follow and navigation, and by all three |
| `PauseQueueRight` | `TaskSpec => []TaskInv` |
| `RecordRightAtRest` | `TaskSpec => []QuietRecordIsRight` |
| `NavigationSafeBesideFollow`, `NavigationSafeBesideMapping`, `NavigationSafeBesidePausing` | the safety invariants of navigation, under `FollowSpec`, `MappingSpec` (all three behaviours; without `IdleHasNoNavigation`, see below) and `TaskSpec` |
| `FollowNotDisturbed`, `MappingNotDisturbed`, `PausingDisturbsNothing` | `OneEnvironment` and `StaleTimeoutHarmless`, under the same three |
| `PausingImplementsArbiter` | `TaskSpec => ImplementsArbiter` |
| `EpochsHaveOneOwner` | `Arbiter!ArbiterSpec => Arbiter!EpochHasOneOwner`: what the abstract specification is good for |
| `GenerationsHaveOneOwner`, `PausedGenerationsHaveOneOwner` | hence `EpochHasOneOwner` under `Spec`, `FollowSpec`, `MappingSpec`, `TaskSpec` |
| `LinkAlways` | the inductive invariant `Link` always holds |
| `OnlyOneSession`, `FlagsComeDown`, `FlagTellsTimer`, `RobotNeverStranded` | the four safety invariants of `WebLink` |
| `MessagesKeptOnce`, `NothingWaits` | `OutboxSpec => []KeptOnce`, `OutboxSpec => []OnlyPutBackWaits` |
| `OutboxTypeCorrect`, `PartsTypeCorrect` | `OutboxSpec => []OutboxTypeOK`, `PartsSpec => []PartsTypeOK` |
| `OutboxImplementsStore` | `OutboxSpec => ImplementsStore`, the refinement |
| `LinkHoldsUnderOutbox` | the four invariants of the link, under `OutboxSpec` |
| `HeartbeatGoesOn` | `HeartbeatSpec => []HeartbeatLives` |
| `CallbacksOver` | `ShutdownSpec => []CallbacksEndFirst` |
| `RepeatedLate`, `OnlyDoneRefused` | `IntakeSpec => RetriesFiltered`, an action property, and `[]RefusedRightly` |
| `BmsGoesOn` | `BmsSpec => []BmsKeepsUp` |
| `TurningIsWatched` | `PtzSpec => []CameraWatched` |
| `OnlyIdleMovesAlways` | `MotionSpec => OnlyIdleMoves`, an action property |
| `MotionMemoryRight` | `MotionSpec => []MotionRemembered` |
| `UploadsKeepRate` | `RateSpec => RateKept`, an action property |
| `ToldOnce` | `ReportsSpec => []ReportedOnce` |

**Assumptions.** Only those of the modules: workers are no phase names, commands and lines
are among those the code knows, point counts and bounds are naturals; the phases of `Follow` and
`Mapping` are no workers, and the engine's outcomes are the three of `Follow`; in `TaskState`, the
toggle's hold of the mutex is no worker and the two lines about a pause are not among the
lines of `Navigation`; in `WebLink` and
`BmsForwarder`, the name "none" is no connection; the client thread of `Outbox` is none of the
others and its limit is not 0; the three kinds of command ids are disjoint and the memory of
`CommandIntake` holds at least one; intervals are positive and the clock's bound is past them.

**The argument for navigation.** `IdleHasNoNavigation`, `ReadinessAgrees` and
`OneEnvironment` are not inductive. That Idle is entered with no launcher running depends on
where the holder of the mutex is; hence `Phases`, which ties the mode and the process to the
phase. A start that aborts must be the only owner of the gate and must not have asked
for anything but the environment: `StartingOwnsGate`. A late confirmation must not make
ready what is ready: `AwaitedNotReady`. And a download that comes back under the current
generation must find everything as its start left it, and be the only one of its generation:
`PreparationPending`, the heart of `OneEnvironment`, since no lock is held while it runs.
`NoNavigationLeft` is `IdleHasNoNavigation` made inductive and said of every mode.
`IInv` is `TypeOK` with `Safe`, the conjunction of these six. The proof has a step for every
action; lemmas say once what the operations of the state machine, `finish_command()` and
the completions do to the fields the invariant speaks of. The refinement follows from
`IInv` with one lemma on how the mode of each action moves the owner (`ModeMovesAsArbiter`).

**The argument for follow and mapping.** `MappingSpec` is the composition of all three behaviours,
so each has to be left alone by the steps of both others. The lemmas on navigation's steps assume only what they
use: `FieldsOK`, the types of everything but the mutex and the gate, and `Safe`, which says
nothing of a mutex or gate that somebody else holds and describes every mode, those that
navigation does not enter included. So they hold word for word beside follow and mapping.
`HolderStep` adds that navigation takes the mutex only for itself, `HeldByFollow` and
`HeldByStop` that it waits while another has it. In turn a step of follow or mapping between
its own modes does not disturb navigation (`BesideNavigation`); the steps of follow that do
(it begins, kills, and finds navigation gone) have a lemma each. What has to be added for
mapping are its phases: until the uploader has reported, the mode is Mapping, because
processing and completion start from `MappingProcessing`, which only the uploader sets
(`UploaderPhases`). For follow they are the mode and the processes in each phase
(`FollowPhases`). The invariants `FollowIInv` and `MappingIInv` each speak of the other's holds
of the mutex as little as `Safe` does, so follow keeps mapping's (`FollowKeepsMapping`) and
mapping keeps follow's (`MappingKeepsFollow`): what either does to the mutex and to the gate
(`FollowHolds`, `MappingHolds`) and to the mode (`FollowMoves`, `MappingMoves`) is all that
the other has to know. One invariant belongs to neither alone. Beside mapping the gate is not
free because navigation has left it: an upload whose map has failed keeps it, in Failed, in
Idle, when a follow begins. But a follow empties it as it begins, and mapping takes it in
modes that no follow is in (`FollowHasGate`). `QueuedFollowHasDrainer` needs nothing: whoever releases the mutex has looked
at the queue, or is followed by the thread that filled it (`QueueKept`). `EngineOnlyInFollow`
must also hold in a start under way: an engine that moves before it has answered, or after
it has not, is already one of the three exceptions (`EngineWatched`).

**The argument for the link.** `OneTimer` is the surprising one: `on_client_open()` lowers
`reconnect_scheduled_` without cancelling a timer, which is right only because no timer
runs during a handshake (`NoTimerInHandshake`); and that holds because a timer is armed
only when `client_connecting_` is down, and a connection is made only at the end of a
timer or by the very first post. `NothingBeforeStart` covers that first post. `NeverStranded`
leans on `FlagsHaveConnection`: a flag that is up, and so keeps `schedule_reconnect()` quiet,
always has an event ahead that lowers it.

**The argument for the outbox.** `KeptOnce` counts: places in the queue and hands. Its inductive
form (`OutboxInv`) avoids the count: no message is at two places, in two hands, at a place and in
a hand, or sent and still kept; every message anywhere was said; and one that was said is in one
of these places or is a position. The lemmas on sequences say what taking, appending, putting
in front and evicting do to the places (`Evict` takes a prefix that is all positions).
Counting comes back at the very end (`InPlaceOnce`). `NothingWaits` needs the order of writes:
a message is appended in the same step that leads its thread to the flush, and a client
thread that raises the flag goes on to one. `LinkHoldsUnderOutbox` repeats the step lemma of
`WebLinkProofs` for each action with the one new case of a send on the client thread.

**The argument for the small parts.** *Heartbeat*: a heartbeat can be taken for connected only
with a connection that is open or closing; hence a timer of `connect_heartbeat()` never finds a
living one, and the first chain that fails is the last that can. *Shutdown*: `stopping_` and
the list of workers are written under one mutex, so every thread that works is on the list
`main()` takes, until it takes it, and on what it took afterwards. *Intake*: what was remembered
after an id is what stands behind it in the ring; when it is pushed out these are
`CacheLimit` different others. *Battery*: what is being cleared is what was forwarded
last, and a flag that keeps `schedule_reconnect()` quiet has a timer or handshake behind it.
*Camera*: `CameraWatched` is inductive. *Motion*: whoever may move the base holds the mutex
(`LockInv`); the last pose is what was told, or about to be by the command at work
(`PoseInv`); once the watchdog has looked, an active motion is young (`LookedInv`). *Upload
rate*: the value that the exchange compares is the last upload's time unless it was reset.
*Reports*: a round or point that still counts as new has not been told (`RoundsInv`, `PointsInv`),
and what is known of a failure is of the one being printed (`FailureInv`).

**The argument for the gate.** `GateHasOwner` names, for each command, who will release it.
Three things keep it (`NavigationSafety`, end of the module). A step that leaves the gate, the
generation, the pending confirmations and the owner's thread or exception alone keeps the
owner (`OwnerKept`). A completion releases the gate of its own command or finds another
command there (`CompleteReleases`), so lowering a pending flag never leaves the gate behind
(`CompleteOwned`). And a step that raises the generation clears the gate or is a start, which
is its own owner. For `StaleTimeoutsInert`, only a timeout that wakes takes itself off the list,
and it compares the attempt it captured before it does anything.

**The argument for the pause queue.** Only a stop leads out of `NavigationReady` and
`Navigating` (`NavigationStepMoves`), and a stop clears the queue; so while the worker flag is
up, the mode is one of these two and no stop holds the mutex (`Undisturbed`). `QueueHasWorker`
then needs that no thread of the present generation waits while a toggle holds the mutex, or
there would be two. `QuietRecordIsRight` is proved in a stronger form: the last line printed
and not yet read says where the robot stands (`LinesFollowRobot`). It no longer mentions the
queue, since a toggle changes the robot and prints in one step.

**The argument beside navigation.** What holds of navigation alone is worth little if a follow, a
mapping or a toggle can disturb it. So each of the compositions is shown to take, in
every step, a step of `Navigation` or one that is harmless to it: for follow and mapping
`Beside` (no launcher comes to life, no timeout wakes, the gate is left alone unless the
robot is out of navigation: `LeavesGate`), for pauses `TaskBeside` (only the mutex and the
task's record move). To the first kind the lemmas of `NavigationSafety` apply as they
stand; `LaunchStep`, `TimeoutStep` and `OwnedStep` are stated for a step and not for the
specification for that reason. Beside mapping `IdleHasNoNavigation` cannot be claimed
as it stands, nor is it true: outside navigation the gate may be mapping's own. Its other half, that no *managed* command
of navigation occupies the gate there, is part of `Safe`, which is proved under `MappingSpec`
too.

**One owner per generation.** Workers compare generations and nothing else. `EpochHasOneOwner`
says why this is enough: once a generation had an owner, nobody or a fault follows it, but
no other behaviour. It is a temporal statement about two moments, proved of `BehaviorArbiter`
and inherited by every specification that implements it. TLC does not check it, since it
quantifies over all generations; it checks the refinements it is inherited along.

**The argument for the store.** `ImplementsStore` needs `OutboxInv`: that a message is in one place
makes sending it remove it from `kept`. Moving between queue and hand leaves `kept` as it is;
an eviction takes positions from the front of a queue that was full, and what stays, with the
new message, is at least `Limit` messages, shown by an injection from the positions of the
queue (`AtLeast`), so that no cardinalities of sets are needed.

**The types of the parts.** Proving `PartsTypeOK` found the one wrong initial state of the project:
the clock of `UploadRate` started at the largest interval even if the bound was smaller, so
its bound did not hold. The assumption on the bound and the initial clock now say what
is meant, and the interval starts anywhere.

**Only model-checked.** Liveness, since fairness and `ENABLED` are out of the prover's reach. Every
invariant and every action property that a passing run checks is also proved.

## 5. Not modelled

* *Vendored headers*: `json.hpp`, `httplib.h`, `cmdline.h` and the example `qt_example.h` are
  five sixths of the repository's lines and none of its own logic.
* *Reports* of recharging and of paths: a line is passed on and nothing kept.
* *Parts without a protocol*: `BatteryProvider` picks a source at the start and converts fields;
  `robotState` caches telemetry (what a command depends on is in `Navigation`);
  `LocalWebsocketServer` is a fan-out, and `setup()` does not start the one for the remote
  control; `LightPolicy` is a table of ifs that a model would repeat; the handlers of AI
  acknowledgements, of parameters and of broadcasts translate a message; `MapManager`,
  `http_map_uploader` and `process_runner` are operations with an outcome, which `Navigation`
  and `Mapping` choose.
* *Data*: JSON, map contents, poses, file contents. Whether an operation works is a choice.
* *In `Navigation`*: trajectory files; thread creation that fails; the deletion of task files.
* *In `Mapping`*: the catch branches of `execute()` for mapping commands
  (`CommandExecutor.cc:767-783`) and a background thread that cannot be created.
* *In `WebLink`*: delays and the counters they depend on (with the penalty of a kicked
  robot), shutdown, the network diagnosis, a limit on the attempts (off by default), a URL
  that cannot be parsed.
* *In `CommandIntake`*: commands without an id, which nothing filters: they are executed as often
  as they come and change neither memory, so they are steps that leave the model where it is.
* *In `BmsForwarder`, `Heartbeat`*: `stop()`, URLs that cannot be parsed, timers that fail.
* *In `MotionHandle`, `HikvisionHandle`*: values of velocities and angles, formats, malformed
  commands.
* *In `UploadRate`*: a clock that is set back.
* *In `Shutdown`*: the telemetry thread, which is joined like a worker, and the parts that
  `main()` stops beside gateway and executor.

## 6. Where the code and the repository's texts disagree

Shown by a run of its own, whose counterexample is the evidence:

* `stop_invalidates_first`: `FSM_DESIGN.md:31-32` says that a stop request invalidates the
  generation *before* waiting for the mutex. The generation is raised under the mutex
  (`CommandExecutor.cc:862`), so an older worker that gets it first still calls its
  service or launches.
* `older_startup_invalidated`: `FSM_DESIGN.md:27` says that generations invalidate older
  startup workers. The catch block of `execute()` (`:752`) compares none: an old start's
  exception aborts the start that came after a stop.
* `estop_leaves_consistent`: a comment (`:1238-1239`) has the emergency stop sent first and
  recorded afterwards so that the FSM is consistent. A start that holds the mutex may
  reach the engine after it; the engine follows while the state machine denies it.
* `upload_gate_owned`: `handle_stop_and_uploadmap()` returns on "already running" (`:3260`)
  with the gate that `robot_bt()` gave it; a request that arrives while the last uploader is
  between `finish_command()` and the end of its flag guard leaves the gate occupied.
* `executor_threads_joined`: comments (`main.cc:69`, `CommandExecutor.cc:209-210`) have
  `~CommandExecutor()` wait for its workers. It moves `background_workers_` out and joins what
  it moved (`:200`); `launch_background_task()` (`:427`) does not look at `shutting_down_`, so
  a worker that is being joined may launch another, which nobody joins: `std::terminate`.

A property that holds of the code and that documents contradict:

* `OnlyIdleMoves` (run `parts`, theorem `OnlyIdleMovesAlways`). `admit_web_motion_command()`
  (`CommandExecutor.cc:1004-1029`, called at `:833-838`) refuses every Web motion command but a
  stop unless it gets the behaviour mutex at once and the mode is `Idle`, and keeps the mutex
  until the frame is out; the comment at its call says the same. The documents describe the
  code before that gate. `FSM_DESIGN.md:39-41`: "Motion control still bypasses behavior
  coordination by request, so this layer does not provide exclusive physical motion ownership".
  `01_WORKFLOWS.md:290`: `action_control` and `control` do not pass the admission of
  behaviours. `01_WORKFLOWS.md:321`: motion commands are published independently, and the state
  machine gives no exclusive control of motion. What is left of these texts is true of stops,
  which bypass the gate on purpose (`:1007-1010`), and of the watchdog's stand, which looks at
  no mode; neither moves the base. The model follows the code.

Met while modelling and noted only:

* `01_WORKFLOWS.md:284`: localization is required of `start_task` and `start_recharge`; it is
  checked at admission and not when the worker calls.
* `01_WORKFLOWS.md:308`: readiness comes from the map log; `task_state()` also moves any
  navigation mode to ready or navigating (`RobotFsm.h:120`).
* `02_INTERFACES.md:79`: `type=follow` bypasses the state machine; it does not.
* `01_WORKFLOWS.md:287`: `start_follow` is rejected in Stopping; the code queues it.
* `RobotFsm.h:160-161`: the FSM must not stay in Mapping without a process; a capture that dies
  by itself is noticed by nobody (`maphandle.cc:51`).
* `FSM_DESIGN.md:20-22`: uploading stays in Mapping; it goes to `MappingProcessing`.
* `01_WORKFLOWS.md:269`: idempotent answers; they come from a record that may lag behind lines
  not yet read.
* `01_WORKFLOWS.md:90`: `waitpid` without a limit; the code waits 3 s and 1 s.
* `gateway.cc:1024`: a kicked robot waits longer; if a send notices the loss before the close
  event, the timer is armed without the penalty.
* `gateway.cc:764`: a heartbeat connection that *fails* (rather than closes) is not retried.
* `03_OPERATIONS.md:67`: the heartbeat's pong timeout; it acts on the Web connection's handle
  alone, which is never pinged.
* `02_INTERFACES.md:155`: the camera's watchdog; a start whose answer is lost is not on its
  record, and its own stop is not repeated if it fails.
* `02_INTERFACES.md:141`, `MOTION_WEB_CONTROL_PROTOCOL.md` section 4: the motion watchdog tells
  the robot to stand at 2 Hz whatever the behaviour; a stop repeats the last target mode; a
  repeated "down" is ignored though the watchdog told the robot to stand in between.
* `01_WORKFLOWS.md:264`: repeated points are ignored; points beyond the list are reported as
  often as they are printed.
* `UploadRate`: the system's clock decides; set back, it stops the uploads until it has
  caught up.

(Documents are under `src/docs/technical_20261019/`, `FSM_DESIGN.md` under `src/`.)

## 7. Plan

Done, in this order: `RobotFsm` and `BehaviorArbiter`; `Navigation` with its proofs;
`Follow` and `Mapping` with theirs; `TaskState` with its proofs; `WebLink` with its proofs; `Outbox` on top of it, with its
proofs; `CommandIntake`, `Heartbeat`, `Shutdown`; `BmsForwarder`; `MotionHandle` and
`HikvisionHandle`; `TaskReports` and `UploadRate`, each with its proofs.

Left, by importance:

1. `TaskState` beside follow and mapping: a follow that preempts a task clears its requests as a
   stop does; so far pausing has navigation and its stop beside it.
2. `WebLink`: delays and counters, with the penalty of a kicked robot.
3. `BatteryProvider`, `LightPolicy`: tables checked against a reference over bounded inputs.

## 8. Running

    tlc -workers 2 -config NavigationLifecycle.cfg MCNavigation.tla
    tlc -workers 2 -config Parts.cfg MCParts.tla
    tlapm NavigationSafety.tla

`PROJECT.json` names the module of each configuration, maps every definition to its lines in
the source, and lists mutants, findings, hazards and theorems.
