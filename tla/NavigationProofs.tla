-------------------------- MODULE NavigationProofs --------------------------
(***************************************************************************)
(* Machine-checked proof that Navigation keeps its variables within their  *)
(* types, for every set of threads, of commands, of lines and every bound. *)
(***************************************************************************)
EXTENDS Navigation, TLAPS

-----------------------------------------------------------------------------
\* Every method of RobotFsm that navigation calls returns a RobotDto.

\* The operations on the record keep it one.
LEMMA FsmOperationsTyped ==
  ASSUME NEW f \in RobotDto
  PROVE  /\ begin_navigation(f) \in RobotDto
         /\ \A b \in BOOLEAN : navigation_ready(f, b) \in RobotDto
         /\ navigation_start_aborted(f) \in RobotDto
         /\ \A status \in TaskStatus : task_state(f, status) \in RobotDto
         /\ \A b \in BOOLEAN : localization_ready(f, b) \in RobotDto
         /\ begin_stop(f) \in RobotDto
         /\ \A b \in BOOLEAN : stopped(f, b, FALSE) \in RobotDto
<1> USE DEF RobotDto, MotionMode, TaskStatus
<1>0. f.generation + 1 \in Nat
  OBVIOUS
<1>1. begin_navigation(f) \in RobotDto
  BY <1>0 DEF begin_navigation, can_begin_navigation
<1>2. ASSUME NEW b \in BOOLEAN PROVE navigation_ready(f, b) \in RobotDto
  BY DEF navigation_ready
<1>3. navigation_start_aborted(f) \in RobotDto
  BY DEF navigation_start_aborted
<1>4. ASSUME NEW status \in TaskStatus PROVE task_state(f, status) \in RobotDto
  BY DEF task_state, is_navigation, NavigationModes
<1>5. ASSUME NEW b \in BOOLEAN PROVE localization_ready(f, b) \in RobotDto
  BY DEF localization_ready, is_navigation, NavigationModes
<1>6. begin_stop(f) \in RobotDto
  BY <1>0 DEF begin_stop, can_begin_stop, EnterStopping
<1>7. ASSUME NEW b \in BOOLEAN PROVE stopped(f, b, FALSE) \in RobotDto
  BY DEF stopped
<1>8. QED
  BY <1>1, <1>2, <1>3, <1>4, <1>5, <1>6, <1>7

-----------------------------------------------------------------------------
\* The helpers of Navigation keep the types of what they assign.

\* finish_command() leaves a state machine and a gate.
LEMMA FinishTyped ==
  ASSUME FieldsOK, NEW type, NEW f \in RobotDto, finish_command(type, f)
  PROVE  fsm' \in RobotDto /\ active_command' \in {active_command, NoCommand}
<1>1. navigation_ready(f, FALSE) \in RobotDto
  BY FsmOperationsTyped DEF TaskStatus
<1>2. QED
  BY <1>1 DEF finish_command, FieldsOK

\* A launched thread is a thread.
LEMMA LaunchTyped ==
  ASSUME FieldsOK, NEW type \in ServiceCommands \cup {"start_navigation"},
         NEW pc \in {"preparing", "queued"}, Launch(type, pc)
  PROVE  worker' \in [Workers -> Thread]
<1>1. fsm.generation \in Nat
  BY DEF FieldsOK, RobotDto
<1>2. [pc |-> pc, type |-> type, generation |-> fsm.generation] \in Thread
  BY <1>1 DEF Thread
<1>3. QED
  BY <1>2 DEF Launch, FieldsOK

\* So is one that moves on.
LEMMA MovesOnTyped ==
  ASSUME FieldsOK, NEW w \in Workers, NEW pc \in {"calling", "exited"},
         worker' = [worker EXCEPT ![w].pc = pc]
  PROVE  worker' \in [Workers -> Thread]
BY DEF FieldsOK, Thread

\* A request raises a flag under a number and may leave a timeout thread.
LEMMA RequestTyped ==
  ASSUME FieldsOK, NEW k \in Kind, Request(k)
  PROVE  /\ pending' \in [Kind -> BOOLEAN]
         /\ attempt' \in [Kind -> Nat]
         /\ timers \cup {<<k, attempt[k] + 1>>} \subseteq Kind \X Nat
<1>1. attempt[k] + 1 \in Nat
  BY DEF FieldsOK
<1>2. QED
  BY <1>1 DEF Request, FieldsOK

\* Every completion, confirmed or timed out, leaves well-typed state.
LEMMA CompleteTyped ==
  ASSUME FieldsOK, NEW k \in Kind, NEW a, NEW success \in BOOLEAN,
         Complete(k, a, success)
  PROVE  /\ fsm' \in RobotDto
         /\ active_command' \in {active_command, NoCommand}
         /\ pending' \in [Kind -> BOOLEAN]
         /\ navigation_env_ready' \in BOOLEAN
         /\ localization_ready_flag' \in BOOLEAN
<1> USE DEF Consume, flags
<1>0. fsm \in RobotDto
  BY DEF FieldsOK
<1>1. CASE k = "env"
  <2>1. navigation_ready(fsm, success) \in RobotDto
    BY <1>0, FsmOperationsTyped DEF TaskStatus
  <2>2. CompleteEnv(a, success)
    BY <1>1 DEF Complete
  <2>3. CASE UNCHANGED <<fsm, active_command>>
    BY <2>2, <2>3 DEF CompleteEnv, FieldsOK
  <2>4. CASE finish_command("start_navigation", navigation_ready(fsm, success))
    BY <2>1, <2>2, <2>4, FinishTyped DEF CompleteEnv, FieldsOK
  <2>5. QED
    BY <2>2, <2>3, <2>4 DEF CompleteEnv
<1>2. CASE k = "pose"
  <2>1. localization_ready(fsm, success) \in RobotDto
    BY <1>0, FsmOperationsTyped DEF TaskStatus
  <2>2. CompletePose(a, success)
    BY <1>2 DEF Complete
  <2>3. CASE UNCHANGED <<fsm, active_command, pending, flags>>
    BY <2>3 DEF FieldsOK
  <2>4. CASE finish_command("initial_pose", localization_ready(fsm, success))
    BY <2>1, <2>2, <2>4, FinishTyped DEF CompletePose, FieldsOK
  <2>5. QED
    BY <2>2, <2>3, <2>4 DEF CompletePose
<1>3. CASE k \notin {"env", "pose"}
  <2>1. CompleteOther(k, a)
    BY <1>3 DEF Complete
  <2>2. CASE UNCHANGED <<fsm, active_command, pending>>
    BY <2>1, <2>2 DEF CompleteOther, FieldsOK
  <2>3. CASE finish_command(command_of[k], fsm)
    BY <1>0, <2>1, <2>3, FinishTyped DEF CompleteOther, FieldsOK
  <2>4. QED
    BY <2>1, <2>2, <2>3 DEF CompleteOther
<1>4. QED
  BY <1>1, <1>2, <1>3

-----------------------------------------------------------------------------
\* Every step keeps every variable within its type.
LEMMA TypeStep ==
  ASSUME FieldsOK, [Next]_vars
  PROVE  FieldsOK'
<1> USE DEF behaviour, requests, threads, flags, machine
<1>0. fsm \in RobotDto
  BY DEF FieldsOK
<1>f. ASSUME NEW b \in BOOLEAN, NEW status \in TaskStatus
      PROVE  /\ begin_navigation(fsm) \in RobotDto
             /\ navigation_start_aborted(fsm) \in RobotDto
             /\ task_state(fsm, status) \in RobotDto
             /\ begin_stop(fsm) \in RobotDto
             /\ stopped(fsm, b, FALSE) \in RobotDto
  BY <1>0, <1>f, FsmOperationsTyped
<1>s. "Idle" \in TaskStatus /\ {"Running", "Paused", "Cancelled"} \subseteq TaskStatus
  BY DEF TaskStatus
<1>1. CASE StartBegins
  BY <1>1, <1>f, <1>s DEF StartBegins, FieldsOK, Holders, Managed
<1>2. CASE StartRefused
  BY <1>2, <1>0, FinishTyped DEF StartRefused, FieldsOK, ForgetDeadProcess
<1>3. CASE StartChecked
  BY <1>3 DEF StartChecked, FieldsOK, ForgetDeadProcess, Holders
<1>4. CASE StartAborted
  <2>1. fsm' \in RobotDto /\ active_command' \in {active_command, NoCommand}
    BY <1>4, <1>f, <1>s, FinishTyped DEF StartAborted
  <2>2. QED
    BY <1>4, <2>1 DEF StartAborted, FieldsOK
<1>5. CASE StartThrows
  <2>1. <<"start_navigation", fsm.generation>> \in Managed \X Nat
    BY <1>0 DEF RobotDto, Managed
  <2>2. QED
    BY <1>5, <2>1 DEF StartThrows, FieldsOK
<1>6. CASE StartLaunchesWorker
  <2>1. worker' \in [Workers -> Thread]
    BY <1>6, LaunchTyped DEF StartLaunchesWorker
  <2>2. QED
    BY <1>6, <2>1 DEF StartLaunchesWorker, FieldsOK
<1>7. CASE StopRequested
  BY <1>7 DEF StopRequested, FieldsOK
<1>8. CASE StopBegins
  <2>1. \A k \in Kind : attempt[k] + 1 \in Nat
    BY DEF FieldsOK
  <2>2. QED
    BY <1>8, <1>f, <1>s, <2>1
       DEF StopBegins, invalidate_navigation_requests, FieldsOK, Holders
<1>9. CASE StopCleansUp
  BY <1>9 DEF StopCleansUp, CleansUp, FieldsOK, Holders
<1>10. CASE StopVerifies
  <2>1. fsm' \in RobotDto
    BY <1>10, <1>f, <1>s DEF StopVerifies, StopEnds, IsClean
  <2>2. QED
    BY <1>10, <2>1 DEF StopVerifies, StopEnds, ForgetsNavigation, FieldsOK, ForgetDeadProcess
<1>11. CASE InitialPose
  <2>1. <<"initial_pose", fsm.generation>> \in Managed \X Nat
    BY <1>0 DEF RobotDto, Managed
  <2>2. "pose" \in Kind /\ Request("pose")
    BY <1>11 DEF InitialPose, RequestWithTimeout, Kind
  <2>3. /\ pending' \in [Kind -> BOOLEAN]
        /\ attempt' \in [Kind -> Nat]
        /\ timers' \subseteq Kind \X Nat
    BY <1>11, <2>2, RequestTyped DEF InitialPose, RequestWithTimeout, FieldsOK
  <2>4. QED
    BY <1>11, <2>1, <2>3 DEF InitialPose, FieldsOK, Managed
<1>12. CASE NavigationTask
  <2>1. <<"navigation_task", fsm.generation>> \in Managed \X Nat
    BY <1>0 DEF RobotDto, Managed
  <2>2. "task" \in Kind /\ RequestWithTimeout("task")
    BY <1>12 DEF NavigationTask, Kind
  <2>3. /\ pending' \in [Kind -> BOOLEAN]
        /\ attempt' \in [Kind -> Nat]
        /\ timers' \subseteq Kind \X Nat
    BY <2>2, RequestTyped DEF RequestWithTimeout
  <2>4. expected' \in Nat
    BY <1>12, PointsAssumption DEF NavigationTask
  <2>5. QED
    BY <1>12, <2>1, <2>3, <2>4 DEF NavigationTask, FieldsOK, Managed
<1>13. ASSUME NEW type \in ServiceCommands, ServiceCommand(type) PROVE FieldsOK'
  <2>1. worker' \in [Workers -> Thread]
    BY <1>13, LaunchTyped DEF ServiceCommand
  <2>2. QED
    BY <1>13, <2>1 DEF ServiceCommand, FieldsOK
<1>14. CASE ClearWaypoints
  <2>1. "clear" \in Kind /\ RequestWithTimeout("clear")
    BY <1>14 DEF ClearWaypoints, Kind
  <2>2. /\ pending' \in [Kind -> BOOLEAN]
        /\ attempt' \in [Kind -> Nat]
        /\ timers' \subseteq Kind \X Nat
    BY <2>1, RequestTyped DEF RequestWithTimeout
  <2>3. worker' \in [Workers -> Thread]
    BY <1>14, LaunchTyped DEF ClearWaypoints, ServiceCommands
  <2>4. QED
    BY <1>14, <2>2, <2>3 DEF ClearWaypoints, FieldsOK, Managed
<1>15. ASSUME NEW w \in Workers, WorkerStep(w) PROVE FieldsOK'
  <2>1. CASE PreparedTooLate(w) \/ ServiceTooLate(w)
    BY <1>15, <2>1, MovesOnTyped DEF PreparedTooLate, ServiceTooLate, Exits, FieldsOK
  <2>2. CASE PreparationFails(w)
    <3>1. fsm' \in RobotDto /\ active_command' \in {active_command, NoCommand}
      BY <2>2, <1>f, <1>s, FinishTyped DEF PreparationFails
    <3>2. worker' \in [Workers -> Thread]
      BY <2>2, MovesOnTyped DEF PreparationFails, Exits
    <3>3. QED
      BY <2>2, <3>1, <3>2 DEF PreparationFails, FieldsOK
  <2>3. CASE EnvironmentLaunched(w)
    <3>1. "env" \in Kind /\ RequestWithTimeout("env")
      BY <2>3 DEF EnvironmentLaunched, Kind
    <3>2. /\ pending' \in [Kind -> BOOLEAN]
          /\ attempt' \in [Kind -> Nat]
          /\ timers' \subseteq Kind \X Nat
      BY <3>1, RequestTyped DEF RequestWithTimeout
    <3>3. worker' \in [Workers -> Thread]
      BY <2>3, MovesOnTyped DEF EnvironmentLaunched, Exits
    <3>4. QED
      BY <2>3, <3>2, <3>3 DEF EnvironmentLaunched, FieldsOK
  <2>4. CASE ServiceCalled(w)
    BY <1>15, <2>4, MovesOnTyped DEF ServiceCalled, FieldsOK
  <2>5. ASSUME NEW success \in BOOLEAN, ServiceReturns(w, success) PROVE FieldsOK'
    <3>1. worker' \in [Workers -> Thread]
      BY <2>5, MovesOnTyped DEF ServiceReturns, Exits
    <3>2. fsm' \in RobotDto /\ active_command' \in {active_command, NoCommand}
      <4>1. CASE UNCHANGED <<fsm, active_command>>
        BY <4>1 DEF FieldsOK
      <4>2. ASSUME NEW f \in {fsm, task_state(fsm, "Running"), task_state(fsm, "Cancelled")},
                   finish_command(worker[w].type, f)
            PROVE  fsm' \in RobotDto /\ active_command' \in {active_command, NoCommand}
        BY <4>2, <1>0, <1>f, <1>s, FinishTyped
      <4>3. QED
        BY <2>5, <4>1, <4>2 DEF ServiceReturns
    <3>3. QED
      BY <2>5, <3>1, <3>2 DEF ServiceReturns, FieldsOK
  <2>6. QED
    BY <1>15, <2>1, <2>2, <2>3, <2>4, <2>5 DEF WorkerStep
<1>16. ASSUME NEW t \in timers, TimeoutFires(t[1], t[2]) PROVE FieldsOK'
  <2>1. t[1] \in Kind
    BY DEF FieldsOK
  <2>2. /\ fsm' \in RobotDto
        /\ active_command' \in {active_command, NoCommand}
        /\ pending' \in [Kind -> BOOLEAN]
        /\ navigation_env_ready' \in BOOLEAN
        /\ localization_ready_flag' \in BOOLEAN
    BY <1>16, <2>1, CompleteTyped DEF TimeoutFires
  <2>3. QED
    BY <1>16, <2>2 DEF TimeoutFires, FieldsOK
<1>17. ASSUME NEW t \in thrown, ExceptionHandled(t[1], t[2]) PROVE FieldsOK'
  <2>1. fsm' \in RobotDto /\ active_command' \in {active_command, NoCommand}
    <3>1. CASE finish_command(t[1], fsm)
      BY <3>1, <1>0, FinishTyped
    <3>2. CASE finish_command(t[1], navigation_start_aborted(fsm))
      BY <3>2, <1>f, <1>s, FinishTyped
    <3>3. QED
      BY <1>17, <3>1, <3>2 DEF ExceptionHandled
  <2>2. QED
    BY <1>17, <2>1 DEF ExceptionHandled, FieldsOK
<1>18. CASE PauseLineRead \/ ResumeLineRead
  BY <1>18, <1>f, <1>s DEF PauseLineRead, ResumeLineRead, TaskLineRead, FieldsOK
<1>19. ASSUME NEW k \in Kind, NEW line, ConfirmationRead(line, k) PROVE FieldsOK'
  BY <1>19, CompleteTyped DEF ConfirmationRead, FieldsOK
<1>20. CASE WaypointLineRead
  <2>1. confirmed + 1 \in Nat /\ "task" \in Kind
    BY DEF FieldsOK, Kind
  <2>2. CASE UNCHANGED <<fsm, active_command, pending, flags>>
    BY <1>20, <2>1, <2>2 DEF WaypointLineRead, FieldsOK
  <2>3. CASE Complete("task", attempt["task"], TRUE)
    BY <1>20, <2>1, <2>3, CompleteTyped DEF WaypointLineRead, FieldsOK
  <2>4. QED
    BY <1>20, <2>2, <2>3 DEF WaypointLineRead
<1>21. CASE MachineStep
  BY <1>21 DEF MachineStep, OdometryPublished, LocalizationCallback, LauncherExits,
               EnvironmentDies, FieldsOK
<1>22. CASE UNCHANGED vars
  BY <1>22 DEF vars, FieldsOK
<1>23. CASE EnvReadyLineRead \/ ClearedLineRead \/ InitializedLineRead
  BY <1>19, <1>23 DEF EnvReadyLineRead, ClearedLineRead, InitializedLineRead, Kind
<1>24. QED
  BY <1>1, <1>2, <1>3, <1>4, <1>5, <1>6, <1>7, <1>8, <1>9, <1>10, <1>11, <1>12,
     <1>13, <1>14, <1>15, <1>16, <1>17, <1>18, <1>20, <1>21, <1>22, <1>23
     DEF Next, Step, CloudStep, StartStep, LineRead

\* A step takes the mutex for a phase of its own or a worker, or leaves it to whoever has
\* it; it takes the gate for a managed command, or leaves it.
LEMMA HolderStep ==
  ASSUME FieldsOK, [Next]_vars
  PROVE  /\ lock' \in {lock, Free} \cup Holders \cup Workers
         /\ lock' # lock => lock \in {Free} \cup Holders \cup Workers
         /\ active_command' \in {active_command, NoCommand} \cup Managed
<1> USE DEF behaviour, Holders, Managed
<1>0. fsm \in RobotDto
  BY DEF FieldsOK
<1>1. CASE CloudStep
  BY <1>1 DEF CloudStep, StartBegins, InitialPose, NavigationTask, ServiceCommand, GateTakenBy,
              ClearWaypoints, StopRequested
<1>2. CASE StartStep
  BY <1>2 DEF StartStep, StartRefused, StartChecked, StartAborted, StartThrows,
              StartLaunchesWorker, finish_command
<1>3. CASE StopBegins \/ StopCleansUp \/ StopVerifies
  BY <1>3 DEF StopBegins, invalidate_navigation_requests, StopCleansUp, CleansUp, StopVerifies,
              StopEnds
<1>4. ASSUME NEW w \in Workers, WorkerStep(w)
      PROVE  /\ lock' \in {lock, Free, w} /\ (lock' # lock => lock \in {Free, w})
             /\ active_command' \in {active_command, NoCommand}
  BY <1>4 DEF WorkerStep, PreparedTooLate, PreparationFails, EnvironmentLaunched, ServiceTooLate,
              ServiceCalled, ServiceReturns, finish_command
<1>5. ASSUME NEW t \in timers, TimeoutFires(t[1], t[2])
      PROVE  UNCHANGED lock /\ active_command' \in {active_command, NoCommand}
  <2>1. t[1] \in Kind
    BY DEF FieldsOK
  <2> QED
    BY <1>5, <2>1, CompleteTyped DEF TimeoutFires
<1>6. ASSUME NEW t \in thrown, ExceptionHandled(t[1], t[2])
      PROVE  UNCHANGED lock /\ active_command' \in {active_command, NoCommand}
  BY <1>6 DEF ExceptionHandled, finish_command
<1>7. ASSUME NEW k \in Kind, NEW line, ConfirmationRead(line, k)
      PROVE  UNCHANGED lock /\ active_command' \in {active_command, NoCommand}
  BY <1>7, CompleteTyped DEF ConfirmationRead
<1>8. CASE LineRead
  <2>1. CASE PauseLineRead \/ ResumeLineRead
    BY <2>1 DEF PauseLineRead, ResumeLineRead, TaskLineRead
  <2>2. CASE WaypointLineRead
    BY <2>2, CompleteTyped DEF WaypointLineRead, Kind
  <2> QED
    BY <1>7, <1>8, <2>1, <2>2
       DEF LineRead, EnvReadyLineRead, ClearedLineRead, InitializedLineRead, Kind
<1>9. CASE MachineStep \/ UNCHANGED vars
  BY <1>9 DEF MachineStep, OdometryPublished, LocalizationCallback, LauncherExits,
              EnvironmentDies, vars
<1> QED
  BY <1>1, <1>2, <1>3, <1>4, <1>5, <1>6, <1>8, <1>9 DEF Next, Step

\* The initial state is well typed.
LEMMA InitTyped == Init => FieldsOK
<1>1. initial_state \in RobotDto
  BY DEF initial_state, RobotDto, MotionMode, TaskStatus
<1>2. Unborn \in Thread
  BY DEF Unborn, Thread
<1>3. SUFFICES ASSUME Init PROVE FieldsOK
  OBVIOUS
<1>4. /\ fsm \in RobotDto
      /\ worker \in [Workers -> Thread]
      /\ timers \subseteq Kind \X Nat
      /\ thrown \subseteq Managed \X Nat
  BY <1>1, <1>2, <1>3 DEF Init
<1>5. pending \in [Kind -> BOOLEAN] /\ attempt \in [Kind -> Nat]
  BY <1>3 DEF Init
<1>6. /\ stop_waiting \in BOOLEAN /\ odometry \in BOOLEAN /\ environment \in BOOLEAN
      /\ navigation_env_ready \in BOOLEAN /\ localization_ready_flag \in BOOLEAN
  BY <1>3 DEF Init
<1>7. confirmed = 0 /\ expected = 0 /\ nav_process = "none"
  BY <1>3 DEF Init
<1> QED
  BY <1>4, <1>5, <1>6, <1>7 DEF FieldsOK

\* The type invariant holds in every reachable state.
THEOREM TypeCorrect == Spec => []TypeOK
<1>1. Init => TypeOK
  BY InitTyped DEF Init, TypeOK
<1>2. TypeOK /\ [Next]_vars => TypeOK'
  BY TypeStep, HolderStep DEF TypeOK
<1>3. QED
  BY <1>1, <1>2, PTL DEF Spec
=============================================================================
