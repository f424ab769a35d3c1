-------------------------- MODULE NavigationSafety --------------------------
(***************************************************************************)
(* Machine-checked proofs of the safety of Navigation: the inductive       *)
(* invariant, what follows from it, and that Navigation implements         *)
(* BehaviorArbiter.                                                        *)
(***************************************************************************)
EXTENDS NavigationProofs

-----------------------------------------------------------------------------
(***************************************************************************)
(* The inductive invariant.  The safety invariants are not inductive: that *)
(* Idle is reached with no launcher running depends on which steps lead    *)
(* there, and that on where the mutex holder is (Phases), on what a start  *)
(* has done so far (StartingOwnsGate) and on what a download that is still *)
(* going on may assume when it comes back (PreparationPending).            *)
(***************************************************************************)

NothingPending == \A k \in Kind : ~pending[k]

\* The mode that the holder of the mutex has put the machine in.
Phases ==
  /\ lock \in StopPhases => fsm.motion_mode = "Stopping"
  /\ lock \in StartPhases => fsm.motion_mode = "StartingNavigation"
  /\ lock \in StartPhases \cup StopPhases => NothingPending
  /\ lock = "start_check" => nav_process # "running"
  /\ lock \in {"start_prepare", "stop_verify", "stop_survivor"} => nav_process = "none"
  /\ lock = "start_prepare" => ~environment

\* While a start has not reached readiness the gate is its own and only the
\* environment can be awaited, which it is only once a launcher has a pid.
StartingOwnsGate ==
  fsm.motion_mode = "StartingNavigation" =>
    /\ active_command = "start_navigation"
    /\ \A k \in Kind \ {"env"} : ~pending[k]
    /\ nav_process = "none" => ~pending["env"]

\* An awaited environment is one that is not yet declared ready.
AwaitedNotReady ==
  pending["env"] /\ is_navigation(fsm) => ~fsm.navigation_environment_ready

\* IdleHasNoNavigation, for every mode that is not navigation's.
NoNavigationLeft ==
  /\ ~is_navigation(fsm) => active_command \notin Managed
  /\ fsm.motion_mode \in {"Idle"} \cup FollowModes \cup MappingModes =>
       nav_process # "running" /\ NothingPending
  /\ is_follow(fsm) => ~environment

\* A worker that is downloading in the current generation is the only one to do so
\* and finds everything as the start that launched it left it.
PreparationPending ==
  \A w \in Workers :
    worker[w].pc = "preparing" =>
      /\ worker[w].generation <= fsm.generation
      /\ worker[w].generation = fsm.generation /\ is_navigation(fsm) =>
           /\ nav_process = "none"
           /\ ~environment
           /\ ~fsm.navigation_environment_ready
           /\ NothingPending
           /\ lock \notin StartPhases
      /\ \A v \in Workers :
           worker[v].pc = "preparing" /\ worker[v].generation = worker[w].generation => v = w

Safe ==
  /\ Phases
  /\ StartingOwnsGate
  /\ AwaitedNotReady
  /\ PreparationPending
  /\ NoNavigationLeft
  /\ ReadinessAgrees

IInv == TypeOK /\ Safe

-----------------------------------------------------------------------------
\* What the operations of RobotFsm do to the fields the invariant speaks of.

\* Only a begin changes the generation; the mode moves as the operation says.
LEMMA FsmFields ==
  ASSUME NEW f \in RobotDto
  PROVE  /\ \A b \in BOOLEAN :
              /\ navigation_ready(f, b).generation = f.generation
              /\ navigation_ready(f, b).motion_mode =
                   IF f.motion_mode = "StartingNavigation"
                   THEN IF b THEN "NavigationReady" ELSE "Failed" ELSE f.motion_mode
              /\ navigation_ready(f, b).navigation_environment_ready =
                   IF f.motion_mode = "StartingNavigation" THEN b
                   ELSE f.navigation_environment_ready
         /\ navigation_start_aborted(f).generation = f.generation
         /\ navigation_start_aborted(f).motion_mode =
              IF f.motion_mode = "StartingNavigation" THEN "Idle" ELSE f.motion_mode
         /\ navigation_start_aborted(f).navigation_environment_ready =
              IF f.motion_mode = "StartingNavigation" THEN FALSE
              ELSE f.navigation_environment_ready
         /\ \A status \in TaskStatus :
              /\ task_state(f, status).generation = f.generation
              /\ task_state(f, status).motion_mode =
                   IF ~is_navigation(f) THEN f.motion_mode
                   ELSE IF status \in {"Running", "Paused"} THEN "Navigating"
                   ELSE "NavigationReady"
              /\ task_state(f, status).navigation_environment_ready =
                   f.navigation_environment_ready
         /\ \A b \in BOOLEAN :
              /\ localization_ready(f, b).generation = f.generation
              /\ localization_ready(f, b).motion_mode = f.motion_mode
              /\ localization_ready(f, b).navigation_environment_ready =
                   f.navigation_environment_ready
<1> USE DEF RobotDto
<1>1. ASSUME NEW b \in BOOLEAN
      PROVE  /\ navigation_ready(f, b).generation = f.generation
             /\ navigation_ready(f, b).motion_mode =
                  IF f.motion_mode = "StartingNavigation"
                  THEN IF b THEN "NavigationReady" ELSE "Failed" ELSE f.motion_mode
             /\ navigation_ready(f, b).navigation_environment_ready =
                  IF f.motion_mode = "StartingNavigation" THEN b
                  ELSE f.navigation_environment_ready
  BY DEF navigation_ready
<1>2. /\ navigation_start_aborted(f).generation = f.generation
      /\ navigation_start_aborted(f).motion_mode =
           IF f.motion_mode = "StartingNavigation" THEN "Idle" ELSE f.motion_mode
      /\ navigation_start_aborted(f).navigation_environment_ready =
           IF f.motion_mode = "StartingNavigation" THEN FALSE
           ELSE f.navigation_environment_ready
  BY DEF navigation_start_aborted
<1>3. ASSUME NEW status \in TaskStatus
      PROVE  /\ task_state(f, status).generation = f.generation
             /\ task_state(f, status).motion_mode =
                  IF ~is_navigation(f) THEN f.motion_mode
                  ELSE IF status \in {"Running", "Paused"} THEN "Navigating"
                  ELSE "NavigationReady"
             /\ task_state(f, status).navigation_environment_ready =
                  f.navigation_environment_ready
  BY DEF task_state
<1>4. ASSUME NEW b \in BOOLEAN
      PROVE  /\ localization_ready(f, b).generation = f.generation
             /\ localization_ready(f, b).motion_mode = f.motion_mode
             /\ localization_ready(f, b).navigation_environment_ready =
                  f.navigation_environment_ready
  BY DEF localization_ready
<1>5. QED
  BY <1>1, <1>2, <1>3, <1>4

\* A start and a stop begin a generation of their own.
LEMMA FsmBegins ==
  ASSUME NEW f \in RobotDto
  PROVE  /\ can_begin_navigation(f) =>
              /\ begin_navigation(f).generation = f.generation + 1
              /\ begin_navigation(f).motion_mode = "StartingNavigation"
              /\ begin_navigation(f).navigation_environment_ready =
                   f.navigation_environment_ready
         /\ can_begin_stop(f) =>
              /\ begin_stop(f).generation = f.generation + 1
              /\ begin_stop(f).motion_mode = "Stopping"
              /\ begin_stop(f).navigation_environment_ready =
                   f.navigation_environment_ready
         /\ \A success \in BOOLEAN :
              /\ stopped(f, success, FALSE).generation = f.generation
              /\ stopped(f, success, FALSE).motion_mode =
                   IF success THEN "Idle" ELSE "Failed"
              /\ ~stopped(f, success, FALSE).navigation_environment_ready
<1> USE DEF RobotDto
<1>1. can_begin_navigation(f) =>
        /\ begin_navigation(f).generation = f.generation + 1
        /\ begin_navigation(f).motion_mode = "StartingNavigation"
        /\ begin_navigation(f).navigation_environment_ready = f.navigation_environment_ready
  BY DEF begin_navigation
<1>2. can_begin_stop(f) =>
        /\ begin_stop(f).generation = f.generation + 1
        /\ begin_stop(f).motion_mode = "Stopping"
        /\ begin_stop(f).navigation_environment_ready = f.navigation_environment_ready
  BY DEF begin_stop, EnterStopping
<1>3. ASSUME NEW success \in BOOLEAN
      PROVE  /\ stopped(f, success, FALSE).generation = f.generation
             /\ stopped(f, success, FALSE).motion_mode = IF success THEN "Idle" ELSE "Failed"
             /\ ~stopped(f, success, FALSE).navigation_environment_ready
  BY DEF stopped
<1>4. QED
  BY <1>1, <1>2, <1>3

\* finish_command() can only turn a start that is not over into a fault.
LEMMA FinishFields ==
  ASSUME NEW type, NEW f \in RobotDto, finish_command(type, f)
  PROVE  /\ fsm'.generation = f.generation
         /\ fsm'.motion_mode =
              IF type = "start_navigation" /\ f.motion_mode = "StartingNavigation"
              THEN "Failed" ELSE f.motion_mode
         /\ fsm'.navigation_environment_ready =
              IF type = "start_navigation" /\ f.motion_mode = "StartingNavigation"
              THEN FALSE ELSE f.navigation_environment_ready
         /\ active_command' = IF active_command = type THEN NoCommand ELSE active_command
BY FsmFields DEF finish_command, TaskStatus

\* An aborted start gives the robot back; to any other state it does nothing.
LEMMA AbortFields ==
  ASSUME FieldsOK, finish_command("start_navigation", navigation_start_aborted(fsm))
  PROVE  /\ fsm'.generation = fsm.generation
         /\ fsm'.motion_mode =
              IF fsm.motion_mode = "StartingNavigation" THEN "Idle" ELSE fsm.motion_mode
         /\ fsm'.navigation_environment_ready =
              IF fsm.motion_mode = "StartingNavigation" THEN FALSE
              ELSE fsm.navigation_environment_ready
         /\ active_command' =
              IF active_command = "start_navigation" THEN NoCommand ELSE active_command
<1> DEFINE f == navigation_start_aborted(fsm)
<1>1. fsm \in RobotDto /\ "Idle" \in TaskStatus
  BY DEF FieldsOK, TaskStatus
<1>2. f \in RobotDto
  BY <1>1, FsmOperationsTyped
<1>3. /\ f.generation = fsm.generation
      /\ f.motion_mode =
           IF fsm.motion_mode = "StartingNavigation" THEN "Idle" ELSE fsm.motion_mode
      /\ f.navigation_environment_ready =
           IF fsm.motion_mode = "StartingNavigation" THEN FALSE
           ELSE fsm.navigation_environment_ready
  BY <1>1, FsmFields
<1>4. finish_command("start_navigation", f)
  OBVIOUS
<1> HIDE DEF f
<1>5. QED
  BY <1>2, <1>3, <1>4, FinishFields

\* What a completion does to the fields, by kind and by whether it still matters.
LEMMA CompleteFields ==
  ASSUME FieldsOK, NEW k \in Kind, NEW a, NEW success \in BOOLEAN,
         Complete(k, a, success)
  PROVE  \/ UNCHANGED <<fsm, active_command, pending, flags>>
         \/ /\ pending[k]
            /\ pending' = [pending EXCEPT ![k] = FALSE]
            /\ \/ ~is_navigation(fsm) /\ UNCHANGED <<fsm, active_command, flags>>
               \/ /\ is_navigation(fsm)
                  /\ k # "env"
                  /\ UNCHANGED navigation_env_ready
                  /\ fsm'.generation = fsm.generation
                  /\ fsm'.motion_mode = fsm.motion_mode
                  /\ fsm'.navigation_environment_ready = fsm.navigation_environment_ready
                  /\ active_command' \in {active_command, NoCommand}
               \/ /\ is_navigation(fsm)
                  /\ k = "env"
                  /\ navigation_env_ready' = success
                  /\ fsm'.generation = fsm.generation
                  /\ fsm'.motion_mode =
                       IF fsm.motion_mode = "StartingNavigation"
                       THEN IF success THEN "NavigationReady" ELSE "Failed"
                       ELSE fsm.motion_mode
                  /\ fsm'.navigation_environment_ready =
                       IF fsm.motion_mode = "StartingNavigation" THEN success
                       ELSE fsm.navigation_environment_ready
                  /\ active_command' = IF active_command = "start_navigation"
                                       THEN NoCommand ELSE active_command
<1>0. fsm \in RobotDto
  BY DEF FieldsOK
<1>1. CASE k = "env"
  <2> DEFINE f == navigation_ready(fsm, success)
  <2>1. CompleteEnv(a, success)
    BY <1>1 DEF Complete
  <2>2. CASE ~IsPending("env", a)
    BY <2>1, <2>2 DEF CompleteEnv
  <2>3. CASE IsPending("env", a) /\ ~is_navigation(fsm)
    BY <1>1, <2>1, <2>3 DEF CompleteEnv, IsPending, Consume
  <2>4. CASE IsPending("env", a) /\ is_navigation(fsm)
    <3>1. /\ pending["env"]
          /\ pending' = [pending EXCEPT !["env"] = FALSE]
          /\ finish_command("start_navigation", f)
          /\ navigation_env_ready' = success
      BY <2>1, <2>4 DEF CompleteEnv, IsPending, Consume
    <3>2. f \in RobotDto
      BY <1>0, FsmOperationsTyped
    <3>3. /\ f.generation = fsm.generation
          /\ f.motion_mode = IF fsm.motion_mode = "StartingNavigation"
                             THEN IF success THEN "NavigationReady" ELSE "Failed"
                             ELSE fsm.motion_mode
          /\ f.navigation_environment_ready =
               IF fsm.motion_mode = "StartingNavigation" THEN success
               ELSE fsm.navigation_environment_ready
      BY <1>0, FsmFields
    <3> HIDE DEF f
    <3>4. f.motion_mode # "StartingNavigation"
      BY <3>3
    <3>5. /\ fsm'.generation = f.generation
          /\ fsm'.motion_mode = f.motion_mode
          /\ fsm'.navigation_environment_ready = f.navigation_environment_ready
          /\ active_command' = IF active_command = "start_navigation"
                               THEN NoCommand ELSE active_command
      BY <3>1, <3>2, <3>4, FinishFields
    <3>6. QED
      BY <1>1, <2>4, <3>1, <3>3, <3>5
  <2>5. QED
    BY <2>2, <2>3, <2>4
<1>2. CASE k = "pose"
  <2> DEFINE f == localization_ready(fsm, success)
  <2>1. CompletePose(a, success)
    BY <1>2 DEF Complete
  <2>2. CASE ~is_navigation(fsm) \/ ~IsPending("pose", a)
    BY <2>1, <2>2 DEF CompletePose
  <2>3. CASE is_navigation(fsm) /\ IsPending("pose", a)
    <3>1. /\ pending["pose"]
          /\ pending' = [pending EXCEPT !["pose"] = FALSE]
          /\ finish_command("initial_pose", f)
          /\ UNCHANGED navigation_env_ready
      BY <2>1, <2>3 DEF CompletePose, IsPending, Consume
    <3>2. f \in RobotDto
      BY <1>0, FsmOperationsTyped
    <3>3. /\ f.generation = fsm.generation
          /\ f.motion_mode = fsm.motion_mode
          /\ f.navigation_environment_ready = fsm.navigation_environment_ready
      BY <1>0, FsmFields
    <3> HIDE DEF f
    <3>4. /\ fsm'.generation = f.generation
          /\ fsm'.motion_mode = f.motion_mode
          /\ fsm'.navigation_environment_ready = f.navigation_environment_ready
          /\ active_command' = IF active_command = "initial_pose"
                               THEN NoCommand ELSE active_command
      BY <3>1, <3>2, FinishFields, "initial_pose" # "start_navigation"
    <3>5. QED
      BY <1>2, <2>3, <3>1, <3>3, <3>4
  <2>4. QED
    BY <2>2, <2>3
<1>3. CASE k \in {"task", "clear"}
  <2>1. CompleteOther(k, a)
    BY <1>3 DEF Complete
  <2>2. CASE ~is_navigation(fsm) \/ ~IsPending(k, a)
    BY <2>1, <2>2 DEF CompleteOther
  <2>3. CASE is_navigation(fsm) /\ IsPending(k, a)
    <3>1. /\ pending[k]
          /\ pending' = [pending EXCEPT ![k] = FALSE]
          /\ finish_command(command_of[k], fsm)
          /\ UNCHANGED navigation_env_ready
      BY <2>1, <2>3 DEF CompleteOther, IsPending, Consume, flags
    <3>2. command_of[k] # "start_navigation"
      BY <1>3 DEF command_of
    <3>3. QED
      BY <1>0, <1>3, <2>3, <3>1, <3>2, FinishFields
  <2>4. QED
    BY <2>2, <2>3
<1>4. QED
  BY <1>1, <1>2, <1>3 DEF Kind

\* What the end of a service call does to the fields.
LEMMA ServiceReturnsFields ==
  ASSUME FieldsOK, NEW w \in Workers, NEW success \in BOOLEAN, ServiceReturns(w, success)
  PROVE  \/ UNCHANGED <<fsm, active_command>>
         \/ /\ is_navigation(fsm)
            /\ fsm'.generation = fsm.generation
            /\ active_command' = IF active_command = worker[w].type
                                 THEN NoCommand ELSE active_command
            /\ \/ /\ fsm'.motion_mode \in {fsm.motion_mode, "NavigationReady", "Navigating"}
                  /\ fsm'.navigation_environment_ready = fsm.navigation_environment_ready
                  /\ fsm'.motion_mode = "StartingNavigation" =>
                       worker[w].type # "start_navigation"
               \/ /\ fsm.motion_mode = "StartingNavigation"
                  /\ worker[w].type = "start_navigation"
                  /\ fsm'.motion_mode = "Failed"
                  /\ ~fsm'.navigation_environment_ready
<1> DEFINE type == worker[w].type
<1>0. fsm \in RobotDto
  BY DEF FieldsOK
<1>1. ASSUME NEW f \in RobotDto, is_navigation(fsm), finish_command(type, f),
             f.generation = fsm.generation,
             f.motion_mode \in {fsm.motion_mode, "NavigationReady", "Navigating"},
             f.navigation_environment_ready = fsm.navigation_environment_ready
      PROVE  /\ fsm'.generation = fsm.generation
             /\ active_command' = IF active_command = type THEN NoCommand ELSE active_command
             /\ \/ /\ fsm'.motion_mode \in {fsm.motion_mode, "NavigationReady", "Navigating"}
                   /\ fsm'.navigation_environment_ready = fsm.navigation_environment_ready
                   /\ fsm'.motion_mode = "StartingNavigation" => type # "start_navigation"
                \/ /\ fsm.motion_mode = "StartingNavigation"
                   /\ type = "start_navigation"
                   /\ fsm'.motion_mode = "Failed"
                   /\ ~fsm'.navigation_environment_ready
  BY <1>1, FinishFields
<1>2. CASE UNCHANGED <<fsm, active_command>>
  BY <1>2
<1>3. CASE is_navigation(fsm) /\ finish_command(type, fsm)
  BY <1>0, <1>1, <1>3
<1>4. ASSUME NEW status \in {"Running", "Cancelled"}, is_navigation(fsm),
             finish_command(type, task_state(fsm, status))
      PROVE  /\ fsm'.generation = fsm.generation
             /\ active_command' = IF active_command = type THEN NoCommand ELSE active_command
             /\ \/ /\ fsm'.motion_mode \in {fsm.motion_mode, "NavigationReady", "Navigating"}
                   /\ fsm'.navigation_environment_ready = fsm.navigation_environment_ready
                   /\ fsm'.motion_mode = "StartingNavigation" => type # "start_navigation"
                \/ /\ fsm.motion_mode = "StartingNavigation"
                   /\ type = "start_navigation"
                   /\ fsm'.motion_mode = "Failed"
                   /\ ~fsm'.navigation_environment_ready
  <2>0. status \in TaskStatus
    BY DEF TaskStatus
  <2>1. task_state(fsm, status) \in RobotDto
    BY <1>0, <2>0, FsmOperationsTyped
  <2>2. /\ task_state(fsm, status).generation = fsm.generation
        /\ task_state(fsm, status).motion_mode \in {"NavigationReady", "Navigating"}
        /\ task_state(fsm, status).navigation_environment_ready =
             fsm.navigation_environment_ready
    BY <1>0, <1>4, <2>0, FsmFields
  <2>3. QED
    BY <1>1, <1>4, <2>1, <2>2
<1>5. QED
  BY <1>2, <1>3, <1>4 DEF ServiceReturns, navigation_current

\* What a pause or resume line does to the fields.
LEMMA TaskLineFields ==
  ASSUME FieldsOK, PauseLineRead \/ ResumeLineRead
  PROVE  /\ is_navigation(fsm)
         /\ fsm'.generation = fsm.generation
         /\ fsm'.motion_mode = "Navigating"
         /\ fsm'.navigation_environment_ready = fsm.navigation_environment_ready
<1>1. fsm \in RobotDto /\ {"Paused", "Running"} \subseteq TaskStatus
  BY DEF FieldsOK, TaskStatus
<1>2. PICK status \in {"Paused", "Running"} : fsm' = task_state(fsm, status)
  BY DEF PauseLineRead, ResumeLineRead, TaskLineRead
<1>3. is_navigation(fsm)
  BY DEF PauseLineRead, ResumeLineRead, TaskLineRead, Reads
<1>4. QED
  BY <1>1, <1>2, <1>3, FsmFields

-----------------------------------------------------------------------------
\* The invariant is inductive.

\* Confirmed, timed out or out of date: a completion keeps the invariant.
LEMMA CompleteSafe ==
  ASSUME FieldsOK, Safe, lock = Free, NEW k \in Kind, NEW a, NEW success \in BOOLEAN,
         Complete(k, a, success),
         UNCHANGED <<lock, worker, nav_process, environment>>
  PROVE  Safe'
<1> USE DEF Safe, Phases, StartingOwnsGate, AwaitedNotReady, PreparationPending,
            NoNavigationLeft, ReadinessAgrees, NothingPending,
            is_navigation, is_follow, NavigationModes, FollowModes, MappingModes, Managed, NoCommand,
            StartPhases, StopPhases, Free, flags
<1>1. CASE UNCHANGED <<fsm, active_command, pending, flags>>
  BY <1>1
<1>2. CASE pending[k] /\ pending' = [pending EXCEPT ![k] = FALSE]
  <2>1. \A j \in Kind : pending'[j] => pending[j]
    BY <1>2 DEF FieldsOK
  <2>2. ~pending'["env"] \/ pending'["env"] = pending["env"]
    BY <1>2 DEF FieldsOK, Kind
  <2>3. \A v \in Workers : is_navigation(fsm) /\ worker[v].pc = "preparing" =>
                             worker[v].generation # fsm.generation
    BY <1>2
  <2>4. CASE ~is_navigation(fsm) /\ UNCHANGED <<fsm, active_command, flags>>
    BY <2>1, <2>2, <2>4
  <2>5. CASE /\ is_navigation(fsm)
             /\ k # "env"
             /\ UNCHANGED navigation_env_ready
             /\ fsm'.generation = fsm.generation
             /\ fsm'.motion_mode = fsm.motion_mode
             /\ fsm'.navigation_environment_ready = fsm.navigation_environment_ready
             /\ active_command' \in {active_command, NoCommand}
    <3>1. fsm.motion_mode # "StartingNavigation"
      BY <1>2, <2>5
    <3>2. QED
      BY <2>1, <2>2, <2>3, <2>5, <3>1
  <2>6. CASE /\ is_navigation(fsm)
             /\ k = "env"
             /\ navigation_env_ready' = success
             /\ fsm'.generation = fsm.generation
             /\ fsm'.motion_mode =
                  IF fsm.motion_mode = "StartingNavigation"
                  THEN IF success THEN "NavigationReady" ELSE "Failed"
                  ELSE fsm.motion_mode
             /\ fsm'.navigation_environment_ready =
                  IF fsm.motion_mode = "StartingNavigation" THEN success
                  ELSE fsm.navigation_environment_ready
             /\ active_command' = IF active_command = "start_navigation"
                                  THEN NoCommand ELSE active_command
    <3>1. ~pending'["env"]
      BY <1>2, <2>6 DEF FieldsOK, Kind
    <3>2. ~fsm.navigation_environment_ready
      BY <1>2, <2>6
    <3>3. PreparationPending'
      BY <2>3, <2>6
    <3>4. QED
      BY <2>1, <2>6, <3>1, <3>2, <3>3
  <2>7. QED
    BY <1>2, <2>4, <2>5, <2>6, CompleteFields
<1>3. QED
  BY <1>1, <1>2, CompleteFields

\* Every step keeps the invariant.
LEMMA SafeStep ==
  ASSUME FieldsOK, Safe, [Next]_vars
  PROVE  Safe'
<1> USE DEF behaviour, requests, threads, flags, machine
<1> USE DEF Safe, Phases, StartingOwnsGate, AwaitedNotReady, PreparationPending,
            NoNavigationLeft, ReadinessAgrees, NothingPending,
            is_navigation, is_follow, NavigationModes, FollowModes, MappingModes, Managed, NoCommand,
            StartPhases, StopPhases, Free, Kind
<1>t. FieldsOK'
  BY TypeStep
<1>0. fsm \in RobotDto /\ fsm.generation \in Nat
  BY DEF FieldsOK, RobotDto
<1>1. CASE StartBegins
  <2>1. /\ fsm'.generation = fsm.generation + 1
        /\ fsm'.motion_mode = "StartingNavigation"
        /\ fsm'.navigation_environment_ready = fsm.navigation_environment_ready
        /\ fsm.motion_mode = "Idle"
    BY <1>1, <1>0, FsmBegins DEF StartBegins, can_begin_navigation
  <2>2. nav_process # "running" /\ NothingPending /\ ~fsm.navigation_environment_ready
    BY <2>1
  <2>3. PreparationPending'
    BY <1>1, <1>0, <2>1 DEF StartBegins, FieldsOK, Thread
  <2>4. QED
    BY <1>1, <2>1, <2>2, <2>3 DEF StartBegins, Kind
<1>2. CASE StartRefused
  <2>1. /\ fsm'.generation = fsm.generation
        /\ fsm'.motion_mode = "Failed"
        /\ ~fsm'.navigation_environment_ready
        /\ active_command' = NoCommand
    BY <1>2, <1>0, FinishFields DEF StartRefused
  <2>2. QED
    BY <1>2, <2>1 DEF StartRefused, ForgetDeadProcess
<1>3. CASE StartChecked
  <2>1. nav_process' = "none" /\ ~environment
    BY <1>3 DEF StartChecked, ForgetDeadProcess, is_navigation_environment_running, FieldsOK
  <2>2. QED
    BY <1>3, <2>1 DEF StartChecked
<1>4. CASE StartAborted
  <2>1. /\ fsm'.generation = fsm.generation
        /\ fsm'.motion_mode = "Idle"
        /\ ~fsm'.navigation_environment_ready
        /\ active_command' = NoCommand
    BY <1>4, AbortFields DEF StartAborted
  <2>2. QED
    BY <1>4, <2>1 DEF StartAborted
<1>5. CASE StartThrows
  BY <1>5 DEF StartThrows
<1>6. CASE StartLaunchesWorker
  <2>1. /\ fsm.motion_mode = "StartingNavigation"
        /\ ~fsm.navigation_environment_ready
        /\ nav_process = "none" /\ ~environment /\ NothingPending
        /\ \A v \in Workers : worker[v].pc = "preparing" => worker[v].generation # fsm.generation
    BY <1>6 DEF StartLaunchesWorker
  <2>2. PICK w \in Workers :
          worker' = [worker EXCEPT ![w] = [pc |-> "preparing", type |-> "start_navigation",
                                           generation |-> fsm.generation]]
    BY <1>6 DEF StartLaunchesWorker, Launch
  <2>3. PreparationPending'
    BY <1>6, <1>0, <2>1, <2>2 DEF StartLaunchesWorker, FieldsOK, Thread
  <2>4. QED
    BY <1>6, <2>1, <2>3 DEF StartLaunchesWorker
<1>7. CASE StopRequested
  BY <1>7 DEF StopRequested
<1>8. CASE StopBegins
  <2>1. /\ fsm'.generation = fsm.generation + 1
        /\ fsm'.motion_mode = "Stopping"
        /\ fsm'.navigation_environment_ready = fsm.navigation_environment_ready
    BY <1>8, <1>0, FsmBegins DEF StopBegins
  <2>2. active_command' = NoCommand /\ NothingPending'
    BY <1>8 DEF StopBegins, invalidate_navigation_requests
  <2>3. PreparationPending'
    BY <1>8, <1>0, <2>1 DEF StopBegins, FieldsOK, Thread
  <2>4. QED
    BY <1>8, <2>1, <2>2, <2>3 DEF StopBegins
<1>9. CASE StopCleansUp
  BY <1>9 DEF StopCleansUp, CleansUp
<1>10. CASE StopVerifies
  <2>1. PICK success \in BOOLEAN : fsm' = stopped(fsm, success, FALSE)
    BY <1>10 DEF StopVerifies, StopEnds, IsClean
  <2>2. /\ fsm'.generation = fsm.generation
        /\ fsm'.motion_mode \in {"Idle", "Failed"}
        /\ ~fsm'.navigation_environment_ready
    BY <1>0, <2>1, FsmBegins
  <2>3. QED
    BY <1>10, <2>2 DEF StopVerifies, StopEnds, ForgetsNavigation, ForgetDeadProcess
<1>11. CASE InitialPose \/ NavigationTask \/ ClearWaypoints
  <2>1. /\ fsm.motion_mode \in {"NavigationReady", "Navigating"}
        /\ fsm.navigation_environment_ready
        /\ lock = Free
    BY <1>11 DEF InitialPose, NavigationTask, ClearWaypoints, Admitted, admit_behavior_command
  <2>2. \A v \in Workers : worker[v].pc = "preparing" => worker[v].generation # fsm.generation
    BY <2>1
  <2>3. pending'["env"] = pending["env"]
    BY <1>11 DEF InitialPose, NavigationTask, ClearWaypoints, RequestWithTimeout, Request, FieldsOK, Kind
  <2>4. PreparationPending'
    BY <1>11, <2>2 DEF InitialPose, NavigationTask, ClearWaypoints, Launch, FieldsOK, Thread
  <2>5. QED
    BY <1>11, <2>1, <2>3, <2>4 DEF InitialPose, NavigationTask, ClearWaypoints, Kind
<1>13. ASSUME NEW type \in ServiceCommands, ServiceCommand(type) PROVE Safe'
  <2>1. is_navigation(fsm) /\ lock = Free
    BY <1>13 DEF ServiceCommand, Admitted, admit_behavior_command
  <2>2. fsm.motion_mode = "StartingNavigation" => active_command' = active_command
    BY <1>13 DEF ServiceCommand, Admitted, try_begin_command, GateTakenBy, Managed, NoCommand
  <2>3. PreparationPending'
    BY <1>13 DEF ServiceCommand, Launch, FieldsOK, Thread
  <2>4. QED
    BY <1>13, <2>1, <2>2, <2>3 DEF ServiceCommand
<1>15. ASSUME NEW w \in Workers, WorkerStep(w) PROVE Safe'
  <2>1. CASE PreparedTooLate(w) \/ ServiceTooLate(w)
    <3>1. PreparationPending'
      BY <1>15, <2>1 DEF PreparedTooLate, ServiceTooLate, Exits, FieldsOK, Thread
    <3>2. QED
      BY <2>1, <3>1 DEF PreparedTooLate, ServiceTooLate
  <2>2. CASE PreparationFails(w)
    <3>1. /\ fsm.generation = worker[w].generation /\ is_navigation(fsm)
          /\ NothingPending /\ nav_process = "none"
          /\ ~fsm.navigation_environment_ready
          /\ lock = Free
      BY <2>2 DEF PreparationFails, navigation_current
    <3>2. finish_command("start_navigation", navigation_start_aborted(fsm))
      BY <2>2 DEF PreparationFails
    <3>3. PreparationPending'
      BY <2>2, <3>1, <3>2, AbortFields DEF PreparationFails, Exits, FieldsOK, Thread
    <3>4. QED
      BY <2>2, <3>1, <3>2, <3>3, AbortFields DEF PreparationFails
  <2>3. CASE EnvironmentLaunched(w)
    <3>1. /\ fsm.generation = worker[w].generation /\ is_navigation(fsm)
          /\ NothingPending
          /\ ~fsm.navigation_environment_ready
          /\ lock = Free
      BY <2>3 DEF EnvironmentLaunched, navigation_current
    <3>2. \A v \in Workers \ {w} :
            worker[v].pc = "preparing" => worker[v].generation # fsm.generation
      BY <2>3, <3>1 DEF EnvironmentLaunched
    <3>3. PreparationPending'
      BY <2>3, <3>2 DEF EnvironmentLaunched, Exits, FieldsOK, Thread
    <3>4. \A k \in Kind \ {"env"} : ~pending'[k]
      BY <2>3, <3>1 DEF EnvironmentLaunched, RequestWithTimeout, Request, FieldsOK
    <3>5. QED
      BY <2>3, <3>1, <3>3, <3>4 DEF EnvironmentLaunched
  <2>4. CASE ServiceCalled(w)
    <3>1. w \notin Holders
      BY WorkersAssumption
    <3>2. PreparationPending'
      BY <1>15, <2>4, <3>1 DEF ServiceCalled, FieldsOK, Thread, Holders
    <3>3. QED
      BY <2>4, <3>1, <3>2 DEF ServiceCalled, Holders
  <2>5. ASSUME NEW success \in BOOLEAN, ServiceReturns(w, success) PROVE Safe'
    <3>1. w \notin Holders
      BY WorkersAssumption
    <3>2. /\ lock = w
          /\ lock' = Free
          /\ worker' = [worker EXCEPT ![w].pc = "exited"]
          /\ UNCHANGED <<pending, nav_process, environment, navigation_env_ready>>
      BY <2>5 DEF ServiceReturns, Exits
    <3>3. CASE UNCHANGED <<fsm, active_command>>
      <4>1. PreparationPending'
        BY <3>1, <3>2, <3>3 DEF FieldsOK, Thread, Holders
      <4>2. QED
        BY <3>1, <3>2, <3>3, <4>1 DEF Holders
    <3>4. CASE ~UNCHANGED <<fsm, active_command>>
      <4>1. /\ is_navigation(fsm)
            /\ fsm'.generation = fsm.generation
            /\ active_command' = IF active_command = worker[w].type
                                 THEN NoCommand ELSE active_command
            /\ \/ /\ fsm'.motion_mode \in {fsm.motion_mode, "NavigationReady", "Navigating"}
                  /\ fsm'.navigation_environment_ready = fsm.navigation_environment_ready
                  /\ fsm'.motion_mode = "StartingNavigation" =>
                       worker[w].type # "start_navigation"
               \/ /\ fsm.motion_mode = "StartingNavigation"
                  /\ worker[w].type = "start_navigation"
                  /\ fsm'.motion_mode = "Failed"
                  /\ ~fsm'.navigation_environment_ready
        BY <2>5, <3>4, ServiceReturnsFields
      <4>2. PreparationPending'
        BY <3>1, <3>2, <4>1 DEF FieldsOK, Thread, Holders
      <4>3. QED
        BY <3>1, <3>2, <4>1, <4>2 DEF Holders
    <3>5. QED
      BY <3>3, <3>4
  <2>6. QED
    BY <1>15, <2>1, <2>2, <2>3, <2>4, <2>5 DEF WorkerStep
<1>16. ASSUME NEW t \in timers, TimeoutFires(t[1], t[2]) PROVE Safe'
  BY <1>16, CompleteSafe DEF TimeoutFires, FieldsOK
<1>17. ASSUME NEW t \in thrown, ExceptionHandled(t[1], t[2]) PROVE Safe'
  <2>1. t[1] \in Managed
    BY DEF FieldsOK
  <2>2. CASE t[1] = "start_navigation" /\ nav_process = "none"
    <3>1. finish_command("start_navigation", navigation_start_aborted(fsm))
      BY <1>17, <2>2 DEF ExceptionHandled
    <3>2. QED
      BY <1>17, <2>2, <3>1, AbortFields DEF ExceptionHandled
  <2>3. CASE ~(t[1] = "start_navigation" /\ nav_process = "none")
    <3>1. finish_command(t[1], fsm)
      BY <1>17, <2>3 DEF ExceptionHandled
    <3>2. QED
      BY <1>0, <1>17, <2>1, <3>1, FinishFields DEF ExceptionHandled
  <2>4. QED
    BY <2>2, <2>3
<1>18. CASE PauseLineRead \/ ResumeLineRead
  <2>1. UNCHANGED <<lock, active_command, requests, threads, flags, machine>>
    BY <1>18 DEF PauseLineRead, ResumeLineRead, TaskLineRead
  <2>2. lock = Free
    BY <1>18 DEF PauseLineRead, ResumeLineRead, TaskLineRead, Reads
  <2>3. QED
    BY <1>18, <2>1, <2>2, TaskLineFields
<1>19. ASSUME NEW k \in Kind, NEW line, ConfirmationRead(line, k) PROVE Safe'
  BY <1>19, CompleteSafe DEF ConfirmationRead, Reads
<1>20. CASE WaypointLineRead
  <2>1. CASE UNCHANGED <<fsm, active_command, pending, flags>>
    BY <1>20, <2>1 DEF WaypointLineRead
  <2>2. CASE Complete("task", attempt["task"], TRUE)
    BY <1>20, <2>2, CompleteSafe DEF WaypointLineRead, Reads, Kind
  <2>3. QED
    BY <1>20, <2>1, <2>2 DEF WaypointLineRead
<1>21. CASE MachineStep
  BY <1>21 DEF MachineStep, OdometryPublished, LocalizationCallback, LauncherExits,
               EnvironmentDies
<1>22. CASE UNCHANGED vars
  BY <1>22 DEF vars
<1>23. CASE EnvReadyLineRead \/ ClearedLineRead \/ InitializedLineRead
  BY <1>19, <1>23 DEF EnvReadyLineRead, ClearedLineRead, InitializedLineRead, Kind
<1>24. QED
  BY <1>1, <1>2, <1>3, <1>4, <1>5, <1>6, <1>7, <1>8, <1>9, <1>10, <1>11, <1>13,
     <1>15, <1>16, <1>17, <1>18, <1>20, <1>21, <1>22, <1>23
     DEF Next, Step, CloudStep, StartStep, LineRead
-----------------------------------------------------------------------------
\* The theorems.

\* The initial state satisfies the invariant, whether or not nodes of an earlier
\* run of the gateway are still alive.
LEMMA InitSafe == Init => Safe
BY DEF Init, initial_state, Safe, Phases, StartingOwnsGate, AwaitedNotReady,
       PreparationPending, NoNavigationLeft, ReadinessAgrees, NothingPending,
       is_navigation, is_follow, NavigationModes, FollowModes, MappingModes, Managed,
       NoCommand, StartPhases, StopPhases, Free, Unborn

\* The inductive invariant holds in every reachable state.
THEOREM SafeAlways == Spec => []IInv
<1>1. Init => Safe
  BY InitSafe
<1>2. TypeOK /\ Safe /\ [Next]_vars => Safe'
  BY SafeStep DEF TypeOK
<1>3. Spec => []TypeOK
  BY TypeCorrect
<1>4. TypeOK /\ Safe => IInv
  BY DEF IInv
<1>5. QED
  BY <1>1, <1>2, <1>3, <1>4, PTL DEF Spec

\* Outside navigation nothing of navigation is left over.
THEOREM NothingLeftOver == Spec => []IdleHasNoNavigation
<1>1. IInv => IdleHasNoNavigation
  BY DEF IInv, Safe, TypeOK, NoNavigationLeft, NothingPending, IdleHasNoNavigation
<1>2. QED
  BY <1>1, SafeAlways, PTL

\* The state machine never claims a readiness that the atomic flag denies.
THEOREM ReadinessRecordsAgree == Spec => []ReadinessAgrees
<1>1. IInv => ReadinessAgrees
  BY DEF IInv, Safe
<1>2. QED
  BY <1>1, SafeAlways, PTL

\* Only a worker whose download is still wanted forks a launcher.
LEMMA LaunchStep ==
  ASSUME FieldsOK, Safe, [Next]_vars, nav_process # "running", nav_process' = "running"
  PROVE  nav_process = "none" /\ ~environment
<1>1. PICK w \in Workers : EnvironmentLaunched(w)
  <2> USE DEF machine
  <2>1. ~CloudStep
    BY DEF CloudStep, StartBegins, InitialPose, NavigationTask, ServiceCommand,
           ClearWaypoints, StopRequested
  <2>2. ~StartStep
    BY DEF StartStep, StartRefused, StartChecked, StartAborted, StartThrows,
           StartLaunchesWorker, ForgetDeadProcess
  <2>3. ~StopBegins /\ ~StopCleansUp /\ ~StopVerifies
    BY DEF StopBegins, StopCleansUp, CleansUp, StopVerifies, StopEnds,
           ForgetsNavigation, ForgetDeadProcess
  <2>4. ~LineRead
    BY DEF LineRead, PauseLineRead, ResumeLineRead, TaskLineRead, EnvReadyLineRead,
           ClearedLineRead, InitializedLineRead, ConfirmationRead, WaypointLineRead
  <2>5. ~MachineStep
    BY DEF MachineStep, OdometryPublished, LocalizationCallback, LauncherExits,
           EnvironmentDies
  <2>6. ~\E t \in timers : TimeoutFires(t[1], t[2])
    BY DEF TimeoutFires
  <2>7. ~\E t \in thrown : ExceptionHandled(t[1], t[2])
    BY DEF ExceptionHandled
  <2>8. PICK w \in Workers : WorkerStep(w)
    BY <2>1, <2>2, <2>3, <2>4, <2>5, <2>6, <2>7 DEF Next, Step, vars
  <2>9. QED
    BY <2>8 DEF WorkerStep, PreparedTooLate, PreparationFails, ServiceTooLate,
                ServiceCalled, ServiceReturns
<1>2. QED
  BY <1>1 DEF EnvironmentLaunched, Safe, PreparationPending, navigation_current

\* A late download never forks a second environment beside a living one.
THEOREM NeverTwoEnvironments == Spec => OneEnvironment
<1>1. IInv /\ [Next]_vars =>
        [nav_process # "running" /\ nav_process' = "running"
           => nav_process = "none" /\ ~environment]_vars
  BY LaunchStep DEF IInv, TypeOK
<1> QED
  BY <1>1, SafeAlways, PTL DEF Spec, OneEnvironment

-----------------------------------------------------------------------------
\* Navigation implements BehaviorArbiter.

\* The five ways in which a step moves the mode and the generation.
ModeMoves ==
  \/ fsm'.generation = fsm.generation /\ fsm'.motion_mode = fsm.motion_mode
  \/ /\ fsm'.generation = fsm.generation
     /\ is_navigation(fsm)
     /\ fsm'.motion_mode \in NavigationModes \cup {"Idle", "Failed"}
  \/ /\ fsm'.generation = fsm.generation
     /\ fsm.motion_mode = "Stopping"
     /\ fsm'.motion_mode \in {"Idle", "Failed"}
  \/ /\ fsm'.generation = fsm.generation + 1
     /\ fsm.motion_mode = "Idle"
     /\ fsm'.motion_mode = "StartingNavigation"
  \/ /\ fsm'.generation = fsm.generation + 1
     /\ fsm.motion_mode \in NavigationModes \cup {"Idle", "Failed"}
     /\ fsm'.motion_mode = "Stopping"

\* No step moves them in any other way.
LEMMA ModeStep ==
  ASSUME FieldsOK, Safe, [Next]_vars
  PROVE  ModeMoves
<1> USE DEF behaviour, requests, threads, flags, machine
<1>0. fsm \in RobotDto
  BY DEF FieldsOK
<1>1. CASE StartBegins
  BY <1>1, <1>0, FsmBegins DEF StartBegins, can_begin_navigation, ModeMoves
<1>2. CASE StartRefused
  <2>1. fsm.motion_mode = "StartingNavigation"
    BY <1>2 DEF StartRefused, Safe, Phases, StartPhases
  <2>2. fsm'.generation = fsm.generation /\ fsm'.motion_mode = "Failed"
    BY <1>0, <1>2, <2>1, FinishFields DEF StartRefused
  <2>3. QED
    BY <2>1, <2>2 DEF ModeMoves, is_navigation, NavigationModes
<1>3. CASE StartChecked \/ StartThrows \/ StartLaunchesWorker
  BY <1>3 DEF StartChecked, StartThrows, StartLaunchesWorker, ModeMoves
<1>4. CASE StartAborted
  BY <1>4, AbortFields DEF StartAborted, ModeMoves, is_navigation, NavigationModes
<1>5. CASE StopBegins
  <2>1. fsm.motion_mode \in NavigationModes \cup {"Idle", "Failed"}
    BY <1>0, <1>5 DEF StopBegins, can_begin_stop, RobotDto, MotionMode, NavigationModes,
                      FollowModes, MappingModes
  <2>2. fsm'.generation = fsm.generation + 1 /\ fsm'.motion_mode = "Stopping"
    BY <1>0, <1>5, FsmBegins DEF StopBegins
  <2>3. QED
    BY <2>1, <2>2 DEF ModeMoves
<1>6. CASE StopCleansUp
  BY <1>6 DEF StopCleansUp, CleansUp, ModeMoves
<1>7. CASE StopVerifies
  <2>1. fsm.motion_mode = "Stopping"
    BY <1>7 DEF StopVerifies, StopEnds, Safe, Phases, StopPhases
  <2>2. PICK success \in BOOLEAN : fsm' = stopped(fsm, success, FALSE)
    BY <1>7 DEF StopVerifies, StopEnds, IsClean
  <2>3. QED
    BY <1>0, <2>1, <2>2, FsmBegins DEF ModeMoves
<1>8. CASE CloudStep /\ ~StartBegins
  BY <1>8 DEF CloudStep, InitialPose, NavigationTask, ServiceCommand, ClearWaypoints,
              StopRequested, ModeMoves
<1>9. ASSUME NEW w \in Workers, WorkerStep(w) PROVE ModeMoves
  <2>1. CASE PreparationFails(w)
    BY <2>1, AbortFields DEF PreparationFails, ModeMoves, is_navigation, NavigationModes
  <2>2. ASSUME NEW success \in BOOLEAN, ServiceReturns(w, success) PROVE ModeMoves
    BY <2>2, ServiceReturnsFields DEF ModeMoves, is_navigation, NavigationModes
  <2>3. CASE PreparedTooLate(w) \/ EnvironmentLaunched(w) \/ ServiceTooLate(w) \/ ServiceCalled(w)
    BY <2>3 DEF PreparedTooLate, EnvironmentLaunched, ServiceTooLate, ServiceCalled, ModeMoves
  <2>4. QED
    BY <1>9, <2>1, <2>2, <2>3 DEF WorkerStep
<1>10. ASSUME NEW k \in Kind, NEW a, NEW success \in BOOLEAN, Complete(k, a, success)
       PROVE  ModeMoves
  BY <1>10, CompleteFields DEF ModeMoves, is_navigation, NavigationModes
<1>11. ASSUME NEW t \in timers, TimeoutFires(t[1], t[2]) PROVE ModeMoves
  BY <1>10, <1>11 DEF TimeoutFires, FieldsOK
<1>12. ASSUME NEW t \in thrown, ExceptionHandled(t[1], t[2]) PROVE ModeMoves
  <2>1. CASE finish_command("start_navigation", navigation_start_aborted(fsm))
    BY <2>1, AbortFields DEF ModeMoves, is_navigation, NavigationModes
  <2>2. CASE finish_command(t[1], fsm)
    BY <1>0, <2>2, FinishFields DEF ModeMoves, is_navigation, NavigationModes
  <2>3. QED
    BY <1>12, <2>1, <2>2 DEF ExceptionHandled
<1>13. CASE PauseLineRead \/ ResumeLineRead
  BY <1>13, TaskLineFields DEF ModeMoves, NavigationModes
<1>14. ASSUME NEW k \in Kind, NEW line, ConfirmationRead(line, k) PROVE ModeMoves
  BY <1>10, <1>14 DEF ConfirmationRead
<1>15. CASE EnvReadyLineRead \/ ClearedLineRead \/ InitializedLineRead
  BY <1>14, <1>15 DEF EnvReadyLineRead, ClearedLineRead, InitializedLineRead, Kind
<1>16. CASE WaypointLineRead
  <2>1. CASE UNCHANGED fsm
    BY <2>1 DEF ModeMoves
  <2>2. CASE Complete("task", attempt["task"], TRUE)
    BY <1>10, <2>2 DEF Kind
  <2>3. QED
    BY <1>16, <2>1, <2>2 DEF WaypointLineRead
<1>17. CASE MachineStep \/ UNCHANGED vars
  BY <1>17 DEF MachineStep, OdometryPublished, LocalizationCallback, LauncherExits,
               EnvironmentDies, vars, ModeMoves
<1>18. QED
  BY <1>1, <1>2, <1>3, <1>4, <1>5, <1>6, <1>7, <1>8, <1>9, <1>11, <1>12, <1>13,
     <1>15, <1>16, <1>17
     DEF Next, Step, StartStep, LineRead

\* Each of the five is a step of the arbiter, or leaves owner and epoch alone.
LEMMA ModeMovesAsArbiter ==
  ASSUME FieldsOK, Safe, ModeMoves
  PROVE  [Arbiter!ArbiterNext]_<<OwnerOf(fsm.motion_mode), fsm.generation>>
<1> USE DEF OwnerOf, NavigationModes, FollowModes, MappingModes, is_navigation
<1>1. CASE fsm'.generation = fsm.generation /\ fsm'.motion_mode = fsm.motion_mode
  BY <1>1
<1>2. CASE /\ fsm'.generation = fsm.generation
           /\ is_navigation(fsm)
           /\ fsm'.motion_mode \in NavigationModes \cup {"Idle", "Failed"}
  <2>1. OwnerOf(fsm.motion_mode) = "navigation"
    BY <1>2
  <2>2. CASE fsm'.motion_mode \in NavigationModes
    BY <1>2, <2>1, <2>2
  <2>3. CASE fsm'.motion_mode = "Idle"
    BY <1>2, <2>1, <2>3 DEF Arbiter!ArbiterNext, Arbiter!GiveBack
  <2>4. CASE fsm'.motion_mode = "Failed"
    BY <1>2, <2>1, <2>4 DEF Arbiter!ArbiterNext, Arbiter!Fail
  <2>5. QED
    BY <1>2, <2>2, <2>3, <2>4
<1>3. CASE /\ fsm'.generation = fsm.generation
           /\ fsm.motion_mode = "Stopping"
           /\ fsm'.motion_mode \in {"Idle", "Failed"}
  BY <1>3 DEF Arbiter!ArbiterNext, Arbiter!Settle
<1>4. CASE /\ fsm'.generation = fsm.generation + 1
           /\ fsm.motion_mode = "Idle"
           /\ fsm'.motion_mode = "StartingNavigation"
  BY <1>4 DEF Arbiter!ArbiterNext, Arbiter!Grant
<1>5. CASE /\ fsm'.generation = fsm.generation + 1
           /\ fsm.motion_mode \in NavigationModes \cup {"Idle", "Failed"}
           /\ fsm'.motion_mode = "Stopping"
  BY <1>5 DEF Arbiter!ArbiterNext, Arbiter!Revoke
<1>6. QED
  BY <1>1, <1>2, <1>3, <1>4, <1>5 DEF ModeMoves

\* The navigation commands drive the behaviour only as the arbiter allows.
THEOREM NavigationImplementsArbiter == Spec => ImplementsArbiter
<1>1. Init => Arbiter!ArbiterInit
  BY DEF Init, initial_state, Arbiter!ArbiterInit, OwnerOf, NavigationModes, FollowModes,
         MappingModes
<1>2. IInv => FieldsOK /\ Safe
  BY DEF IInv, TypeOK
<1>3. IInv /\ [Next]_vars =>
        [Arbiter!ArbiterNext]_<<OwnerOf(fsm.motion_mode), fsm.generation>>
  BY <1>2, ModeStep, ModeMovesAsArbiter
<1>4. QED
  BY <1>1, <1>3, SafeAlways, PTL DEF Spec, ImplementsArbiter, Arbiter!ArbiterSpec

\* Whatever drives the robot as the arbiter allows leaves an epoch to the behaviour that
\* had it: a new one is begun under every other.
THEOREM EpochsHaveOneOwner == Arbiter!ArbiterSpec => Arbiter!EpochHasOneOwner
<1> DEFINE owner == OwnerOf(fsm.motion_mode)
           epoch == fsm.generation
           Typed == epoch \in Nat
<1>1. Arbiter!ArbiterInit => Typed
  BY DEF Arbiter!ArbiterInit
<1>2. Typed /\ [Arbiter!ArbiterNext]_<<owner, epoch>> => Typed'
  BY DEF Arbiter!ArbiterNext, Arbiter!Grant, Arbiter!Revoke, Arbiter!Settle, Arbiter!GiveBack,
         Arbiter!Fail, Arbiter!EndFollow
<1>3. ASSUME NEW e \in Nat, NEW b \in Arbiter!Behaviour
      PROVE  Arbiter!ArbiterSpec =>
               []((epoch = e /\ owner = b) => [](epoch = e => owner \in {b, "nobody", "fault"}))
  <2> DEFINE Had == epoch = e /\ owner = b
             Has == epoch = e => owner \in {b, "nobody", "fault"}
             Later == epoch > e \/ (epoch = e /\ owner \in {b, "nobody", "fault"})
  <2>1. Had => Later
    OBVIOUS
  <2>2. Typed /\ Later => Has
    OBVIOUS
  <2>3. Typed /\ Later /\ [Arbiter!ArbiterNext]_<<owner, epoch>> => Later'
    BY DEF Arbiter!Behaviour, Arbiter!ArbiterNext, Arbiter!Grant, Arbiter!Revoke,
           Arbiter!Settle, Arbiter!GiveBack, Arbiter!Fail, Arbiter!EndFollow
  <2>4. Arbiter!ArbiterSpec => [](Had => []Has)
    <3> HIDE DEF Typed, Had, Has, Later
    <3> QED
      BY <1>1, <1>2, <2>1, <2>2, <2>3, PTL DEF Arbiter!ArbiterSpec
  <2> QED
    BY <2>4
<1> QED
  BY <1>3 DEF Arbiter!EpochHasOneOwner

-----------------------------------------------------------------------------
\* The busy gate always has an owner.

\* A step that leaves the gate to the command that has it leaves its owner at work.
LEMMA OwnerKept ==
  ASSUME GateHasOwner,
         active_command' \in {active_command, NoCommand},
         active_command' \in Managed =>
           /\ is_navigation(fsm')
           /\ fsm'.generation = fsm.generation
           /\ lock \in StartPhases => lock' \in StartPhases
           /\ \A w \in Workers :
                /\ worker[w].type = active_command
                /\ worker[w].pc \in {"preparing", "queued", "calling"}
                /\ navigation_current(fsm, worker[w].generation)
                => /\ worker'[w].type = worker[w].type
                   /\ worker'[w].generation = worker[w].generation
                   /\ \/ worker'[w].pc = worker[w].pc
                      \/ worker[w].pc = "queued" /\ worker'[w].pc = "calling"
           /\ \A k \in Kind : command_of[k] = active_command /\ WillTimeOut(k) => WillTimeOut(k)'
           /\ \A g \in Nat : <<active_command, g>> \in thrown => <<active_command, g>> \in thrown',
         fsm.generation \in Nat
  PROVE  GateHasOwner'
<1>1. CASE active_command' \notin Managed
  BY <1>1 DEF GateHasOwner, Managed, ServiceCommands
<1>2. CASE active_command' \in Managed
  <2>1. active_command' = active_command
    BY <1>2 DEF Managed, NoCommand
  <2>2. CASE active_command = "start_navigation"
    <3>1. CASE lock \in StartPhases
      BY <1>2, <2>1, <2>2, <3>1 DEF GateHasOwner, Managed, ServiceCommands
    <3>2. CASE AnyoneCurrent({"preparing"}, "start_navigation")
      <4>1. AnyoneCurrent({"preparing"}, "start_navigation")'
        BY <1>2, <2>1, <2>2, <3>2 DEF AnyoneCurrent, navigation_current
      <4> QED
        BY <2>1, <2>2, <4>1 DEF GateHasOwner, Managed, ServiceCommands
    <3>3. CASE WillTimeOut("env")
      BY <1>2, <2>1, <2>2, <3>3 DEF GateHasOwner, Managed, ServiceCommands, command_of, Kind
    <3>4. CASE WillBeCaught("start_navigation")
      BY <1>2, <2>1, <2>2, <3>4 DEF GateHasOwner, Managed, ServiceCommands, WillBeCaught
    <3> QED
      BY <2>2, <3>1, <3>2, <3>3, <3>4 DEF GateHasOwner
  <2>3. CASE active_command = "initial_pose"
    BY <1>2, <2>1, <2>3 DEF GateHasOwner, Managed, ServiceCommands, WillBeCaught, command_of, Kind
  <2>4. CASE active_command = "navigation_task"
    BY <1>2, <2>1, <2>4 DEF GateHasOwner, Managed, ServiceCommands, WillBeCaught, command_of, Kind
  <2>5. CASE active_command \in Managed \cap ServiceCommands
    <3>1. AnyoneCurrent({"queued", "calling"}, active_command)'
      BY <1>2, <2>1, <2>5 DEF GateHasOwner, AnyoneCurrent, navigation_current
    <3> QED
      BY <2>1, <2>5, <3>1 DEF GateHasOwner, Managed, ServiceCommands
  <2>6. CASE active_command \notin {"start_navigation", "initial_pose", "navigation_task"}
                                     \cup (Managed \cap ServiceCommands)
    BY <2>1, <2>6 DEF GateHasOwner
  <2> QED
    BY <2>2, <2>3, <2>4, <2>5, <2>6
<1> QED
  BY <1>1, <1>2

\* A completion either comes too late or releases the gate of the command it completes.
LEMMA CompleteReleases ==
  ASSUME FieldsOK, NEW k \in Kind, NEW a, NEW success \in BOOLEAN,
         Complete(k, a, success), is_navigation(fsm)
  PROVE  \/ UNCHANGED <<fsm, active_command, pending>> /\ ~IsPending(k, a)
         \/ /\ pending' = [pending EXCEPT ![k] = FALSE]
            /\ fsm'.generation = fsm.generation
            /\ active_command' = IF active_command = command_of[k]
                                 THEN NoCommand ELSE active_command
<1>1. fsm'.generation = fsm.generation
  BY CompleteFields
<1>2. CASE k = "env"
  BY <1>1, <1>2 DEF Complete, CompleteEnv, Consume, finish_command, command_of
<1>3. CASE k = "pose"
  BY <1>1, <1>3 DEF Complete, CompletePose, Consume, finish_command, command_of
<1>4. CASE k \in {"task", "clear"}
  BY <1>1, <1>4 DEF Complete, CompleteOther, Consume, finish_command
<1> QED
  BY <1>2, <1>3, <1>4 DEF Kind

\* Whatever is completed, by a line or by a timeout, the gate is released or keeps its owner.
LEMMA CompleteOwned ==
  ASSUME FieldsOK, Safe, Safe', GateHasOwner,
         NEW k \in Kind, NEW a, NEW success \in BOOLEAN, Complete(k, a, success),
         UNCHANGED <<lock, worker, thrown, attempt>>,
         timers' \in {timers, timers \ {<<k, a>>}}
  PROVE  GateHasOwner'
<1>0. fsm.generation \in Nat /\ pending \in [Kind -> BOOLEAN]
  BY DEF FieldsOK, RobotDto
<1>1. CASE ~is_navigation(fsm)
  <2>1. /\ active_command \notin Managed /\ active_command' \in {active_command, NoCommand}
        /\ NoCommand \notin Managed
    BY <1>1, CompleteFields DEF Safe, NoNavigationLeft, Managed, NoCommand
  <2> QED
    BY <1>0, <2>1, OwnerKept
<1>2. CASE is_navigation(fsm)
  <2>1. active_command' \in Managed => is_navigation(fsm')
    BY DEF Safe, NoNavigationLeft
  <2>2. CASE UNCHANGED <<fsm, active_command, pending>> /\ ~IsPending(k, a)
    <3>1. \A j \in Kind : WillTimeOut(j) => WillTimeOut(j)'
      BY <2>2 DEF WillTimeOut, IsPending
    <3> QED
      BY <1>0, <2>1, <2>2, <3>1, OwnerKept
  <2>3. CASE /\ pending' = [pending EXCEPT ![k] = FALSE]
             /\ fsm'.generation = fsm.generation
             /\ active_command' = IF active_command = command_of[k]
                                  THEN NoCommand ELSE active_command
    <3>1. \A j \in Kind \ {k} : WillTimeOut(j) => WillTimeOut(j)'
      BY <1>0, <2>3 DEF WillTimeOut
    <3>2. active_command' \in Managed => active_command # command_of[k]
      BY <2>3 DEF Managed, NoCommand
    <3> QED
      BY <1>0, <2>1, <2>3, <3>1, <3>2, OwnerKept
  <2> QED
    BY <1>2, <2>2, <2>3, CompleteReleases
<1> QED
  BY <1>1, <1>2

\* Every step keeps an owner of the gate.
LEMMA OwnedStep ==
  ASSUME FieldsOK, Safe, Safe', GateHasOwner, [Next]_vars
  PROVE  GateHasOwner'
<1> USE DEF behaviour, requests, threads, flags, machine, Managed, ServiceCommands, NoCommand
<1>0. /\ fsm \in RobotDto /\ fsm.generation \in Nat
      /\ worker \in [Workers -> Thread]
      /\ pending \in [Kind -> BOOLEAN] /\ attempt \in [Kind -> Nat]
      /\ timers \subseteq Kind \X Nat
  BY DEF FieldsOK, RobotDto
<1>n. /\ active_command \in Managed => is_navigation(fsm)
      /\ active_command' \in Managed => is_navigation(fsm')
      /\ lock \in StartPhases => active_command = "start_navigation"
  BY DEF Safe, NoNavigationLeft, Phases, StartingOwnsGate
<1>1. CASE StartBegins
  BY <1>1 DEF StartBegins, GateHasOwner, StartPhases
<1>2. CASE StartRefused \/ StartAborted
  <2>1. active_command' = NoCommand
    BY <1>2, <1>n DEF StartRefused, StartAborted, StartPhases, finish_command
  <2> QED
    BY <1>0, <2>1, OwnerKept
<1>3. CASE StartChecked
  <2>1. UNCHANGED <<fsm, active_command, worker, thrown, pending, attempt, timers>>
        /\ lock' \in StartPhases
    BY <1>3 DEF StartChecked, StartPhases
  <2> QED
    BY <1>0, <1>n, <2>1, OwnerKept DEF WillTimeOut
<1>4. CASE StartThrows
  <2>1. WillBeCaught("start_navigation")'
    BY <1>0, <1>4 DEF StartThrows, WillBeCaught
  <2> QED
    BY <1>4, <1>n, <2>1 DEF StartThrows, GateHasOwner, StartPhases
<1>5. CASE StartLaunchesWorker
  <2>1. PICK w \in Workers :
          worker' = [worker EXCEPT ![w] = [pc |-> "preparing", type |-> "start_navigation",
                                           generation |-> fsm.generation]]
    BY <1>5 DEF StartLaunchesWorker, Launch
  <2>2. active_command = "start_navigation" /\ UNCHANGED <<fsm, active_command>>
    BY <1>5, <1>n DEF StartLaunchesWorker, StartPhases
  <2>3. AnyoneCurrent({"preparing"}, "start_navigation")'
    BY <1>0, <1>n, <2>1, <2>2 DEF AnyoneCurrent, navigation_current
  <2> QED
    BY <2>2, <2>3 DEF GateHasOwner
<1>6. CASE StopRequested \/ MachineStep \/ UNCHANGED vars
  <2>1. UNCHANGED <<fsm, active_command, lock, worker, thrown, pending, attempt, timers>>
    BY <1>6 DEF StopRequested, MachineStep, OdometryPublished, LocalizationCallback,
                LauncherExits, EnvironmentDies, vars
  <2> QED
    BY <1>0, <1>n, <2>1, OwnerKept DEF WillTimeOut
<1>7. CASE StopBegins
  <2>1. active_command' = NoCommand
    BY <1>7 DEF StopBegins, invalidate_navigation_requests
  <2> QED
    BY <1>0, <2>1, OwnerKept
<1>8. CASE StopCleansUp \/ StopVerifies
  <2>1. active_command' \notin Managed /\ active_command' = active_command
    BY <1>8, <1>n DEF StopCleansUp, CleansUp, StopVerifies, StopEnds, Safe, Phases, StopPhases,
                      is_navigation, NavigationModes
  <2> QED
    BY <1>0, <2>1, OwnerKept
<1>9. CASE InitialPose
  <2>1. WillTimeOut("pose")' \/ WillBeCaught("initial_pose")'
    <3>1. CASE RequestWithTimeout("pose")
      BY <1>0, <3>1 DEF RequestWithTimeout, Request, WillTimeOut, Kind
    <3>2. CASE thrown' = thrown \cup {<<"initial_pose", fsm.generation>>}
      BY <1>0, <1>9, <3>2 DEF InitialPose, WillBeCaught
    <3> QED
      BY <1>9, <3>1, <3>2 DEF InitialPose
  <2> QED
    BY <1>9, <2>1 DEF InitialPose, GateHasOwner
<1>10. CASE NavigationTask
  <2>1. WillTimeOut("task")'
    BY <1>0, <1>10 DEF NavigationTask, RequestWithTimeout, Request, WillTimeOut, Kind
  <2> QED
    BY <1>10, <2>1 DEF NavigationTask, GateHasOwner
<1>11. ASSUME NEW type \in ServiceCommands, Launch(type, "queued"),
              Admitted(type), UNCHANGED <<fsm, lock, thrown>>,
              active_command' = GateTakenBy(type),
              type \notin Managed => UNCHANGED <<pending, attempt, timers>>
       PROVE  GateHasOwner'
  <2>1. PICK w \in Workers :
          /\ worker[w].pc = "unborn"
          /\ worker' = [worker EXCEPT ![w] = [pc |-> "queued", type |-> type,
                                              generation |-> fsm.generation]]
    BY <1>11 DEF Launch
  <2>2. CASE type \in Managed
    <3>1. is_navigation(fsm)
      BY <1>11 DEF Admitted, admit_behavior_command
    <3>2. AnyoneCurrent({"queued", "calling"}, type)'
      BY <1>0, <1>11, <2>1, <3>1 DEF AnyoneCurrent, navigation_current
    <3> QED
      BY <1>11, <2>2, <3>2 DEF GateHasOwner, GateTakenBy
  <2>3. CASE type \notin Managed
    <3>1. active_command' = active_command
      BY <1>11, <2>3 DEF GateTakenBy
    <3>2. \A v \in Workers : worker[v].pc # "unborn" => worker'[v] = worker[v]
      BY <1>0, <2>1
    <3> QED
      BY <1>0, <1>n, <1>11, <2>3, <3>1, <3>2, OwnerKept DEF WillTimeOut
  <2> QED
    BY <2>2, <2>3
<1>12. ASSUME NEW type \in ServiceCommands, ServiceCommand(type) PROVE GateHasOwner'
  BY <1>11, <1>12 DEF ServiceCommand
<1>13. CASE ClearWaypoints
  BY <1>11, <1>13 DEF ClearWaypoints, GateTakenBy
<1>14. ASSUME NEW w \in Workers, Exits(w),
              ~navigation_current(fsm, worker[w].generation),
              UNCHANGED <<fsm, lock, active_command, thrown, pending, attempt, timers>>
       PROVE  GateHasOwner'
  <2>1. \A v \in Workers : navigation_current(fsm, worker[v].generation) => worker'[v] = worker[v]
    BY <1>0, <1>14 DEF Exits
  <2> QED
    BY <1>0, <1>n, <1>14, <2>1, OwnerKept DEF WillTimeOut
<1>15. ASSUME NEW w \in Workers, WorkerStep(w) PROVE GateHasOwner'
  <2>1. CASE PreparedTooLate(w) \/ ServiceTooLate(w)
    BY <1>14, <2>1 DEF PreparedTooLate, ServiceTooLate
  <2>2. CASE PreparationFails(w)
    <3>1. /\ active_command' = IF active_command = "start_navigation"
                               THEN NoCommand ELSE active_command
          /\ fsm'.generation = fsm.generation
          /\ UNCHANGED <<lock, thrown, pending, attempt, timers>>
          /\ Exits(w)
      BY <2>2, AbortFields DEF PreparationFails
    <3>2. CASE active_command' \notin Managed
      BY <1>0, <3>1, <3>2, OwnerKept
    <3>3. CASE active_command' \in Managed
      <4>1. worker[w].pc = "preparing" /\ active_command # "start_navigation"
        BY <2>2, <3>1, <3>3 DEF PreparationFails
      <4>2. active_command' = active_command
        BY <3>1, <3>3
      <4>3. UNCHANGED <<timers, thrown, lock>>
        BY <3>1
      <4>4. GateHasOwner'
        <5>1. ASSUME NEW type, AnyoneCurrent({"queued", "calling"}, type)
              PROVE  AnyoneCurrent({"queued", "calling"}, type)'
          BY <1>0, <1>n, <3>1, <3>3, <4>1, <5>1 DEF AnyoneCurrent, navigation_current, Exits
        <5>2. /\ active_command = "initial_pose" =>
                   (WillTimeOut("pose") \/ WillBeCaught("initial_pose"))'
              /\ active_command = "navigation_task" =>
                   (WillTimeOut("task") \/ WillBeCaught("navigation_task"))'
          BY <3>1 DEF GateHasOwner, WillTimeOut, WillBeCaught
        <5> QED
          BY <4>1, <4>2, <5>1, <5>2 DEF GateHasOwner
      <4> QED
        BY <4>4
    <3> QED
      BY <3>2, <3>3
  <2>3. CASE EnvironmentLaunched(w)
    <3>1. /\ WillTimeOut("env")'
          /\ \A k \in Kind : WillTimeOut(k) => WillTimeOut(k)'
      BY <1>0, <2>3 DEF EnvironmentLaunched, RequestWithTimeout, Request, WillTimeOut, Kind
    <3>2. CASE active_command = "start_navigation"
      BY <2>3, <3>1, <3>2 DEF EnvironmentLaunched, GateHasOwner
    <3>3. CASE active_command # "start_navigation"
      <4>1. UNCHANGED <<fsm, active_command, lock, thrown>> /\ Exits(w)
            /\ worker[w].pc = "preparing"
        BY <2>3 DEF EnvironmentLaunched
      <4>2. ASSUME NEW type, AnyoneCurrent({"queued", "calling"}, type)
            PROVE  AnyoneCurrent({"queued", "calling"}, type)'
        BY <1>0, <4>1, <4>2 DEF AnyoneCurrent, navigation_current, Exits
      <4>3. /\ active_command = "initial_pose" =>
                 (WillTimeOut("pose") \/ WillBeCaught("initial_pose"))'
            /\ active_command = "navigation_task" =>
                 (WillTimeOut("task") \/ WillBeCaught("navigation_task"))'
        BY <3>1, <4>1 DEF GateHasOwner, WillBeCaught, Kind
      <4> QED
        BY <3>3, <4>1, <4>2, <4>3 DEF GateHasOwner
    <3> QED
      BY <3>2, <3>3
  <2>4. CASE ServiceCalled(w)
    <3>1. \A v \in Workers : worker'[v] = IF v = w THEN [worker[v] EXCEPT !.pc = "calling"]
                                          ELSE worker[v]
      BY <1>0, <2>4 DEF ServiceCalled, Thread
    <3>2. \A v \in Workers : /\ worker'[v].type = worker[v].type
                             /\ worker'[v].generation = worker[v].generation
                             /\ \/ worker'[v].pc = worker[v].pc
                                \/ worker[v].pc = "queued" /\ worker'[v].pc = "calling"
      BY <1>0, <2>4, <3>1 DEF ServiceCalled, Thread
    <3>3. /\ UNCHANGED <<fsm, active_command, thrown, pending, attempt, timers>>
          /\ lock \notin StartPhases
      BY <2>4 DEF ServiceCalled, StartPhases, Free
    <3> QED
      BY <1>0, <1>n, <3>2, <3>3, OwnerKept DEF WillTimeOut
  <2>5. ASSUME NEW success \in BOOLEAN, ServiceReturns(w, success) PROVE GateHasOwner'
    <3>1. /\ lock = w /\ Exits(w)
          /\ UNCHANGED <<thrown, pending, attempt, timers>>
      BY <2>5 DEF ServiceReturns
    <3>2. lock \notin StartPhases
      BY <3>1, WorkersAssumption DEF StartPhases, Holders
    <3>3. CASE ~navigation_current(fsm, worker[w].generation)
      <4>1. UNCHANGED <<fsm, active_command>>
        BY <2>5, <3>3 DEF ServiceReturns
      <4>2. \A v \in Workers : navigation_current(fsm, worker[v].generation) => worker'[v] = worker[v]
        BY <1>0, <3>1, <3>3 DEF Exits
      <4> QED
        BY <1>0, <1>n, <3>1, <3>2, <4>1, <4>2, OwnerKept DEF WillTimeOut
    <3>4. CASE navigation_current(fsm, worker[w].generation)
      <4>1. /\ active_command' = IF active_command = worker[w].type
                                 THEN NoCommand ELSE active_command
            /\ fsm'.generation = fsm.generation
        <5>1. active_command' = IF active_command = worker[w].type
                                THEN NoCommand ELSE active_command
          BY <2>5, <3>4 DEF ServiceReturns, finish_command
        <5>2. fsm'.generation = fsm.generation
          BY <2>5, ServiceReturnsFields
        <5> QED
          BY <5>1, <5>2
      <4>2. \A v \in Workers : active_command' # NoCommand /\ worker[v].type = active_command
                                 => worker'[v] = worker[v]
        BY <1>0, <3>1, <4>1 DEF Exits
      <4> QED
        BY <1>0, <1>n, <3>1, <3>2, <4>1, <4>2, OwnerKept DEF WillTimeOut
    <3> QED
      BY <3>3, <3>4
  <2> QED
    BY <1>15, <2>1, <2>2, <2>3, <2>4, <2>5 DEF WorkerStep
<1>16. ASSUME NEW t \in timers, TimeoutFires(t[1], t[2]) PROVE GateHasOwner'
  BY <1>0, <1>n, <1>16, CompleteOwned DEF TimeoutFires
<1>17. ASSUME NEW t \in thrown, ExceptionHandled(t[1], t[2]) PROVE GateHasOwner'
  <2>1. /\ active_command' = IF active_command = t[1] THEN NoCommand ELSE active_command
        /\ fsm'.generation = fsm.generation
    <3>1. CASE finish_command("start_navigation", navigation_start_aborted(fsm))
               /\ t[1] = "start_navigation"
      BY <3>1, AbortFields
    <3>2. CASE finish_command(t[1], fsm)
      BY <1>0, <3>2, FinishFields
    <3> QED
      BY <1>17, <3>1, <3>2 DEF ExceptionHandled
  <2>2. /\ UNCHANGED <<lock, pending, attempt, timers, worker>>
        /\ \A type \in Managed, g \in Nat :
             type # t[1] /\ <<type, g>> \in thrown => <<type, g>> \in thrown'
    BY <1>17 DEF ExceptionHandled
  <2> QED
    BY <1>0, <1>n, <2>1, <2>2, OwnerKept DEF WillTimeOut, FieldsOK
<1>18. CASE PauseLineRead \/ ResumeLineRead
  <2>1. UNCHANGED <<lock, active_command, worker, thrown, pending, attempt, timers>>
        /\ fsm'.generation = fsm.generation
    BY <1>18, TaskLineFields DEF PauseLineRead, ResumeLineRead, TaskLineRead
  <2> QED
    BY <1>0, <1>n, <2>1, OwnerKept DEF WillTimeOut
<1>19. ASSUME NEW k \in Kind, NEW line, ConfirmationRead(line, k) PROVE GateHasOwner'
  BY <1>n, <1>19, CompleteOwned DEF ConfirmationRead
<1>20. CASE EnvReadyLineRead \/ ClearedLineRead \/ InitializedLineRead
  BY <1>19, <1>20 DEF EnvReadyLineRead, ClearedLineRead, InitializedLineRead, Kind
<1>21. CASE WaypointLineRead
  <2>1. CASE UNCHANGED <<fsm, active_command, pending, flags>>
    <3>1. UNCHANGED <<lock, worker, thrown, attempt, timers>>
      BY <1>21 DEF WaypointLineRead
    <3> QED
      BY <1>0, <1>n, <2>1, <3>1, OwnerKept DEF WillTimeOut
  <2>2. CASE Complete("task", attempt["task"], TRUE)
    BY <1>n, <1>21, <2>2, CompleteOwned DEF WaypointLineRead, Kind
  <2> QED
    BY <1>21, <2>1, <2>2 DEF WaypointLineRead
<1> QED
  BY <1>1, <1>2, <1>3, <1>4, <1>5, <1>6, <1>7, <1>8, <1>9, <1>10, <1>12, <1>13, <1>15, <1>16,
     <1>17, <1>18, <1>20, <1>21
     DEF Next, Step, CloudStep, StartStep, LineRead

\* What another behaviour does to the gate: it takes it, empties it, or leaves it alone -
\* outside navigation, or without touching the command that has it.
LeavesGate ==
  \/ active_command' \notin Managed
  \/ active_command' = active_command /\ ~is_navigation(fsm)
  \/ /\ UNCHANGED <<fsm, active_command, pending, attempt, timers, worker, thrown>>
     /\ lock \in StartPhases => lock' = lock

LEMMA GateUndisturbed == Safe /\ GateHasOwner /\ LeavesGate => GateHasOwner'
<1> SUFFICES ASSUME Safe, GateHasOwner, LeavesGate PROVE GateHasOwner'
  OBVIOUS
<1>1. CASE active_command' \notin Managed
  BY <1>1 DEF GateHasOwner, Managed, ServiceCommands
<1>2. CASE active_command' = active_command /\ ~is_navigation(fsm)
  BY <1>1, <1>2 DEF Safe, NoNavigationLeft
<1>3. CASE /\ UNCHANGED <<fsm, active_command, pending, attempt, timers, worker, thrown>>
           /\ lock \in StartPhases => lock' = lock
  BY <1>3 DEF GateHasOwner, WillTimeOut, WillBeCaught, AnyoneCurrent
<1> QED
  BY <1>1, <1>2, <1>3 DEF LeavesGate

\* GateHasOwner of Navigation: whatever the nodes print or fail to print, a command that
\* occupies the busy gate has a thread that will release it.
THEOREM GateAlwaysOwned == Spec => []GateHasOwner
<1>1. Init => GateHasOwner
  BY DEF Init, GateHasOwner, NoCommand, Managed, ServiceCommands
<1>2. IInv /\ IInv' /\ GateHasOwner /\ [Next]_vars => GateHasOwner'
  BY OwnedStep DEF IInv, TypeOK
<1> QED
  BY <1>1, <1>2, SafeAlways, PTL DEF Spec

\* A timeout thread goes by firing, and finds nothing to do if its attempt is over.
LEMMA TimeoutStep ==
  ASSUME FieldsOK, [Next]_vars, NEW t \in timers \ timers', t[2] # attempt[t[1]]
  PROVE  UNCHANGED <<fsm, active_command, pending, flags>>
<1>1. PICK s \in timers : TimeoutFires(s[1], s[2]) /\ s = t
  <2> USE DEF requests
  <2>1. ~CloudStep
    BY DEF CloudStep, StartBegins, InitialPose, NavigationTask, ServiceCommand,
           ClearWaypoints, StopRequested, RequestWithTimeout
  <2>2. ~StartStep
    BY DEF StartStep, StartRefused, StartChecked, StartAborted, StartThrows,
           StartLaunchesWorker
  <2>3. ~StopBegins /\ ~StopCleansUp /\ ~StopVerifies
    BY DEF StopBegins, StopCleansUp, CleansUp, StopVerifies, StopEnds
  <2>4. ~LineRead
    BY DEF LineRead, PauseLineRead, ResumeLineRead, TaskLineRead, EnvReadyLineRead,
           ClearedLineRead, InitializedLineRead, ConfirmationRead, WaypointLineRead
  <2>5. ~MachineStep
    BY DEF MachineStep, OdometryPublished, LocalizationCallback, LauncherExits,
           EnvironmentDies
  <2>6. ~\E w \in Workers : WorkerStep(w)
    BY DEF WorkerStep, PreparedTooLate, PreparationFails, EnvironmentLaunched,
           ServiceTooLate, ServiceCalled, ServiceReturns, RequestWithTimeout
  <2>7. ~\E s \in thrown : ExceptionHandled(s[1], s[2])
    BY DEF ExceptionHandled
  <2>8. PICK s \in timers : TimeoutFires(s[1], s[2])
    BY <2>1, <2>2, <2>3, <2>4, <2>5, <2>6, <2>7 DEF Next, Step, vars
  <2>9. timers \subseteq Kind \X Nat
    BY DEF FieldsOK
  <2> QED
    BY <2>8, <2>9 DEF TimeoutFires
<1>2. Complete(t[1], t[2], FALSE) /\ ~IsPending(t[1], t[2])
  BY <1>1 DEF TimeoutFires, IsPending
<1> QED
  BY <1>2 DEF Complete, CompleteEnv, CompletePose, CompleteOther

\* StaleTimeoutHarmless of Navigation: a timeout that outlived its attempt disturbs nothing.
THEOREM StaleTimeoutsInert == Spec => StaleTimeoutHarmless
<1>1. IInv /\ [Next]_vars =>
        [\A t \in timers \ timers' : t[2] # attempt[t[1]] =>
           UNCHANGED <<fsm, active_command, pending, flags>>]_vars
  BY TimeoutStep DEF IInv, TypeOK
<1> QED
  BY <1>1, SafeAlways, PTL DEF Spec, StaleTimeoutHarmless
=============================================================================
