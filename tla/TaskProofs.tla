----------------------------- MODULE TaskProofs -----------------------------
(***************************************************************************)
(* Proofs about TaskState, for any number of requests, threads and lines:  *)
(* the queue of pauses and resumptions is never stuck, its records agree   *)
(* and, once everything is read, they are right; and what NavigationSafety *)
(* proves of navigation alone holds beside it.                             *)
(***************************************************************************)
EXTENDS TaskState, NavigationSafety, WellFoundedInduction, TLAPS

-----------------------------------------------------------------------------
\* The inductive invariant.

\* The modes in which a request is admitted; only a stop leads out of them.
Ready == {"NavigationReady", "Navigating"}

\* The readiness of the environment is withdrawn before a start may begin.
ReadyWhenGranted ==
  fsm.navigation_environment_ready => fsm.motion_mode \in Ready \cup {"Stopping"}

\* What a step of navigation may not touch while the queue is at work.
Undisturbed ==
  /\ working => fsm.motion_mode \in Ready /\ lock \notin StopPhases
  /\ lock = Toggle => working /\ fsm.generation \notin togglers
  /\ \A g \in togglers : g = fsm.generation => working

TaskBase ==
  /\ fsm \in RobotDto
  /\ ReadyWhenGranted
  /\ TaskTypeOK
  /\ Undisturbed
  /\ QueueHasWorker
  /\ PauseRecordsAgree

\* A thread that was not launched has no task to start.
Launched ==
  /\ worker \in [Workers -> Thread]
  /\ \A w \in Workers : worker[w].pc = "unborn" => worker[w].type = NoCommand

\* Before the first start nobody has asked for anything; from then until a stop or a task
\* the last line says where the robot stands, read or unread.
NothingAsked ==
  fsm.generation = 0 =>
    /\ fsm.motion_mode = "Idle" /\ lock \notin StopPhases
    /\ said = <<>> /\ standing = "running" /\ task_paused = "running"

OfFirstStart == fsm.generation <= 1 /\ \A w \in Workers : worker[w].type # "start_task"

LinesFollowRobot ==
  OfFirstStart =>
    IF said = <<>> THEN task_paused = standing
    ELSE /\ said[Len(said)] = standing
         /\ fsm.motion_mode \in Ready /\ lock \notin StopPhases

TaskIInv == TaskBase /\ Launched /\ NothingAsked /\ LinesFollowRobot

-----------------------------------------------------------------------------
\* What the operations of RobotFsm do to a state in which a request may be under way.

\* A record like this one, or one that a task or a start has moved on: Idle and Ready are
\* not left, readiness is not granted outside Ready, and nothing is called paused.
MovesOn(f, h) ==
  /\ h \in RobotDto
  /\ h.generation = f.generation
  /\ f.motion_mode = "Idle" => h.motion_mode = "Idle"
  /\ f.motion_mode \in Ready => h.motion_mode \in Ready
  /\ h.navigation_environment_ready =>
       \/ h.motion_mode \in Ready
       \/ f.navigation_environment_ready /\ h.motion_mode = f.motion_mode
  /\ h.task_status = "Paused" => f.task_status = "Paused"

LEMMA FsmMovesOn ==
  ASSUME NEW f \in RobotDto
  PROVE  /\ MovesOn(f, f)
         /\ \A b \in BOOLEAN : MovesOn(f, navigation_ready(f, b))
         /\ MovesOn(f, navigation_start_aborted(f))
         /\ \A b \in BOOLEAN : MovesOn(f, localization_ready(f, b))
         /\ \A status \in {"Running", "Cancelled"} : MovesOn(f, task_state(f, status))
<1> USE DEF RobotDto, MotionMode, TaskStatus, MovesOn, Ready
<1>1. MovesOn(f, f)
  OBVIOUS
<1>2. ASSUME NEW b \in BOOLEAN PROVE MovesOn(f, navigation_ready(f, b))
  BY DEF navigation_ready
<1>3. MovesOn(f, navigation_start_aborted(f))
  BY DEF navigation_start_aborted
<1>4. ASSUME NEW b \in BOOLEAN PROVE MovesOn(f, localization_ready(f, b))
  BY DEF localization_ready, is_navigation, NavigationModes
<1>5. ASSUME NEW status \in {"Running", "Cancelled"} PROVE MovesOn(f, task_state(f, status))
  BY DEF task_state, is_navigation, NavigationModes
<1> QED
  BY <1>1, <1>2, <1>3, <1>4, <1>5

LEMMA MovesOnTwice ==
  ASSUME NEW f, NEW g, NEW h, MovesOn(f, g), MovesOn(g, h)
  PROVE  MovesOn(f, h)
BY DEF MovesOn, Ready

\* finish_command() moves the record it is given on, at most.
LEMMA FinishMovesOn ==
  ASSUME NEW type, NEW f \in RobotDto, finish_command(type, f)
  PROVE  MovesOn(f, fsm')
<1>1. fsm' \in {f, navigation_ready(f, FALSE)}
  BY DEF finish_command
<1> QED
  BY <1>1, FsmMovesOn

\* So does a completion.
LEMMA CompleteMovesOn ==
  ASSUME fsm \in RobotDto, NEW k, NEW a, NEW success \in BOOLEAN,
         Complete(k, a, success)
  PROVE  MovesOn(fsm, fsm')
<1>1. CASE k = "env"
  <2>1. CASE finish_command("start_navigation", navigation_ready(fsm, success))
    <3>1. MovesOn(fsm, navigation_ready(fsm, success))
      BY FsmMovesOn
    <3>2. MovesOn(navigation_ready(fsm, success), fsm')
      BY <2>1, <3>1, FinishMovesOn DEF MovesOn
    <3> QED
      BY <3>1, <3>2, MovesOnTwice
  <2>2. CASE fsm' = fsm
    BY <2>2, FsmMovesOn
  <2> QED
    BY <1>1, <2>1, <2>2 DEF Complete, CompleteEnv
<1>2. CASE k = "pose"
  <2>1. CASE finish_command("initial_pose", localization_ready(fsm, success))
    <3>1. MovesOn(fsm, localization_ready(fsm, success))
      BY FsmMovesOn
    <3>2. MovesOn(localization_ready(fsm, success), fsm')
      BY <2>1, <3>1, FinishMovesOn DEF MovesOn
    <3> QED
      BY <3>1, <3>2, MovesOnTwice
  <2>2. CASE fsm' = fsm
    BY <2>2, FsmMovesOn
  <2> QED
    BY <1>2, <2>1, <2>2 DEF Complete, CompletePose
<1>3. CASE k \notin {"env", "pose"}
  BY <1>3, FinishMovesOn, FsmMovesOn DEF Complete, CompleteOther
<1> QED
  BY <1>1, <1>2, <1>3

\* A start begins a generation from Idle, where nobody is at work.
LEMMA StartingFsm ==
  ASSUME NEW f \in RobotDto, can_begin_navigation(f)
  PROVE  /\ begin_navigation(f) \in RobotDto
         /\ begin_navigation(f).generation = f.generation + 1
         /\ begin_navigation(f).motion_mode = "StartingNavigation"
         /\ begin_navigation(f).navigation_environment_ready = f.navigation_environment_ready
         /\ begin_navigation(f).task_status # "Paused"
         /\ f.motion_mode = "Idle"
<1>1. f.generation + 1 \in Nat
  BY DEF RobotDto
<1> QED
  BY <1>1 DEF begin_navigation, can_begin_navigation, RobotDto, MotionMode, TaskStatus

\* A stop begins another, and its end withdraws what was ready.
LEMMA StoppingFsm ==
  ASSUME NEW f \in RobotDto
  PROVE  /\ can_begin_stop(f) =>
              /\ begin_stop(f) \in RobotDto
              /\ begin_stop(f).generation = f.generation + 1
              /\ begin_stop(f).motion_mode = "Stopping"
              /\ begin_stop(f).task_status # "Paused"
         /\ \A success \in BOOLEAN :
              /\ stopped(f, success, FALSE) \in RobotDto
              /\ stopped(f, success, FALSE).generation = f.generation
              /\ ~stopped(f, success, FALSE).navigation_environment_ready
              /\ stopped(f, success, FALSE).task_status # "Paused"
<1>1. f.generation + 1 \in Nat
  BY DEF RobotDto
<1>2. can_begin_stop(f) =>
        /\ begin_stop(f) \in RobotDto
        /\ begin_stop(f).generation = f.generation + 1
        /\ begin_stop(f).motion_mode = "Stopping"
        /\ begin_stop(f).task_status # "Paused"
  BY <1>1 DEF begin_stop, EnterStopping, RobotDto, MotionMode, TaskStatus
<1>3. ASSUME NEW success \in BOOLEAN
      PROVE  /\ stopped(f, success, FALSE) \in RobotDto
             /\ stopped(f, success, FALSE).generation = f.generation
             /\ ~stopped(f, success, FALSE).navigation_environment_ready
             /\ stopped(f, success, FALSE).task_status # "Paused"
  BY DEF stopped, RobotDto, MotionMode, TaskStatus
<1> QED
  BY <1>2, <1>3

-----------------------------------------------------------------------------
\* What a step of navigation does to the record, the mutex and the threads.

NavigationMoves ==
  \/ /\ MovesOn(fsm, fsm')
     /\ lock' = lock \/ lock' \in Holders \cup Workers \cup {Free}
     /\ lock' \in StopPhases => lock \in StopPhases
     /\ lock' = Toggle <=> lock = Toggle
  \/ /\ can_begin_navigation(fsm)
     /\ fsm' = begin_navigation(fsm)
     /\ lock = Free /\ lock' = "start_check"
  \/ /\ lock \in StopPhases /\ lock' = Free
     /\ \E success \in BOOLEAN : fsm' = stopped(fsm, success, FALSE)

\* A thread is launched, or one that is there goes on; what it was launched for stays.
ThreadsMove ==
  \/ worker' = worker
  \/ \E w \in Workers, type \in ServiceCommands \cup {"start_navigation"},
        pc \in {"preparing", "queued"} :
       /\ worker[w].pc = "unborn"
       /\ worker' = [worker EXCEPT ![w] =
                       [pc |-> pc, type |-> type, generation |-> fsm.generation]]
  \/ \E w \in Workers, pc \in {"calling", "exited"} : worker' = [worker EXCEPT ![w].pc = pc]

LEMMA NavigationStepMoves ==
  ASSUME fsm \in RobotDto, NavigationStep
  PROVE  NavigationMoves /\ ThreadsMove
<1> USE DEF behaviour, requests, threads, flags, machine
<1>u. ASSUME UNCHANGED fsm PROVE MovesOn(fsm, fsm')
  BY <1>u, FsmMovesOn
<1>l. Toggle \notin Holders \cup Workers \cup {Free}
  BY ToggleAssumption DEF Toggle, Holders, Free
<1>w. Workers \cap StopPhases = {} /\ Free \notin StopPhases
  BY WorkersAssumption DEF StopPhases, Holders, Free
<1>1. CASE StartBegins
  BY <1>1 DEF StartBegins, NavigationMoves, ThreadsMove
<1>2. CASE StartRefused \/ StartAborted
  <2>1. MovesOn(fsm, fsm')
    <3>1. PICK f \in {fsm, navigation_start_aborted(fsm)} : finish_command("start_navigation", f)
      BY <1>2 DEF StartRefused, StartAborted
    <3>2. MovesOn(fsm, f)
      BY FsmMovesOn
    <3>3. MovesOn(f, fsm')
      BY <3>1, <3>2, FinishMovesOn DEF MovesOn
    <3> QED
      BY <3>2, <3>3, MovesOnTwice
  <2>2. lock \in Holders /\ lock' = Free /\ worker' = worker
    BY <1>2 DEF StartRefused, StartAborted, Holders
  <2> QED
    BY <1>l, <1>w, <2>1, <2>2 DEF NavigationMoves, ThreadsMove
<1>3. CASE StartChecked \/ StartThrows
  <2>1. UNCHANGED <<fsm, worker>> /\ lock \in Holders /\ lock' \in {Free, "start_prepare"}
    BY <1>3 DEF StartChecked, StartThrows, Holders
  <2> QED
    BY <1>l, <1>u, <1>w, <2>1 DEF NavigationMoves, ThreadsMove, StopPhases, Holders
<1>4. CASE StartLaunchesWorker
  <2>1. /\ UNCHANGED fsm /\ lock \in Holders /\ lock' = Free
        /\ Launch("start_navigation", "preparing")
    BY <1>4 DEF StartLaunchesWorker, Holders
  <2>2. ThreadsMove
    BY <2>1 DEF Launch, ThreadsMove
  <2> QED
    BY <1>l, <1>u, <1>w, <2>1, <2>2 DEF NavigationMoves
<1>5. CASE InitialPose \/ NavigationTask \/ StopRequested \/ MachineStep
  <2>1. UNCHANGED <<fsm, lock, worker>>
    BY <1>5 DEF InitialPose, NavigationTask, StopRequested, MachineStep, OdometryPublished,
                LocalizationCallback, LauncherExits, EnvironmentDies
  <2> QED
    BY <1>u, <2>1 DEF NavigationMoves, ThreadsMove
<1>6. ASSUME NEW type \in ServiceCommands, ServiceCommand(type) \/ ClearWaypoints
      PROVE  NavigationMoves /\ ThreadsMove
  <2>1. UNCHANGED <<fsm, lock>> /\ \E t \in ServiceCommands : Launch(t, "queued")
    BY <1>6 DEF ServiceCommand, ClearWaypoints, ServiceCommands
  <2>2. ThreadsMove
    BY <2>1 DEF Launch, ThreadsMove
  <2> QED
    BY <1>u, <2>1, <2>2 DEF NavigationMoves
<1>7. CASE StopCleansUp
  <2>1. UNCHANGED <<fsm, worker>> /\ lock \in StopPhases /\ lock' \in Holders
    BY <1>7 DEF StopCleansUp, CleansUp, StopPhases, Holders
  <2> QED
    BY <1>l, <1>u, <2>1 DEF NavigationMoves, ThreadsMove, StopPhases, Holders
<1>8. CASE StopVerifies
  <2>1. PICK success \in BOOLEAN : fsm' = stopped(fsm, success, FALSE)
    BY <1>8 DEF StopVerifies, StopEnds, IsClean
  <2> QED
    BY <1>8, <2>1 DEF StopVerifies, StopEnds, StopPhases, NavigationMoves, ThreadsMove
<1>9. ASSUME NEW w \in Workers, NavigationWorkerStep(w) PROVE NavigationMoves /\ ThreadsMove
  <2>1. CASE PreparedTooLate(w) \/ ServiceTooLate(w) \/ EnvironmentLaunched(w)
    <3>1. UNCHANGED <<fsm, lock>> /\ Exits(w)
      BY <2>1 DEF PreparedTooLate, ServiceTooLate, EnvironmentLaunched
    <3> QED
      BY <1>u, <3>1 DEF Exits, NavigationMoves, ThreadsMove
  <2>2. CASE PreparationFails(w)
    <3>1. /\ finish_command("start_navigation", navigation_start_aborted(fsm))
          /\ UNCHANGED lock /\ Exits(w)
      BY <2>2 DEF PreparationFails
    <3>2. MovesOn(fsm, navigation_start_aborted(fsm))
      BY FsmMovesOn
    <3>3. MovesOn(navigation_start_aborted(fsm), fsm')
      BY <3>1, <3>2, FinishMovesOn DEF MovesOn
    <3>4. MovesOn(fsm, fsm')
      BY <3>2, <3>3, MovesOnTwice
    <3> QED
      BY <3>1, <3>4 DEF Exits, NavigationMoves, ThreadsMove
  <2>3. CASE ServiceCalled(w)
    <3>1. UNCHANGED fsm /\ lock = Free /\ lock' = w
      BY <2>3 DEF ServiceCalled
    <3>2. ThreadsMove
      BY <2>3 DEF ServiceCalled, ThreadsMove
    <3> QED
      BY <1>l, <1>u, <1>w, <3>1, <3>2 DEF NavigationMoves
  <2> QED
    BY <1>9, <2>1, <2>2, <2>3 DEF NavigationWorkerStep
<1>10. ASSUME NEW k, NEW a, NEW success \in BOOLEAN, Complete(k, a, success),
              UNCHANGED <<lock, worker>>
       PROVE  NavigationMoves /\ ThreadsMove
  BY <1>10, CompleteMovesOn DEF NavigationMoves, ThreadsMove
<1>11. ASSUME NEW t \in timers, TimeoutFires(t[1], t[2]) PROVE NavigationMoves /\ ThreadsMove
  BY <1>10, <1>11 DEF TimeoutFires
<1>12. ASSUME NEW t \in thrown, ExceptionHandled(t[1], t[2])
       PROVE  NavigationMoves /\ ThreadsMove
  <2>1. PICK f \in {fsm, navigation_start_aborted(fsm)} : finish_command(t[1], f)
    BY <1>12 DEF ExceptionHandled
  <2>2. MovesOn(fsm, f)
    BY FsmMovesOn
  <2>3. MovesOn(f, fsm')
    BY <2>1, <2>2, FinishMovesOn DEF MovesOn
  <2>4. MovesOn(fsm, fsm') /\ UNCHANGED <<lock, worker>>
    BY <1>12, <2>2, <2>3, MovesOnTwice DEF ExceptionHandled
  <2> QED
    BY <2>4 DEF NavigationMoves, ThreadsMove
<1>13. CASE LineRead
  <2>1. ~PauseLineRead /\ ~ResumeLineRead
    BY TaskLinesAssumption DEF PauseLineRead, ResumeLineRead, TaskLineRead, Reads
  <2>2. ASSUME NEW line, NEW k, ConfirmationRead(line, k) PROVE NavigationMoves /\ ThreadsMove
    BY <1>10, <2>2 DEF ConfirmationRead
  <2>3. CASE WaypointLineRead
    <3>1. UNCHANGED <<lock, worker>>
      BY <2>3 DEF WaypointLineRead
    <3>2. UNCHANGED fsm \/ Complete("task", attempt["task"], TRUE)
      BY <2>3 DEF WaypointLineRead
    <3> QED
      BY <1>10, <1>u, <3>1, <3>2 DEF NavigationMoves, ThreadsMove
  <2> QED
    BY <1>13, <2>1, <2>2, <2>3
       DEF LineRead, EnvReadyLineRead, ClearedLineRead, InitializedLineRead
<1> QED
  BY <1>1, <1>2, <1>3, <1>4, <1>5, <1>6, <1>7, <1>8, <1>9, <1>11, <1>12, <1>13
     DEF NavigationStep, CloudStep, StartStep, ServiceCommands

LEMMA ThreadsKept ==
  ASSUME fsm \in RobotDto, Launched, ThreadsMove
  PROVE  /\ Launched'
         /\ \A w \in Workers : worker[w].type = "start_task" => worker'[w].type = "start_task"
<1> USE DEF Launched, Thread, ServiceCommands, NoCommand
<1>0. fsm.generation \in Nat
  BY DEF RobotDto
<1>1. CASE worker' = worker
  BY <1>1
<1>2. ASSUME NEW w \in Workers, NEW type \in ServiceCommands \cup {"start_navigation"},
             NEW pc \in {"preparing", "queued"}, worker[w].pc = "unborn",
             worker' = [worker EXCEPT ![w] =
                          [pc |-> pc, type |-> type, generation |-> fsm.generation]]
      PROVE  /\ Launched'
             /\ \A v \in Workers : worker[v].type = "start_task" => worker'[v].type = "start_task"
  BY <1>0, <1>2
<1>3. ASSUME NEW w \in Workers, NEW pc \in {"calling", "exited"},
             worker' = [worker EXCEPT ![w].pc = pc]
      PROVE  /\ Launched'
             /\ \A v \in Workers : worker[v].type = "start_task" => worker'[v].type = "start_task"
  BY <1>3
<1> QED
  BY <1>1, <1>2, <1>3 DEF ThreadsMove

-----------------------------------------------------------------------------
\* The queue.

LEMMA LeastPosition ==
  ASSUME NEW T \in SUBSET Nat, T # {}
  PROVE  Min(T) \in T
<1> DEFINE R == OpToRel(<, Nat)
<1>1. IsWellFoundedOn(R, Nat)
  BY NatLessThanWellFounded
<1>2. \A m, k \in Nat : k < m => <<k, m>> \in R
  BY DEF OpToRel
<1> HIDE DEF R
<1>3. PICK m \in T : \A k \in T : ~(<<k, m>> \in R)
  BY <1>1, WFMin
<1>4. ASSUME NEW k \in T PROVE m <= k
  <2>1. m \in Nat /\ k \in Nat /\ ~(k < m)
    BY <1>2, <1>3
  <2> QED
    BY <2>1
<1> QED
  BY <1>4 DEF Min

\* process_next_task_state_request() empties the queue, or takes from it the request that
\* it makes the transition under way.
LEMMA QueueMoves ==
  ASSUME NEW q \in Seq(Wanted), NEW paused, ProcessNext(q, paused)
  PROVE  \/ /\ requested' = <<>> /\ working' = FALSE /\ transition' = NoToggle
            /\ UNCHANGED togglers
         \/ /\ requested' \in Seq(Wanted) /\ Len(requested') < Len(q)
            /\ working' = TRUE /\ transition' \in Wanted
            /\ togglers' = togglers \cup {fsm.generation}
<1> DEFINE I == {i \in 1..Len(q) : q[i] # paused}
           first == SelectInSeq(q, LAMBDA target : target # paused)
<1>1. first = IF I # {} THEN Min(I) ELSE 0
  BY DEF SelectInSeq
<1>2. I \in SUBSET Nat
  OBVIOUS
<1>3. CASE I = {}
  <2>1. first = 0
    BY <1>1, <1>3
  <2> QED
    BY <2>1 DEF ProcessNext
<1>4. CASE I # {}
  <2>1. first \in 1..Len(q) /\ first # 0
    <3>1. Min(I) \in I
      BY <1>2, <1>4, LeastPosition
    <3>2. first = Min(I)
      BY <1>1, <1>4
    <3> HIDE DEF first
    <3> QED
      BY <3>1, <3>2
  <2>2. /\ requested' = SubSeq(q, first + 1, Len(q))
        /\ working' = TRUE /\ transition' = q[first]
        /\ togglers' = togglers \cup {fsm.generation}
    BY <2>1, Zenon DEF ProcessNext
  <2> HIDE DEF first
  <2>3. SubSeq(q, first + 1, Len(q)) \in Seq(Wanted) /\ q[first] \in Wanted
    BY <2>1
  <2>4. Len(SubSeq(q, first + 1, Len(q))) = Len(q) - first
    BY <2>1
  <2> QED
    BY <2>1, <2>2, <2>3, <2>4
<1> QED
  BY <1>3, <1>4

-----------------------------------------------------------------------------
\* The initial state, and every step, satisfies the invariant.

LEMMA TaskInitially == TaskInit => TaskIInv
<1> SUFFICES ASSUME TaskInit PROVE TaskIInv
  OBVIOUS
<1> USE TaskBoundsAssumption DEF TaskInit, Init, initial_state
<1>1. fsm \in RobotDto
  BY DEF RobotDto, MotionMode, TaskStatus
<1>2. TaskTypeOK
  <2>1. <<>> \in Seq(Wanted) /\ Len(<<>>) = 0 /\ 0 <= MaxRequests
    OBVIOUS
  <2> QED
    BY <2>1, Zenon DEF TaskTypeOK, Wanted, NoToggle
<1>3. ReadyWhenGranted /\ Undisturbed /\ QueueHasWorker /\ PauseRecordsAgree
  BY DEF ReadyWhenGranted, Undisturbed, QueueHasWorker, PauseRecordsAgree, Toggle, Free
<1>4. Launched
  BY DEF Launched, Unborn, Thread
<1>5. NothingAsked /\ LinesFollowRobot
  BY DEF NothingAsked, LinesFollowRobot, StopPhases, Free
<1> QED
  BY <1>1, <1>2, <1>3, <1>4, <1>5 DEF TaskIInv, TaskBase

\* A step that leaves the queue alone disturbs neither the queue nor the record.
LEMMA NavigationKeeps ==
  ASSUME TaskIInv, NavigationMoves, ThreadsMove, UNCHANGED task_vars
  PROVE  TaskIInv'
<1> USE DEF TaskIInv, TaskBase, task_vars, record, robot
<1>0. fsm.generation \in Nat /\ togglers \subseteq 0..fsm.generation
  BY DEF RobotDto, TaskTypeOK
<1>t. Toggle \notin Holders \cup {Free} /\ Free \notin StopPhases
  BY DEF Toggle, Holders, Free, StopPhases
<1>w. Launched' /\ \A w \in Workers : worker[w].type = "start_task" => worker'[w].type = "start_task"
  BY ThreadsKept
<1>1. CASE /\ MovesOn(fsm, fsm')
           /\ lock' = lock \/ lock' \in Holders \cup Workers \cup {Free}
           /\ lock' \in StopPhases => lock \in StopPhases
           /\ lock' = Toggle <=> lock = Toggle
  <2>1. fsm' \in RobotDto /\ fsm'.generation = fsm.generation
    BY <1>1 DEF MovesOn
  <2>2. TaskTypeOK'
    BY <1>1, <2>1 DEF TaskTypeOK
  <2>3. ReadyWhenGranted' /\ PauseRecordsAgree'
    BY <1>1 DEF ReadyWhenGranted, PauseRecordsAgree, MovesOn
  <2>4. Undisturbed'
    BY <1>1, <2>1 DEF Undisturbed, MovesOn
  <2>5. QueueHasWorker'
    BY <1>1, <2>1 DEF QueueHasWorker, Undisturbed, MovesOn, navigation_current, is_navigation,
                      NavigationModes, Ready
  <2>6. NothingAsked' /\ LinesFollowRobot'
    BY <1>1, <1>w, <2>1 DEF NothingAsked, LinesFollowRobot, OfFirstStart, MovesOn
  <2> QED
    BY <1>w, <2>1, <2>2, <2>3, <2>4, <2>5, <2>6
<1>2. CASE /\ can_begin_navigation(fsm)
           /\ fsm' = begin_navigation(fsm)
           /\ lock = Free /\ lock' = "start_check"
  <2>1. /\ fsm' \in RobotDto /\ fsm'.generation = fsm.generation + 1
        /\ fsm'.motion_mode = "StartingNavigation"
        /\ fsm'.navigation_environment_ready = fsm.navigation_environment_ready
        /\ fsm'.task_status # "Paused"
        /\ fsm.motion_mode = "Idle"
    BY <1>2, StartingFsm
  <2>2. ~working /\ ~fsm.navigation_environment_ready
    BY <2>1 DEF Undisturbed, ReadyWhenGranted, Ready
  <2>3. TaskTypeOK'
    BY <1>0, <1>2, <2>1 DEF TaskTypeOK, Holders
  <2>4. ReadyWhenGranted' /\ PauseRecordsAgree'
    BY <2>1, <2>2 DEF ReadyWhenGranted, PauseRecordsAgree
  <2>5. Undisturbed'
    BY <1>0, <1>2, <2>1, <2>2 DEF Undisturbed, Toggle
  <2>6. QueueHasWorker'
    BY <2>2 DEF QueueHasWorker
  <2>7. NothingAsked' /\ LinesFollowRobot'
    BY <1>0, <1>2, <1>w, <2>1 DEF NothingAsked, LinesFollowRobot, OfFirstStart, Ready
  <2> QED
    BY <1>w, <2>1, <2>3, <2>4, <2>5, <2>6, <2>7
<1>3. CASE /\ lock \in StopPhases /\ lock' = Free
           /\ \E success \in BOOLEAN : fsm' = stopped(fsm, success, FALSE)
  <2>1. /\ fsm' \in RobotDto /\ fsm'.generation = fsm.generation
        /\ ~fsm'.navigation_environment_ready
        /\ fsm'.task_status # "Paused"
    BY <1>3, StoppingFsm
  <2>2. ~working /\ lock # Toggle
    BY <1>3 DEF Undisturbed, StopPhases, Toggle
  <2>3. TaskTypeOK'
    BY <1>3, <2>1 DEF TaskTypeOK
  <2>4. ReadyWhenGranted' /\ PauseRecordsAgree'
    BY <2>1 DEF ReadyWhenGranted, PauseRecordsAgree
  <2>5. Undisturbed' /\ QueueHasWorker'
    BY <1>3, <1>t, <2>1, <2>2 DEF Undisturbed, QueueHasWorker
  <2>6. NothingAsked' /\ LinesFollowRobot'
    BY <1>3, <1>w, <2>1 DEF NothingAsked, LinesFollowRobot, OfFirstStart
  <2> QED
    BY <1>w, <2>1, <2>3, <2>4, <2>5, <2>6
<1> QED
  BY <1>1, <1>2, <1>3 DEF NavigationMoves

\* A task that is paused or runs.
LEMMA TaskStateFsm ==
  ASSUME NEW f \in RobotDto, NEW status \in {"Paused", "Running"}
  PROVE  /\ task_state(f, status) \in RobotDto
         /\ task_state(f, status).generation = f.generation
         /\ task_state(f, status).navigation_environment_ready = f.navigation_environment_ready
         /\ task_state(f, status).motion_mode =
              IF is_navigation(f) THEN "Navigating" ELSE f.motion_mode
         /\ task_state(f, status).task_status =
              IF is_navigation(f) THEN status ELSE f.task_status
BY DEF task_state, RobotDto, MotionMode, TaskStatus

\* A line more, and a line read.
LEMMA LinesAppended ==
  ASSUME NEW s \in Seq(Wanted), NEW line \in Wanted
  PROVE  /\ Append(s, line) \in Seq(Wanted) /\ Append(s, line) # <<>>
         /\ Len(Append(s, line)) = Len(s) + 1
         /\ Append(s, line)[Len(Append(s, line))] = line
OBVIOUS

LEMMA LinesTaken ==
  ASSUME NEW s \in Seq(Wanted), s # <<>>
  PROVE  /\ Tail(s) \in Seq(Wanted) /\ Head(s) \in Wanted
         /\ IF Tail(s) = <<>> THEN Head(s) = s[Len(s)]
            ELSE Tail(s)[Len(Tail(s))] = s[Len(s)]
<1>1. /\ Tail(s) \in Seq(Wanted) /\ Head(s) \in Wanted /\ Head(s) = s[1]
      /\ Len(s) > 0 /\ Len(Tail(s)) = Len(s) - 1
      /\ \A k \in 1..Len(s) - 1 : Tail(s)[k] = s[k + 1]
  OBVIOUS
<1>2. CASE Tail(s) = <<>>
  <2>1. Len(Tail(s)) = 0
    <3>1. Len(<<>>) = 0
      OBVIOUS
    <3> QED
      BY <1>2, <3>1, Zenon
  <2>2. Len(s) = 1
    <3>1. Len(s) \in Nat /\ Len(Tail(s)) = Len(s) - 1
      OBVIOUS
    <3>2. Len(s) - 1 = 0
      BY <2>1, <3>1, Zenon
    <3> QED
      BY <3>1, <3>2
  <2> QED
    BY <1>1, <1>2, <2>2
<1>3. CASE Tail(s) # <<>>
  <2>1. Len(Tail(s)) \in 1..Len(s) - 1
    BY <1>1, <1>3
  <2> QED
    BY <1>1, <1>3, <2>1
<1> QED
  BY <1>2, <1>3

\* pause_task and resume_task.
LEMMA RequestKeeps ==
  ASSUME TaskIInv, NEW target \in Wanted, TaskStateRequested(target)
  PROVE  TaskIInv'
<1> USE DEF TaskIInv, TaskBase
<1>0. /\ fsm.generation \in Nat /\ togglers \subseteq 0..fsm.generation
      /\ requested \in Seq(Wanted)
  BY DEF RobotDto, TaskTypeOK
<1>1. /\ lock = Free /\ Len(requested) < MaxRequests
      /\ fsm.motion_mode \in Ready
      /\ UNCHANGED <<fsm, lock, worker, task_paused, standing, said>>
  BY DEF TaskStateRequested, admit_behavior_command, ReadyWhenGranted, is_navigation,
         NavigationModes, Ready, vars, behaviour, threads, robot
<1>2. /\ Append(requested, target) \in Seq(Wanted)
      /\ Len(Append(requested, target)) = Len(requested) + 1
      /\ Len(requested) \in Nat
  BY <1>0
<1>3. /\ requested' \in Seq(Wanted) /\ Len(requested') <= Len(requested) + 1
      /\ \/ working /\ UNCHANGED <<working, transition, togglers>>
         \/ /\ ~working /\ requested' = <<>> /\ working' = FALSE /\ transition' = NoToggle
            /\ UNCHANGED togglers
         \/ /\ ~working /\ working' = TRUE /\ transition' \in Wanted
            /\ togglers' = togglers \cup {fsm.generation}
  <2>1. CASE working
    BY <1>2, <2>1 DEF TaskStateRequested
  <2>2. CASE ~working
    <3>1. ProcessNext(Append(requested, target), task_paused)
      BY <2>2 DEF TaskStateRequested
    <3>2. CASE /\ requested' = <<>> /\ working' = FALSE /\ transition' = NoToggle
               /\ UNCHANGED togglers
      <4>1. <<>> \in Seq(Wanted) /\ Len(<<>>) = 0
        OBVIOUS
      <4>2. Len(requested') <= Len(requested) + 1
        BY <1>2, <3>2, <4>1
      <4> QED
        BY <2>2, <3>2, <4>1, <4>2, Zenon
    <3>3. CASE /\ requested' \in Seq(Wanted) /\ Len(requested') < Len(Append(requested, target))
               /\ working' = TRUE /\ transition' \in Wanted
               /\ togglers' = togglers \cup {fsm.generation}
      <4>1. Len(requested') <= Len(requested) + 1
        BY <1>2, <3>3
      <4> QED
        BY <2>2, <3>3, <4>1
    <3> QED
      BY <1>2, <3>1, <3>2, <3>3, QueueMoves
  <2> QED
    BY <2>1, <2>2
<1>4. TaskTypeOK'
  <2>1. Len(requested') <= MaxRequests
    BY <1>1, <1>2, <1>3, TaskBoundsAssumption
  <2>2. working' \in BOOLEAN /\ transition' \in Wanted \cup {NoToggle}
    BY <1>3 DEF TaskTypeOK
  <2>3. togglers' \subseteq 0..fsm.generation
    <3>1. fsm.generation \in 0..fsm.generation
      BY <1>0
    <3> QED
      BY <1>0, <1>3, <3>1, Zenon
  <2> QED
    BY <1>1, <1>3, <2>1, <2>2, <2>3 DEF TaskTypeOK
<1>5. ReadyWhenGranted' /\ PauseRecordsAgree'
  BY <1>1 DEF ReadyWhenGranted, PauseRecordsAgree
<1>6. Undisturbed'
  BY <1>1, <1>3 DEF Undisturbed, Free, StopPhases, Toggle
<1>7. QueueHasWorker'
  <2>1. navigation_current(fsm, fsm.generation)
    BY <1>1 DEF navigation_current, is_navigation, NavigationModes, Ready
  <2> QED
    BY <1>1, <1>3, <2>1 DEF QueueHasWorker, Wanted, NoToggle
<1>8. Launched' /\ NothingAsked' /\ LinesFollowRobot'
  BY <1>1 DEF Launched, NothingAsked, LinesFollowRobot, OfFirstStart
<1> QED
  BY <1>1, <1>4, <1>5, <1>6, <1>7, <1>8

\* The two ends of a toggle that is waiting for the mutex.
LEMMA ToggleBeginsKeeps ==
  ASSUME TaskIInv, NEW g \in togglers, ToggleTooLate(g) \/ ToggleCalled(g)
  PROVE  TaskIInv'
<1> USE DEF TaskIInv, TaskBase
<1>0. togglers \subseteq 0..fsm.generation /\ fsm.generation \in Nat
  BY DEF RobotDto, TaskTypeOK
<1>1. /\ lock = Free /\ togglers' = togglers \ {g}
      /\ UNCHANGED <<fsm, worker, task_paused, requested, working, transition, standing, said>>
      /\ \/ lock' = Free /\ ~navigation_current(fsm, g)
         \/ lock' = Toggle /\ navigation_current(fsm, g)
  BY DEF ToggleTooLate, ToggleCalled, vars, behaviour, threads, robot
<1>2. TaskTypeOK'
  BY <1>1 DEF TaskTypeOK
<1>3. ReadyWhenGranted' /\ PauseRecordsAgree'
  BY <1>1 DEF ReadyWhenGranted, PauseRecordsAgree
<1>4. Undisturbed' /\ QueueHasWorker'
  <2>1. CASE lock' = Free /\ ~navigation_current(fsm, g)
    BY <1>1, <2>1 DEF Undisturbed, QueueHasWorker, Free, Toggle, StopPhases
  <2>2. CASE lock' = Toggle /\ navigation_current(fsm, g)
    <3>1. g = fsm.generation /\ working
      BY <2>2 DEF navigation_current, Undisturbed
    <3> QED
      BY <1>1, <2>2, <3>1 DEF Undisturbed, QueueHasWorker, Toggle, StopPhases
  <2> QED
    BY <1>1, <2>1, <2>2
<1>5. Launched' /\ NothingAsked' /\ LinesFollowRobot'
  BY <1>1 DEF Launched, NothingAsked, LinesFollowRobot, OfFirstStart, Toggle, Free, StopPhases
<1> QED
  BY <1>1, <1>2, <1>3, <1>4, <1>5

\* complete_task_state_transition().
LEMMA ToggleReturnsKeeps ==
  ASSUME TaskIInv, NEW success \in BOOLEAN, ToggleReturns(success)
  PROVE  TaskIInv'
<1> USE DEF TaskIInv, TaskBase
<1>0. /\ fsm.generation \in Nat /\ togglers \subseteq 0..fsm.generation
      /\ requested \in Seq(Wanted) /\ said \in Seq(Wanted) /\ Len(requested) <= MaxRequests
      /\ task_paused \in Wanted /\ standing \in Wanted /\ MaxRequests \in Nat
  BY TaskBoundsAssumption DEF RobotDto, TaskTypeOK
<1>1. /\ lock = Toggle /\ lock' = Free /\ UNCHANGED worker
      /\ working /\ fsm.generation \notin togglers
      /\ fsm.motion_mode \in Ready /\ is_navigation(fsm)
      /\ transition \in Wanted
  BY DEF ToggleReturns, threads, Undisturbed, QueueHasWorker, TaskTypeOK, Ready, is_navigation,
         NavigationModes
<1>2. /\ fsm' \in RobotDto /\ fsm'.generation = fsm.generation
      /\ fsm'.motion_mode \in Ready
      /\ fsm'.task_status = "Paused" => task_paused' = "paused"
      /\ task_paused' \in Wanted
  <2>1. CASE success
    <3> DEFINE status == IF transition = "paused" THEN "Paused" ELSE "Running"
    <3>1. fsm' = task_state(fsm, status) /\ task_paused' = transition
      BY <2>1 DEF ToggleReturns
    <3>2. status \in {"Paused", "Running"} /\ (status = "Paused" => transition = "paused")
      OBVIOUS
    <3> HIDE DEF status
    <3> QED
      BY <1>1, <3>1, <3>2, TaskStateFsm DEF Ready
  <2>2. CASE ~success
    BY <1>0, <1>1, <2>2 DEF ToggleReturns, PauseRecordsAgree
  <2> QED
    BY <2>1, <2>2
<1>3. ProcessNext(requested, task_paused')
  BY DEF ToggleReturns
<1>4. /\ requested' \in Seq(Wanted) /\ Len(requested') <= MaxRequests
      /\ \/ /\ requested' = <<>> /\ working' = FALSE /\ transition' = NoToggle
            /\ UNCHANGED togglers
         \/ /\ working' = TRUE /\ transition' \in Wanted
            /\ togglers' = togglers \cup {fsm.generation}
  <2>1. CASE /\ requested' = <<>> /\ working' = FALSE /\ transition' = NoToggle
             /\ UNCHANGED togglers
    <3>1. <<>> \in Seq(Wanted) /\ Len(<<>>) <= MaxRequests
      BY <1>0
    <3> QED
      BY <2>1, <3>1, Zenon
  <2>2. CASE /\ requested' \in Seq(Wanted) /\ Len(requested') < Len(requested)
             /\ working' = TRUE /\ transition' \in Wanted
             /\ togglers' = togglers \cup {fsm.generation}
    BY <1>0, <2>2
  <2> QED
    BY <1>0, <1>3, <2>1, <2>2, QueueMoves
<1>5. \/ UNCHANGED <<standing, said>> /\ task_paused' = task_paused
      \/ /\ standing' \in Wanted /\ said' \in Seq(Wanted) /\ said' # <<>>
         /\ said'[Len(said')] = standing'
  <2>1. CASE Toggled
    BY <1>0, <2>1, LinesAppended DEF Toggled
  <2>2. CASE ~Toggled
    BY <2>2 DEF ToggleReturns, robot
  <2> QED
    BY <2>1, <2>2
<1>6. TaskTypeOK'
  <2>1. /\ working' \in BOOLEAN /\ transition' \in Wanted \cup {NoToggle}
        /\ togglers' \subseteq 0..fsm.generation
    <3>1. fsm.generation \in 0..fsm.generation
      BY <1>0
    <3> QED
      BY <1>0, <1>4, <3>1, Zenon
  <2>2. standing' \in Wanted /\ said' \in Seq(Wanted)
    BY <1>0, <1>5
  <2> QED
    BY <1>1, <1>2, <1>4, <2>1, <2>2 DEF TaskTypeOK
<1>7. ReadyWhenGranted' /\ PauseRecordsAgree'
  BY <1>2 DEF ReadyWhenGranted, PauseRecordsAgree
<1>8. Undisturbed' /\ QueueHasWorker'
  <2>1. navigation_current(fsm', fsm.generation)
    BY <1>2 DEF navigation_current, is_navigation, NavigationModes, Ready
  <2>2. CASE /\ requested' = <<>> /\ working' = FALSE /\ transition' = NoToggle
             /\ UNCHANGED togglers
    <3>1. Undisturbed'
      BY <1>1, <1>2, <2>2 DEF Undisturbed, Free, Toggle
    <3>2. QueueHasWorker'
      BY <2>2, Zenon DEF QueueHasWorker
    <3> QED
      BY <3>1, <3>2
  <2>3. CASE /\ working' = TRUE /\ transition' \in Wanted
             /\ togglers' = togglers \cup {fsm.generation}
    <3>1. Undisturbed'
      BY <1>1, <1>2, <2>3 DEF Undisturbed, Free, Toggle, StopPhases
    <3>2. QueueHasWorker'
      BY <2>1, <2>3 DEF QueueHasWorker, Wanted, NoToggle
    <3> QED
      BY <3>1, <3>2
  <2> QED
    BY <1>4, <2>2, <2>3
<1>9. Launched' /\ NothingAsked' /\ LinesFollowRobot'
  <2>1. fsm.generation # 0
    BY <1>1 DEF NothingAsked, Ready
  <2>2. LinesFollowRobot'
    BY <1>1, <1>2, <1>5 DEF LinesFollowRobot, OfFirstStart, Free, StopPhases
  <2> QED
    BY <1>1, <1>2, <2>1, <2>2 DEF Launched, NothingAsked
<1> QED
  BY <1>2, <1>6, <1>7, <1>8, <1>9

\* 任务暂停 and 检测到从暂停中恢复.
LEMMA LineReadKeeps ==
  ASSUME TaskIInv, TaskStateLineRead
  PROVE  TaskIInv'
<1> USE DEF TaskIInv, TaskBase
<1> DEFINE status == IF Head(said) = "paused" THEN "Paused" ELSE "Running"
<1>1. /\ lock = Free /\ said # <<>> /\ said' = Tail(said)
      /\ fsm' = task_state(fsm, status)
      /\ task_paused' = IF is_navigation(fsm) THEN Head(said) ELSE task_paused
      /\ UNCHANGED <<lock, worker, requested, working, transition, togglers, standing>>
  BY DEF TaskStateLineRead, threads
<1>2. /\ said' \in Seq(Wanted) /\ Head(said) \in Wanted
      /\ said' = <<>> => Head(said) = said[Len(said)]
      /\ said' # <<>> => said'[Len(said')] = said[Len(said)]
  BY <1>1, LinesTaken DEF TaskTypeOK
<1>3. status \in {"Paused", "Running"} /\ (status = "Paused" => Head(said) = "paused")
  OBVIOUS
<1> HIDE DEF status
<1>4. /\ fsm' \in RobotDto /\ fsm'.generation = fsm.generation
      /\ fsm'.navigation_environment_ready = fsm.navigation_environment_ready
      /\ fsm'.motion_mode = IF is_navigation(fsm) THEN "Navigating" ELSE fsm.motion_mode
      /\ fsm'.task_status = IF is_navigation(fsm) THEN status ELSE fsm.task_status
  BY <1>1, <1>3, TaskStateFsm
<1>5. TaskTypeOK'
  BY <1>1, <1>2, <1>4 DEF TaskTypeOK
<1>6. ReadyWhenGranted' /\ PauseRecordsAgree'
  BY <1>1, <1>3, <1>4 DEF ReadyWhenGranted, PauseRecordsAgree, Ready
<1>7. Undisturbed'
  BY <1>1, <1>4 DEF Undisturbed, Ready
<1>8. QueueHasWorker'
  BY <1>1, <1>4 DEF QueueHasWorker, navigation_current, is_navigation, NavigationModes
<1>9. Launched' /\ NothingAsked'
  BY <1>1, <1>4 DEF Launched, NothingAsked
<1>10. LinesFollowRobot'
  <2> SUFFICES ASSUME OfFirstStart
               PROVE  IF said' = <<>> THEN task_paused' = standing'
                      ELSE /\ said'[Len(said')] = standing'
                           /\ fsm'.motion_mode \in Ready /\ lock' \notin StopPhases
    BY <1>1, <1>4 DEF LinesFollowRobot, OfFirstStart
  <2>1. /\ said[Len(said)] = standing /\ fsm.motion_mode \in Ready /\ lock \notin StopPhases
        /\ is_navigation(fsm)
    BY <1>1 DEF LinesFollowRobot, is_navigation, NavigationModes, Ready
  <2> QED
    BY <1>1, <1>2, <1>4, <2>1 DEF Ready
<1> QED
  BY <1>4, <1>5, <1>6, <1>7, <1>8, <1>9, <1>10

\* A service of the queue's neighbours: cancelling, recharging, clearing, starting a task.
LEMMA ServiceKeeps ==
  ASSUME TaskIInv, NEW w \in Workers, NEW success \in BOOLEAN, TaskServiceReturns(w, success)
  PROVE  TaskIInv'
<1> USE DEF TaskIInv, TaskBase
<1>0. /\ fsm.generation \in Nat /\ togglers \subseteq 0..fsm.generation
      /\ w # Toggle /\ Free \notin StopPhases /\ Free # Toggle
  BY ToggleAssumption DEF RobotDto, TaskTypeOK, Free, StopPhases, Toggle
<1>1. /\ ServiceReturns(w, success)
      /\ lock = w /\ lock' = Free /\ Exits(w)
      /\ UNCHANGED <<requested, working, transition, togglers, said>>
  BY DEF TaskServiceReturns, ServiceReturns
<1>2. /\ Launched'
      /\ \A v \in Workers : worker[v].type = "start_task" => worker'[v].type = "start_task"
  BY <1>1, ThreadsKept DEF Exits, ThreadsMove
<1>3. lock \notin StopPhases
  BY <1>1, WorkersAssumption DEF StopPhases, Holders
<1>4. /\ MovesOn(fsm, fsm')
      /\ success /\ worker[w].type = "start_task"
           /\ navigation_current(fsm, worker[w].generation) => fsm'.task_status # "Paused"
  <2>1. CASE ~navigation_current(fsm, worker[w].generation)
    BY <1>1, <2>1, FsmMovesOn DEF ServiceReturns
  <2>2. CASE navigation_current(fsm, worker[w].generation)
    <3> DEFINE type == worker[w].type
               f == CASE success /\ type \in {"start_task", "start_recharge"} -> task_state(fsm, "Running")
                      [] success /\ type \in {"cancel_task", "stop_recharge"} -> task_state(fsm, "Cancelled")
                      [] OTHER -> fsm
    <3>1. finish_command(type, f)
      BY <1>1, <2>2 DEF ServiceReturns
    <3>2. f \in {fsm, task_state(fsm, "Running"), task_state(fsm, "Cancelled")}
      OBVIOUS
    <3>3. success /\ type = "start_task" => f = task_state(fsm, "Running")
      OBVIOUS
    <3> HIDE DEF f, type
    <3>4. MovesOn(fsm, f)
      BY <3>2, FsmMovesOn
    <3>5. MovesOn(f, fsm')
      BY <3>1, <3>4, FinishMovesOn DEF MovesOn
    <3>6. MovesOn(fsm, fsm')
      BY <3>4, <3>5, MovesOnTwice
    <3>7. success /\ type = "start_task" => f.task_status # "Paused"
      BY <2>2, <3>3, TaskStateFsm DEF navigation_current
    <3> QED
      BY <3>5, <3>6, <3>7 DEF MovesOn, type
  <2> QED
    BY <2>1, <2>2
<1>5. fsm' \in RobotDto /\ fsm'.generation = fsm.generation
  BY <1>4 DEF MovesOn
<1>6. \/ UNCHANGED <<task_paused, standing>>
      \/ /\ success /\ worker[w].type = "start_task"
         /\ navigation_current(fsm, worker[w].generation)
         /\ task_paused' \in {task_paused, "running"} /\ standing' \in {standing, "running"}
  BY DEF TaskServiceReturns
<1>7. TaskTypeOK'
  BY <1>1, <1>5, <1>6 DEF TaskTypeOK, Wanted
<1>8. ReadyWhenGranted'
  BY <1>4 DEF ReadyWhenGranted, MovesOn
<1>9. PauseRecordsAgree'
  BY <1>4, <1>6 DEF PauseRecordsAgree, MovesOn
<1>10. Undisturbed'
  BY <1>0, <1>1, <1>4, <1>5 DEF Undisturbed, MovesOn
<1>11. QueueHasWorker'
  BY <1>0, <1>1, <1>4, <1>5 DEF QueueHasWorker, Undisturbed, MovesOn, navigation_current,
                                is_navigation, NavigationModes, Ready
<1>12. NothingAsked'
  <2>1. fsm.generation = 0 => ~navigation_current(fsm, worker[w].generation)
    BY DEF NothingAsked, navigation_current, is_navigation, NavigationModes
  <2> QED
    BY <1>0, <1>1, <1>4, <1>5, <1>6, <2>1 DEF NothingAsked, MovesOn
<1>13. LinesFollowRobot'
  <2> SUFFICES ASSUME OfFirstStart'
               PROVE  IF said' = <<>> THEN task_paused' = standing'
                      ELSE /\ said'[Len(said')] = standing'
                           /\ fsm'.motion_mode \in Ready /\ lock' \notin StopPhases
    BY DEF LinesFollowRobot
  <2>1. OfFirstStart
    BY <1>2, <1>5 DEF OfFirstStart
  <2>2. UNCHANGED <<task_paused, standing>>
    BY <1>6, <2>1 DEF OfFirstStart
  <2> QED
    BY <1>0, <1>1, <1>4, <2>1, <2>2 DEF LinesFollowRobot, MovesOn
<1> QED
  BY <1>2, <1>5, <1>7, <1>8, <1>9, <1>10, <1>11, <1>12, <1>13

\* invalidate_navigation_requests() at the beginning of a stop.
LEMMA StopKeeps ==
  ASSUME TaskIInv, StopForgetsTask
  PROVE  TaskIInv'
<1> USE DEF TaskIInv, TaskBase
<1>0. fsm.generation \in Nat /\ togglers \subseteq 0..fsm.generation
  BY DEF RobotDto, TaskTypeOK
<1>1. /\ lock' = "stop_cleanup" /\ can_begin_stop(fsm) /\ fsm' = begin_stop(fsm)
      /\ task_paused' = "running" /\ requested' = <<>> /\ working' = FALSE
      /\ transition' = NoToggle
      /\ UNCHANGED <<worker, togglers, standing, said>>
  BY DEF StopForgetsTask, StopBegins, robot
<1>2. /\ fsm' \in RobotDto /\ fsm'.generation = fsm.generation + 1
      /\ fsm'.motion_mode = "Stopping" /\ fsm'.task_status # "Paused"
  BY <1>1, StoppingFsm
<1>3. TaskTypeOK'
  <2>1. requested' \in Seq(Wanted) /\ Len(requested') <= MaxRequests
    <3>1. <<>> \in Seq(Wanted) /\ Len(<<>>) <= MaxRequests
      BY TaskBoundsAssumption
    <3> QED
      BY <1>1, <3>1, Zenon
  <2>2. togglers' \subseteq 0..fsm'.generation
    BY <1>0, <1>1, <1>2
  <2> QED
    BY <1>1, <2>1, <2>2 DEF TaskTypeOK, Wanted, Holders
<1>4. ReadyWhenGranted' /\ PauseRecordsAgree' /\ Undisturbed' /\ Launched'
  BY <1>0, <1>1, <1>2 DEF ReadyWhenGranted, PauseRecordsAgree, Undisturbed, Launched, Toggle
<1>5. QueueHasWorker'
  BY <1>1, Zenon DEF QueueHasWorker
<1>6. NothingAsked' /\ LinesFollowRobot'
  BY <1>0, <1>1, <1>2 DEF NothingAsked, LinesFollowRobot, OfFirstStart
<1> QED
  BY <1>2, <1>3, <1>4, <1>5, <1>6

LEMMA TaskPreserved == TaskIInv /\ [TaskNext]_both_vars => TaskIInv'
<1> SUFFICES ASSUME TaskIInv, [TaskNext]_both_vars PROVE TaskIInv'
  OBVIOUS
<1>1. CASE NavigationStep /\ UNCHANGED task_vars
  BY <1>1, NavigationStepMoves, NavigationKeeps DEF TaskIInv, TaskBase
<1>2. CASE UNCHANGED both_vars
  <2>1. NavigationMoves /\ ThreadsMove /\ UNCHANGED task_vars
    BY <1>2, FsmMovesOn DEF both_vars, vars, behaviour, threads, NavigationMoves, ThreadsMove,
                            TaskIInv, TaskBase
  <2> QED
    BY <2>1, NavigationKeeps
<1> QED
  BY <1>1, <1>2, StopKeeps, ServiceKeeps, RequestKeeps, ToggleBeginsKeeps, ToggleReturnsKeeps,
     LineReadKeeps DEF TaskNext, ToggleStep

-----------------------------------------------------------------------------
\* The theorems.

\* TaskInv of TaskState: in every state the queue of pauses and resumptions has somebody
\* who empties it, and the state machine shows Paused only with a record that says so.
THEOREM PauseQueueRight == TaskSpec => []TaskInv
<1>1. TaskIInv => TaskInv
  BY DEF TaskIInv, TaskBase, TaskInv
<1> QED
  BY <1>1, TaskInitially, TaskPreserved, PTL DEF TaskSpec

\* QuietRecordIsRight of TaskState: once every line is read the record is where the robot
\* stands, whatever toggles failed or took effect after their failure was reported.
THEOREM RecordRightAtRest == TaskSpec => []QuietRecordIsRight
<1>1. TaskIInv => QuietRecordIsRight
  BY DEF TaskIInv, LinesFollowRobot, OfFirstStart, QuietRecordIsRight
<1> QED
  BY <1>1, TaskInitially, TaskPreserved, PTL DEF TaskSpec
-----------------------------------------------------------------------------
\* Navigation beside pauses and resumptions.

\* The toggle takes the mutex and gives it back; its success, and the line about it, move
\* the record of a task.  Nothing else of navigation is touched.
TaskBeside ==
  /\ UNCHANGED <<active_command, requests, threads, flags, machine>>
  /\ lock \in {Free, Toggle} /\ lock' \in {Free, Toggle}
  /\ \/ UNCHANGED fsm
     \/ \E status \in {"Paused", "Running"} : fsm' = task_state(fsm, status)

LEMMA StepBesideTask ==
  ASSUME [TaskNext]_both_vars
  PROVE  [Next]_vars \/ TaskBeside
<1> USE DEF Next, Step
<1>1. CASE UNCHANGED both_vars
  BY <1>1 DEF both_vars
<1>2. CASE NavigationStep
  BY <1>2 DEF NavigationStep, NavigationWorkerStep, WorkerStep
<1>3. CASE StopForgetsTask
  BY <1>3 DEF StopForgetsTask
<1>4. ASSUME NEW w \in Workers, NEW success \in BOOLEAN, TaskServiceReturns(w, success)
      PROVE  [Next]_vars
  BY <1>4 DEF TaskServiceReturns, WorkerStep
<1>5. ASSUME NEW target, TaskStateRequested(target) PROVE [Next]_vars
  BY <1>5 DEF TaskStateRequested
<1>6. ASSUME NEW g \in togglers, ToggleTooLate(g) \/ ToggleCalled(g)
      PROVE  [Next]_vars \/ TaskBeside
  BY <1>6 DEF ToggleTooLate, ToggleCalled, TaskBeside
<1>7. ASSUME NEW success \in BOOLEAN, ToggleReturns(success) PROVE TaskBeside
  BY <1>7 DEF ToggleReturns, TaskBeside
<1>8. CASE TaskStateLineRead
  BY <1>8 DEF TaskStateLineRead, TaskBeside
<1> QED
  BY <1>1, <1>2, <1>3, <1>4, <1>5, <1>6, <1>7, <1>8 DEF TaskNext, ToggleStep

\* In navigation a task that runs or is paused is Navigating; the rest of the record stays.
LEMMA TaskBesideFields ==
  ASSUME FieldsOK, TaskBeside
  PROVE  /\ fsm' \in RobotDto
         /\ fsm'.generation = fsm.generation
         /\ fsm'.navigation_environment_ready = fsm.navigation_environment_ready
         /\ \/ fsm'.motion_mode = fsm.motion_mode
            \/ is_navigation(fsm) /\ fsm'.motion_mode = "Navigating"
         /\ lock \notin StartPhases \cup StopPhases
         /\ lock' \notin StartPhases \cup StopPhases
<1>1. fsm \in RobotDto
  BY DEF FieldsOK
<1>2. {Free, Toggle} \cap (StartPhases \cup StopPhases) = {}
  BY DEF Free, Toggle, StartPhases, StopPhases
<1> QED
  BY <1>1, <1>2, TaskStateFsm DEF TaskBeside

LEMMA TaskBesideSafe ==
  ASSUME FieldsOK, Safe, TaskBeside
  PROVE  FieldsOK' /\ Safe' /\ ModeMoves
<1> USE DEF TaskBeside, requests, threads, flags, machine
<1>1. /\ fsm' \in RobotDto
      /\ fsm'.generation = fsm.generation
      /\ fsm'.navigation_environment_ready = fsm.navigation_environment_ready
      /\ \/ fsm'.motion_mode = fsm.motion_mode
         \/ is_navigation(fsm) /\ fsm'.motion_mode = "Navigating"
      /\ lock \notin StartPhases \cup StopPhases
      /\ lock' \notin StartPhases \cup StopPhases
  BY TaskBesideFields
<1>2. FieldsOK'
  BY <1>1 DEF FieldsOK
<1>3. ModeMoves
  BY <1>1 DEF ModeMoves, NavigationModes
<1>4. /\ is_navigation(fsm') <=> is_navigation(fsm)
      /\ fsm'.motion_mode = fsm.motion_mode \/ fsm'.motion_mode = "Navigating"
  BY <1>1 DEF is_navigation, NavigationModes
<1>5. Phases'
  <2>1. lock' \notin {"start_check", "start_prepare", "stop_verify", "stop_survivor"}
    BY DEF Free, Toggle
  <2> QED
    BY <1>1, <2>1 DEF Phases
<1>6. StartingOwnsGate' /\ AwaitedNotReady'
  BY <1>1, <1>4 DEF Safe, StartingOwnsGate, AwaitedNotReady
<1>7. PreparationPending'
  BY <1>1, <1>4 DEF Safe, PreparationPending, NothingPending
<1>8. NoNavigationLeft' /\ ReadinessAgrees'
  BY <1>1, <1>4 DEF Safe, NoNavigationLeft, ReadinessAgrees, NothingPending, is_follow,
                    is_navigation, NavigationModes, FollowModes, MappingModes
<1>9. Safe'
  BY <1>5, <1>6, <1>7, <1>8 DEF Safe
<1> QED
  BY <1>2, <1>3, <1>9

LEMMA TaskBesideOwned ==
  ASSUME FieldsOK, Safe, GateHasOwner, TaskBeside
  PROVE  GateHasOwner'
<1> USE DEF TaskBeside, requests, threads, flags, machine
<1>1. fsm.generation \in Nat
  BY DEF FieldsOK, RobotDto
<1>2. /\ fsm'.generation = fsm.generation
      /\ \/ fsm'.motion_mode = fsm.motion_mode
         \/ is_navigation(fsm) /\ fsm'.motion_mode = "Navigating"
      /\ lock \notin StartPhases
  BY TaskBesideFields
<1>3. active_command' \in Managed => is_navigation(fsm')
  BY <1>2 DEF Safe, NoNavigationLeft, is_navigation, NavigationModes
<1>4. \A k \in Kind : WillTimeOut(k) => WillTimeOut(k)'
  BY DEF WillTimeOut
<1> QED
  BY <1>1, <1>2, <1>3, <1>4, OwnerKept

\* The safety of navigation, with the gate's type: the mutex may be the toggle's.
SafeBesideTask ==
  /\ FieldsOK /\ Safe
  /\ active_command \in Managed \cup {NoCommand}
  /\ GateHasOwner

LEMMA SafeBesideTaskAlways == TaskSpec => []SafeBesideTask
<1>1. TaskInit => SafeBesideTask
  BY InitTyped, InitSafe
     DEF TaskInit, SafeBesideTask, Init, GateHasOwner, NoCommand, Managed, ServiceCommands
<1>2. ASSUME SafeBesideTask, [Next]_vars PROVE SafeBesideTask'
  BY <1>2, TypeStep, SafeStep, HolderStep, OwnedStep DEF SafeBesideTask
<1>3. ASSUME SafeBesideTask, TaskBeside PROVE SafeBesideTask'
  BY <1>3, TaskBesideSafe, TaskBesideOwned DEF SafeBesideTask, TaskBeside
<1>4. SafeBesideTask /\ [TaskNext]_both_vars => SafeBesideTask'
  BY <1>2, <1>3, StepBesideTask
<1> QED
  BY <1>1, <1>4, PTL DEF TaskSpec

\* IdleHasNoNavigation, ReadinessAgrees and GateHasOwner of Navigation, beside pauses and
\* resumptions: a toggle that holds the mutex for the length of a service call, and lines
\* about pausing that are read in any mode, leave no command on the gate and no navigation
\* in Idle.
THEOREM NavigationSafeBesidePausing ==
  TaskSpec => [](IdleHasNoNavigation /\ ReadinessAgrees /\ GateHasOwner)
<1>1. SafeBesideTask => IdleHasNoNavigation /\ ReadinessAgrees /\ GateHasOwner
  BY DEF SafeBesideTask, Safe, NoNavigationLeft, NothingPending, IdleHasNoNavigation
<1> QED
  BY <1>1, SafeBesideTaskAlways, PTL

\* OneEnvironment and StaleTimeoutHarmless of Navigation, beside pauses and resumptions.
THEOREM PausingDisturbsNothing == TaskSpec => OneEnvironment /\ StaleTimeoutHarmless
<1>1. ASSUME SafeBesideTask, [TaskNext]_both_vars
      PROVE  /\ nav_process # "running" /\ nav_process' = "running" =>
                  nav_process = "none" /\ ~environment
             /\ \A t \in timers \ timers' : t[2] # attempt[t[1]] =>
                  UNCHANGED <<fsm, active_command, pending, flags>>
  <2>1. CASE [Next]_vars
    BY <1>1, <2>1, LaunchStep, TimeoutStep DEF SafeBesideTask
  <2>2. CASE TaskBeside
    BY <2>2 DEF TaskBeside, requests, machine
  <2> QED
    BY <1>1, <2>1, <2>2, StepBesideTask
<1>2. SafeBesideTask /\ [TaskNext]_both_vars =>
        /\ [nav_process # "running" /\ nav_process' = "running"
              => nav_process = "none" /\ ~environment]_vars
        /\ [\A t \in timers \ timers' : t[2] # attempt[t[1]] =>
              UNCHANGED <<fsm, active_command, pending, flags>>]_vars
  BY <1>1
<1> QED
  BY <1>2, SafeBesideTaskAlways, PTL DEF TaskSpec, OneEnvironment, StaleTimeoutHarmless

\* ImplementsArbiter of Navigation, beside pauses and resumptions: a toggle's answer and a
\* line about pausing move the mode only within navigation, and in no mode of another owner.
THEOREM PausingImplementsArbiter == TaskSpec => ImplementsArbiter
<1>1. TaskInit => Arbiter!ArbiterInit
  BY DEF TaskInit, Init, initial_state, Arbiter!ArbiterInit, OwnerOf, NavigationModes,
         FollowModes, MappingModes
<1>2. ASSUME SafeBesideTask, [TaskNext]_both_vars
      PROVE  [Arbiter!ArbiterNext]_<<OwnerOf(fsm.motion_mode), fsm.generation>>
  <2>1. FieldsOK /\ Safe
    BY <1>2 DEF SafeBesideTask
  <2>2. ModeMoves
    BY <1>2, <2>1, ModeStep, TaskBesideSafe, StepBesideTask
  <2> QED
    BY <2>1, <2>2, ModeMovesAsArbiter
<1> QED
  BY <1>1, <1>2, SafeBesideTaskAlways, PTL DEF TaskSpec, ImplementsArbiter, Arbiter!ArbiterSpec

\* So a generation of a navigation that is paused and resumed has one owner too.
THEOREM PausedGenerationsHaveOneOwner == TaskSpec => Arbiter!EpochHasOneOwner
BY EpochsHaveOneOwner, PausingImplementsArbiter DEF ImplementsArbiter
=============================================================================
