--------------------------- MODULE BehaviourProofs ---------------------------
(***************************************************************************)
(* Machine-checked proofs about mapping and follow beside navigation: what *)
(* NavigationSafety proves of every step of navigation holds beside them,  *)
(* their own steps keep it, and both implement BehaviorArbiter.            *)
(***************************************************************************)
EXTENDS NavigationSafety, Mapping

-----------------------------------------------------------------------------
\* What another behaviour may do without disturbing navigation.

\* The modes that navigation has nothing to do with.
Quiet == {"Idle"} \cup FollowModes \cup MappingModes

LEMMA BesideNavigation ==
  ASSUME FieldsOK, Safe, UNCHANGED <<requests, threads, flags, machine>>,
         fsm' \in RobotDto,
         \/ UNCHANGED fsm
         \/ /\ fsm.motion_mode \in Quiet
            /\ fsm'.motion_mode \in Quiet \cup {"Failed"}
            /\ is_follow(fsm') => is_follow(fsm)
            /\ fsm'.generation >= fsm.generation
            /\ fsm'.navigation_environment_ready => fsm.navigation_environment_ready,
         lock' = lock \/ lock' \notin StartPhases \cup StopPhases,
         active_command' = active_command \/ {active_command, active_command'} \cap Managed = {}
  PROVE  FieldsOK' /\ Safe'
<1> USE DEF requests, threads, flags, machine
<1>0. fsm.generation \in Nat /\ fsm'.generation \in Nat
  BY DEF FieldsOK, RobotDto
<1>1. FieldsOK'
  BY DEF FieldsOK
<1>2. Phases' /\ StartingOwnsGate' /\ AwaitedNotReady'
  BY DEF Safe, Phases, StartingOwnsGate, AwaitedNotReady, NothingPending, Quiet, is_navigation,
         NavigationModes, FollowModes, MappingModes, StartPhases, StopPhases, Managed
<1>3. NoNavigationLeft' /\ ReadinessAgrees'
  BY DEF Safe, NoNavigationLeft, ReadinessAgrees, NothingPending, Quiet, is_navigation, is_follow,
         NavigationModes, FollowModes, MappingModes, Managed
<1>4. PreparationPending'
  <2>1. lock' \in StartPhases => lock \in StartPhases
    OBVIOUS
  <2>2. is_navigation(fsm') => UNCHANGED fsm
    BY DEF Quiet, is_navigation, NavigationModes, FollowModes, MappingModes
  <2>3. \A w \in Workers : worker[w].generation \in Nat
    BY DEF FieldsOK, Thread
  <2> QED
    BY <1>0, <2>1, <2>2, <2>3 DEF Safe, PreparationPending, NothingPending
<1> QED
  BY <1>1, <1>2, <1>3, <1>4 DEF Safe

-----------------------------------------------------------------------------
\* Mapping.

\* What the operations of RobotFsm do for mapping.
LEMMA MappingFields ==
  ASSUME NEW f \in RobotDto
  PROVE  /\ f.motion_mode = "Idle" =>
              /\ begin_mapping(f) \in RobotDto
              /\ begin_mapping(f).motion_mode = "Mapping"
              /\ begin_mapping(f).generation = f.generation + 1
              /\ begin_mapping(f).navigation_environment_ready = f.navigation_environment_ready
         /\ \A active \in BOOLEAN : is_mapping(f) =>
              /\ mapping(f, active) \in RobotDto
              /\ mapping(f, active).motion_mode = IF active THEN "Mapping" ELSE "Idle"
              /\ mapping(f, active).generation = f.generation
              /\ mapping(f, active).navigation_environment_ready = f.navigation_environment_ready
         /\ f.motion_mode = "Mapping" =>
              /\ mapping_processing(f) \in RobotDto
              /\ mapping_processing(f).motion_mode = "MappingProcessing"
              /\ mapping_processing(f).generation = f.generation
              /\ mapping_processing(f).navigation_environment_ready = f.navigation_environment_ready
         /\ is_mapping(f) =>
              /\ mapping_failed(f) \in RobotDto
              /\ mapping_failed(f).motion_mode = "Failed"
              /\ mapping_failed(f).generation = f.generation + 1
              /\ mapping_failed(f).navigation_environment_ready = f.navigation_environment_ready
<1> USE DEF RobotDto, MotionMode, TaskStatus, MappingModes, is_mapping
<1>0. f.generation + 1 \in Nat
  OBVIOUS
<1>1. f.motion_mode = "Idle" =>
        /\ begin_mapping(f) \in RobotDto
        /\ begin_mapping(f).motion_mode = "Mapping"
        /\ begin_mapping(f).generation = f.generation + 1
        /\ begin_mapping(f).navigation_environment_ready = f.navigation_environment_ready
  BY <1>0 DEF begin_mapping
<1>2. ASSUME NEW active \in BOOLEAN, is_mapping(f)
      PROVE  /\ mapping(f, active) \in RobotDto
             /\ mapping(f, active).motion_mode = IF active THEN "Mapping" ELSE "Idle"
             /\ mapping(f, active).generation = f.generation
             /\ mapping(f, active).navigation_environment_ready = f.navigation_environment_ready
  BY <1>2 DEF mapping
<1>3. f.motion_mode = "Mapping" =>
        /\ mapping_processing(f) \in RobotDto
        /\ mapping_processing(f).motion_mode = "MappingProcessing"
        /\ mapping_processing(f).generation = f.generation
        /\ mapping_processing(f).navigation_environment_ready = f.navigation_environment_ready
  BY DEF mapping_processing
<1>4. is_mapping(f) =>
        /\ mapping_failed(f) \in RobotDto
        /\ mapping_failed(f).motion_mode = "Failed"
        /\ mapping_failed(f).generation = f.generation + 1
        /\ mapping_failed(f).navigation_environment_ready = f.navigation_environment_ready
  BY <1>0 DEF mapping_failed
<1> QED
  BY <1>1, <1>2, <1>3, <1>4

LEMMA NextAttempt ==
  ASSUME NEW n \in Nat, NEW T \in SUBSET (1..n)
  PROVE  n + 1 \in Nat /\ T \cup {n + 1} \subseteq 1..(n + 1)
OBVIOUS

\* The holder of the mutex knows the mode, and a capture is on the books in Mapping only.
MapperPhases ==
  /\ lock = StartMapping => fsm.motion_mode = "Mapping"
  /\ lock = NavUpload => fsm.motion_mode = "MappingProcessing"
  /\ is_running => fsm.motion_mode = "Mapping"

\* Until it has reported, the uploader is alone with its capture: no other is started.
UploaderPhases ==
  /\ uploader \in {"begun", "reaped", "unreaped", "erring"} =>
       fsm.motion_mode = "Mapping" /\ lock # StartMapping
  /\ uploader \in {"reaped", "unreaped"} => ~is_running

MappingIInv ==
  /\ MappingFieldsOK
  /\ Safe
  /\ MapperPhases
  /\ UploaderPhases
  /\ ProcessingHasEnd

LEMMA MappingInitially == MappingInit => MappingIInv
<1>1. SUFFICES ASSUME MappingInit PROVE MappingIInv
  OBVIOUS
<1>2. Init /\ FieldsOK /\ Safe
  BY <1>1, InitTyped, InitSafe DEF MappingInit, FollowInit
<1> QED
  BY <1>1, <1>2
     DEF MappingInit, Init, initial_state, MappingIInv, MappingFieldsOK, MapperPhases, UploaderPhases,
         ProcessingHasEnd, is_running, UploaderPc, Free, StartMapping, NavUpload

\* A step that leaves the modes, the mutex and the capture of mapping alone.
LEMMA MappingUnmoved ==
  ASSUME MappingIInv, UNCHANGED mapping_vars, FieldsOK', Safe',
         \A h \in {StartMapping, NavUpload} : lock = h <=> lock' = h,
         \A m \in MappingModes : fsm.motion_mode = m <=> fsm'.motion_mode = m
  PROVE  MappingIInv'
<1> USE DEF MappingIInv, MappingFieldsOK, mapping_vars
<1>1. MappingFieldsOK'
  OBVIOUS
<1>2. MapperPhases' /\ UploaderPhases' /\ ProcessingHasEnd'
  BY DEF MapperPhases, UploaderPhases, ProcessingHasEnd, MappingModes, is_running
<1> QED
  BY <1>1, <1>2

\* Navigation is such a step.
LEMMA MappingUndisturbed ==
  ASSUME MappingIInv, [Next]_vars, UNCHANGED mapping_vars
  PROVE  MappingIInv'
<1>0. FieldsOK /\ Safe
  BY DEF MappingIInv, MappingFieldsOK
<1>1. FieldsOK' /\ Safe'
  BY <1>0, TypeStep, SafeStep
<1>2. /\ lock' \in {lock, Free} \cup Holders \cup Workers
      /\ lock' # lock => lock \in {Free} \cup Holders \cup Workers
  BY <1>0, HolderStep
<1>3. {StartMapping, NavUpload} \cap ({Free} \cup Holders \cup Workers) = {}
  BY MappingWorkersAssumption DEF StartMapping, NavUpload, Free, Holders
<1>4. \A h \in {StartMapping, NavUpload} : lock = h <=> lock' = h
  BY <1>2, <1>3
<1>5. \A m \in MappingModes : fsm.motion_mode = m <=> fsm'.motion_mode = m
  BY <1>0, ModeStep DEF ModeMoves, MappingModes, NavigationModes, is_navigation
<1> QED
  BY <1>1, <1>4, <1>5, MappingUnmoved

\* What the steps of mapping do to the mode: a map is begun, goes on, is done or a fault.
MappingMoves ==
  \/ UNCHANGED fsm
  \/ /\ fsm.motion_mode = "Idle" /\ fsm'.motion_mode = "Mapping"
     /\ fsm'.generation = fsm.generation + 1
  \/ /\ is_mapping(fsm) /\ fsm'.motion_mode \in MappingModes \cup {"Idle"}
     /\ fsm'.generation = fsm.generation
  \/ /\ is_mapping(fsm) /\ fsm'.motion_mode = "Failed"
     /\ fsm'.generation = fsm.generation + 1

\* Every step of mapping keeps what navigation relies on.
LEMMA MappingFrame ==
  ASSUME FieldsOK, Safe, UNCHANGED <<requests, threads, flags, machine>>,
         fsm' \in RobotDto, MappingMoves,
         fsm'.navigation_environment_ready => fsm.navigation_environment_ready,
         lock' \in {lock, Free, StartMapping, NavUpload},
         active_command' = active_command \/ {active_command, active_command'} \cap Managed = {}
  PROVE  FieldsOK' /\ Safe'
<1>1. fsm.generation \in Nat
  BY DEF FieldsOK, RobotDto
<1>2. lock' = lock \/ lock' \notin StartPhases \cup StopPhases
  BY DEF StartPhases, StopPhases, Free, StartMapping, NavUpload
<1>3. \/ UNCHANGED fsm
      \/ /\ fsm.motion_mode \in Quiet
         /\ fsm'.motion_mode \in Quiet \cup {"Failed"}
         /\ is_follow(fsm') => is_follow(fsm)
         /\ fsm'.generation >= fsm.generation
         /\ fsm'.navigation_environment_ready => fsm.navigation_environment_ready
  BY <1>1 DEF MappingMoves, Quiet, MappingModes, FollowModes, is_mapping, is_follow
<1> QED
  BY <1>2, <1>3, BesideNavigation

\* The steps of mapping one by one.
LEMMA MappingStepKeeps ==
  ASSUME MappingIInv, MappingStep
  PROVE  MappingIInv' /\ MappingMoves
<1> USE DEF MappingIInv, MappingFieldsOK, MapperPhases, UploaderPhases, ProcessingHasEnd
<1>0. /\ fsm \in RobotDto /\ processing_attempt \in Nat
      /\ processing_attempt + 1 \in Nat
      /\ is_mapping(fsm) <=> fsm.motion_mode \in {"Mapping", "MappingProcessing"}
  BY DEF FieldsOK, is_mapping, MappingModes
<1>q. is_mapping(fsm) =>
        /\ \A active \in BOOLEAN :
             /\ mapping(fsm, active) \in RobotDto
             /\ mapping(fsm, active).motion_mode = IF active THEN "Mapping" ELSE "Idle"
             /\ mapping(fsm, active).generation = fsm.generation
             /\ mapping(fsm, active).navigation_environment_ready =
                  fsm.navigation_environment_ready
        /\ mapping_failed(fsm) \in RobotDto
        /\ mapping_failed(fsm).motion_mode = "Failed"
        /\ mapping_failed(fsm).generation = fsm.generation + 1
        /\ mapping_failed(fsm).navigation_environment_ready = fsm.navigation_environment_ready
  BY <1>0, MappingFields
<1>m. {StartMapping, StopUpload, NavUpload, NoCommand} \cap Managed = {}
  BY DEF StartMapping, StopUpload, NavUpload, NoCommand, Managed
<1>l. Free \notin {StartMapping, NavUpload} /\ StartMapping # NavUpload
  BY DEF Free, StartMapping, NavUpload
<1>f. ASSUME UNCHANGED <<requests, threads, flags, machine>>,
             fsm' \in RobotDto, MappingMoves,
             fsm'.navigation_environment_ready => fsm.navigation_environment_ready,
             lock' \in {lock, Free, StartMapping, NavUpload},
             \/ active_command' = active_command
             \/ {active_command, active_command'} \subseteq
                  {StartMapping, StopUpload, NavUpload, NoCommand},
             mapping_process' \in {"none", "running", "exited"}, uploader' \in UploaderPc,
             processing_attempt' \in Nat, processing_timers' \subseteq 1..processing_attempt'
      PROVE  MappingFieldsOK' /\ Safe'
  <2>1. active_command' = active_command \/ {active_command, active_command'} \cap Managed = {}
    BY <1>f, <1>m
  <2>2. FieldsOK' /\ Safe'
    BY <1>f, <2>1, MappingFrame
  <2> QED
    BY <1>f, <2>2
<1>1. CASE MappingBegins
  <2>1. /\ fsm' = begin_mapping(fsm) /\ fsm.motion_mode = "Idle"
        /\ lock = Free /\ lock' = StartMapping
        /\ active_command = NoCommand /\ active_command' = StartMapping
        /\ UNCHANGED <<requests, threads, flags, machine>>
        /\ UNCHANGED <<mapping_process, uploader, processing_attempt, processing_timers>>
    BY <1>1 DEF MappingBegins, mapping_vars
  <2>2. /\ fsm' \in RobotDto /\ fsm'.motion_mode = "Mapping"
        /\ fsm'.generation = fsm.generation + 1
        /\ fsm'.navigation_environment_ready = fsm.navigation_environment_ready
    BY <1>0, <2>1, MappingFields
  <2>3. MappingMoves
    BY <2>1, <2>2 DEF MappingMoves
  <2>4. MappingFieldsOK' /\ Safe'
    BY <1>f, <2>1, <2>2, <2>3
  <2> QED
    BY <1>l, <2>1, <2>2, <2>3, <2>4 DEF is_running
<1>2. CASE MappingStarted
  <2>1. /\ mapping_process' \in {"none", "running", "exited"}
        /\ fsm' = mapping(fsm, mapping_process' # "none")
        /\ lock = StartMapping /\ lock' = Free
        /\ active_command' = IF active_command = StartMapping THEN NoCommand ELSE active_command
        /\ UNCHANGED <<requests, threads, flags, machine>>
        /\ UNCHANGED <<uploader, processing_attempt, processing_timers>>
    BY <1>2 DEF MappingStarted, finish_command, is_running, StartMapping
  <2>2. /\ fsm' \in RobotDto
        /\ fsm'.motion_mode = IF mapping_process' # "none" THEN "Mapping" ELSE "Idle"
        /\ fsm'.generation = fsm.generation
        /\ fsm'.navigation_environment_ready = fsm.navigation_environment_ready
    BY <1>0, <2>1, MappingFields
  <2>3. MappingMoves
    BY <1>0, <2>1, <2>2 DEF MappingMoves, MappingModes
  <2>4. MappingFieldsOK' /\ Safe'
    BY <1>f, <2>1, <2>2, <2>3
  <2> QED
    BY <1>l, <2>1, <2>2, <2>3, <2>4 DEF is_running
<1>3. CASE CaptureExits \/ StopAndUploadmap \/ NavUploadBegins
  <2>1. /\ mapping_process' \in {"none", "running", "exited"} /\ (is_running' => is_running)
        /\ UNCHANGED <<fsm, requests, threads, flags, machine>>
        /\ UNCHANGED <<processing_attempt, processing_timers>>
        /\ \/ active_command' = active_command
           \/ {active_command, active_command'} \subseteq
                {StartMapping, StopUpload, NavUpload, NoCommand}
    BY <1>3 DEF CaptureExits, StopAndUploadmap, NavUploadBegins, vars, behaviour, mapping_vars,
                is_running
  <2>2. \/ UNCHANGED <<lock, uploader>>
        \/ UNCHANGED lock /\ lock = Free /\ uploader' = "begun" /\ fsm.motion_mode = "Mapping"
        \/ UNCHANGED uploader /\ lock = Free /\ lock' = NavUpload
             /\ fsm.motion_mode = "MappingProcessing"
    BY <1>3 DEF CaptureExits, StopAndUploadmap, NavUploadBegins, vars, behaviour, mapping_vars
  <2>3. MappingMoves
    BY <2>1 DEF MappingMoves
  <2>4. MappingFieldsOK' /\ Safe'
    BY <1>0, <1>f, <2>1, <2>2, <2>3 DEF UploaderPc
  <2> QED
    BY <1>l, <2>1, <2>2, <2>3, <2>4
<1>4. CASE UploaderThrows \/ CaptureStopped \/ FlagCleared \/ ProcessingTimeoutArmed
  <2>1. /\ UNCHANGED <<fsm, lock, active_command, requests, threads, flags, machine>>
        /\ mapping_process' \in {mapping_process, "none"}
        /\ \/ uploader = "begun" /\ uploader' = "erring"
           \/ uploader = "begun" /\ uploader' \in {"reaped", "unreaped"} /\ mapping_process' = "none"
           \/ uploader = "leaving" /\ uploader' = "none"
           \/ uploader = "arming" /\ uploader' = "reported"
    BY <1>4 DEF UploaderThrows, CaptureStopped, FlagCleared, ProcessingTimeoutArmed, UploaderMoves,
                vars, behaviour
  <2>2. \/ UNCHANGED <<processing_attempt, processing_timers>> /\ uploader # "arming"
        \/ /\ processing_attempt' = processing_attempt + 1
           /\ processing_timers' = processing_timers \cup {processing_attempt'}
    BY <1>4 DEF UploaderThrows, CaptureStopped, FlagCleared, ProcessingTimeoutArmed, UploaderMoves
  <2>3. processing_attempt' \in Nat /\ processing_timers' \subseteq 1..processing_attempt'
    BY <1>0, <2>2, NextAttempt
  <2>4. MappingMoves
    BY <2>1 DEF MappingMoves
  <2>5. MappingFieldsOK' /\ Safe'
    BY <1>0, <1>f, <2>1, <2>3, <2>4 DEF UploaderPc
  <2> QED
    BY <1>l, <2>1, <2>2, <2>4, <2>5 DEF is_running
<1>5. CASE UploadErrorHandled \/ UploadFailed \/ Uploaded
  <2>1. /\ UNCHANGED <<lock, active_command, requests, threads, flags, machine>>
        /\ UNCHANGED <<mapping_process, processing_attempt, processing_timers>>
        /\ fsm.motion_mode = "Mapping" /\ lock # StartMapping /\ lock # NavUpload
        /\ \/ uploader' = "erred" /\ fsm' = mapping(fsm, TRUE)
           \/ uploader' \in {"erred", "reported"} /\ ~is_running /\ fsm' = mapping_failed(fsm)
           \/ uploader' = "arming" /\ ~is_running /\ fsm' = mapping_processing(fsm)
    BY <1>5 DEF UploadErrorHandled, UploadFailed, Uploaded, UploaderMoves
  <2>2. /\ fsm' \in RobotDto
        /\ fsm'.navigation_environment_ready = fsm.navigation_environment_ready
        /\ \/ uploader' = "erred" /\ fsm'.motion_mode = "Mapping"
                /\ fsm'.generation = fsm.generation
           \/ uploader' \in {"erred", "reported"} /\ ~is_running /\ fsm'.motion_mode = "Failed"
                /\ fsm'.generation = fsm.generation + 1
           \/ uploader' = "arming" /\ ~is_running /\ fsm'.motion_mode = "MappingProcessing"
                /\ fsm'.generation = fsm.generation
    <3>1. CASE fsm' = mapping_processing(fsm)
      BY <1>0, <2>1, <3>1, MappingFields
    <3>2. CASE uploader' = "erred" /\ fsm' = mapping(fsm, TRUE)
      BY <1>0, <1>q, <2>1, <3>2
    <3>3. CASE uploader' \in {"erred", "reported"} /\ ~is_running /\ fsm' = mapping_failed(fsm)
      BY <1>0, <1>q, <2>1, <3>3
    <3> QED
      BY <2>1, <3>1, <3>2, <3>3
  <2>3. MappingMoves
    BY <1>0, <2>1, <2>2 DEF MappingMoves, MappingModes
  <2>4. MappingFieldsOK' /\ Safe'
    BY <1>f, <2>1, <2>2, <2>3 DEF UploaderPc
  <2> QED
    BY <2>1, <2>2, <2>3, <2>4 DEF is_running
<1>6. CASE UploadFinished
  <2>1. /\ UNCHANGED <<fsm, lock, requests, threads, flags, machine>>
        /\ UNCHANGED <<mapping_process, processing_attempt, processing_timers>>
        /\ active_command' = IF active_command = StopUpload THEN NoCommand ELSE active_command
        /\ uploader \in {"reported", "erred"} /\ uploader' \in {"leaving", "none"}
    BY <1>6 DEF UploadFinished, UploaderMoves, finish_command, StopUpload
  <2>2. MappingMoves
    BY <2>1 DEF MappingMoves
  <2>3. MappingFieldsOK' /\ Safe'
    BY <1>0, <1>f, <2>1, <2>2 DEF UploaderPc
  <2> QED
    BY <2>1, <2>2, <2>3 DEF is_running
<1>7. ASSUME NEW success \in BOOLEAN, NavUploadEnds(success) PROVE MappingIInv' /\ MappingMoves
  <2>1. /\ fsm' \in {mapping(fsm, FALSE), mapping_failed(fsm)}
        /\ lock = NavUpload /\ lock' = Free
        /\ active_command' = IF active_command = NavUpload THEN NoCommand ELSE active_command
        /\ UNCHANGED <<requests, threads, flags, machine>>
        /\ UNCHANGED <<mapping_process, uploader, processing_attempt, processing_timers>>
    BY <1>7 DEF NavUploadEnds, finish_command, NavUpload, mapping_vars
  <2>2. /\ fsm' \in RobotDto
        /\ fsm'.navigation_environment_ready = fsm.navigation_environment_ready
        /\ \/ fsm'.motion_mode = "Idle" /\ fsm'.generation = fsm.generation
           \/ fsm'.motion_mode = "Failed" /\ fsm'.generation = fsm.generation + 1
    <3>1. is_mapping(fsm)
      BY <1>0, <2>1
    <3>2. CASE fsm' = mapping(fsm, FALSE)
      BY <1>q, <3>1, <3>2
    <3>3. CASE fsm' = mapping_failed(fsm)
      BY <1>q, <3>1, <3>3
    <3> QED
      BY <2>1, <3>2, <3>3
  <2>3. MappingMoves
    BY <1>0, <2>1, <2>2 DEF MappingMoves, MappingModes
  <2>4. MappingFieldsOK' /\ Safe'
    BY <1>f, <2>1, <2>2, <2>3
  <2>5. ~is_running /\ uploader \notin {"begun", "reaped", "unreaped", "erring"}
    BY <2>1
  <2> QED
    BY <1>l, <2>1, <2>2, <2>3, <2>4, <2>5 DEF is_running
<1>8. ASSUME NEW a \in processing_timers, ProcessingTimeoutLeaves(a) \/ ProcessingTimesOut(a)
      PROVE  MappingIInv' /\ MappingMoves
  <2>1. /\ UNCHANGED <<lock, active_command, requests, threads, flags, machine>>
        /\ UNCHANGED <<mapping_process, uploader, processing_attempt>>
        /\ processing_timers' = processing_timers \ {a}
        /\ \/ UNCHANGED fsm /\ ~Wanted(a)
           \/ /\ fsm' = mapping_failed(fsm) /\ lock = Free
              /\ fsm.motion_mode = "MappingProcessing"
    BY <1>8 DEF ProcessingTimeoutLeaves, ProcessingTimesOut, Wanted, vars, behaviour
  <2>2. CASE UNCHANGED fsm /\ ~Wanted(a)
    <3>1. MappingMoves
      BY <2>2 DEF MappingMoves
    <3>2. MappingFieldsOK' /\ Safe'
      BY <1>0, <1>f, <2>1, <2>2, <3>1
    <3> QED
      BY <2>1, <2>2, <3>1, <3>2 DEF is_running, Wanted
  <2>3. CASE fsm' = mapping_failed(fsm) /\ lock = Free /\ fsm.motion_mode = "MappingProcessing"
    <3>1. /\ fsm' \in RobotDto /\ fsm'.motion_mode = "Failed"
          /\ fsm'.generation = fsm.generation + 1
          /\ fsm'.navigation_environment_ready = fsm.navigation_environment_ready
      BY <1>0, <2>3, MappingFields
    <3>2. MappingMoves
      BY <1>0, <2>3, <3>1 DEF MappingMoves
    <3>3. MappingFieldsOK' /\ Safe'
      BY <1>0, <1>f, <2>1, <3>1, <3>2
    <3> QED
      BY <1>l, <2>1, <2>3, <3>1, <3>2, <3>3 DEF is_running
  <2> QED
    BY <2>1, <2>2, <2>3
<1> QED
  BY <1>1, <1>2, <1>3, <1>4, <1>5, <1>6, <1>7, <1>8 DEF MappingStep, UploaderStep

\* A stop that is rejected has not touched anything but the thread that asked.
RejectionOnly ==
  /\ UNCHANGED <<behaviour, requests, worker, thrown, flags, machine>>
  /\ stop_waiting' \in BOOLEAN

LEMMA RejectionHarmless ==
  ASSUME FieldsOK, Safe, StopRejected
  PROVE  RejectionOnly /\ FieldsOK' /\ Safe'
<1>1. RejectionOnly
  BY DEF StopRejected, RejectionOnly
<1> USE DEF RejectionOnly, behaviour, requests, flags, machine
<1>2. FieldsOK'
  BY <1>1 DEF FieldsOK
<1>3. Phases' /\ StartingOwnsGate' /\ AwaitedNotReady'
  BY <1>1 DEF Safe, Phases, StartingOwnsGate, AwaitedNotReady, NothingPending
<1>4. PreparationPending'
  BY <1>1 DEF Safe, PreparationPending, NothingPending
<1>5. NoNavigationLeft' /\ ReadinessAgrees'
  BY <1>1 DEF Safe, NoNavigationLeft, ReadinessAgrees, NothingPending
<1> QED
  BY <1>1, <1>2, <1>3, <1>4, <1>5 DEF Safe

LEMMA MappingMovesAsArbiter ==
  ASSUME MappingMoves
  PROVE  [Arbiter!ArbiterNext]_<<OwnerOf(fsm.motion_mode), fsm.generation>>
<1> USE DEF OwnerOf, NavigationModes, FollowModes, MappingModes, is_mapping
<1>1. CASE UNCHANGED fsm
  BY <1>1
<1>2. CASE /\ fsm.motion_mode = "Idle" /\ fsm'.motion_mode = "Mapping"
           /\ fsm'.generation = fsm.generation + 1
  BY <1>2 DEF Arbiter!ArbiterNext, Arbiter!Grant
<1>3. CASE /\ is_mapping(fsm) /\ fsm'.motion_mode \in MappingModes
           /\ fsm'.generation = fsm.generation
  BY <1>3
<1>4. CASE /\ is_mapping(fsm) /\ fsm'.motion_mode = "Idle"
           /\ fsm'.generation = fsm.generation
  BY <1>4 DEF Arbiter!ArbiterNext, Arbiter!GiveBack
<1>5. CASE /\ is_mapping(fsm) /\ fsm'.motion_mode = "Failed"
           /\ fsm'.generation = fsm.generation + 1
  BY <1>5 DEF Arbiter!ArbiterNext, Arbiter!Fail
<1> QED
  BY <1>1, <1>2, <1>3, <1>4, <1>5 DEF MappingMoves

-----------------------------------------------------------------------------
\* Follow.

\* What the operations of RobotFsm do for follow.
LEMMA FollowFields ==
  ASSUME NEW f \in RobotDto
  PROVE  /\ follow_decision(f) = "Start" =>
              /\ f.motion_mode \in {"Idle"} \cup NavigationModes
              /\ begin_follow(f) \in RobotDto
              /\ begin_follow(f).motion_mode = "Stopping"
              /\ begin_follow(f).generation = f.generation + 1
         /\ \A clean, follow \in BOOLEAN :
              /\ stopped(f, clean, follow) \in RobotDto
              /\ stopped(f, clean, follow).motion_mode =
                   IF ~clean THEN "Failed" ELSE IF follow THEN "StartingFollow" ELSE "Idle"
              /\ stopped(f, clean, follow).generation = f.generation
              /\ stopped(f, clean, follow).navigation_environment_ready = FALSE
         /\ \A placeholder \in BOOLEAN : f.motion_mode = "StartingFollow" =>
              /\ follow_started(f, placeholder) \in RobotDto
              /\ follow_started(f, placeholder).motion_mode = "Following"
              /\ follow_started(f, placeholder).generation = f.generation
              /\ follow_started(f, placeholder).navigation_environment_ready =
                   f.navigation_environment_ready
         /\ \A success \in BOOLEAN :
              /\ ~is_follow(f) => follow_stopped(f, success) = f
              /\ is_follow(f) =>
                   /\ follow_stopped(f, success) \in RobotDto
                   /\ follow_stopped(f, success).motion_mode =
                        IF success THEN "Idle" ELSE "Failed"
                   /\ follow_stopped(f, success).generation = f.generation + 1
                   /\ follow_stopped(f, success).navigation_environment_ready = FALSE
<1> USE DEF RobotDto, MotionMode, TaskStatus
<1>0. f.generation + 1 \in Nat
  OBVIOUS
<1>1. ASSUME follow_decision(f) = "Start"
      PROVE  /\ f.motion_mode \in {"Idle"} \cup NavigationModes
             /\ begin_follow(f) \in RobotDto
             /\ begin_follow(f).motion_mode = "Stopping"
             /\ begin_follow(f).generation = f.generation + 1
  <2>1. f.motion_mode \in {"Idle"} \cup NavigationModes
    BY <1>1 DEF follow_decision, NavigationModes, MappingModes, FollowModes
  <2>2. begin_follow(f) = [f EXCEPT !.generation = f.generation + 1, !.motion_mode = "Stopping",
                                    !.task_status = "Stopping"]
    BY <1>1 DEF begin_follow, EnterStopping
  <2> QED
    BY <1>0, <2>1, <2>2
<1>2. ASSUME NEW clean \in BOOLEAN, NEW follow \in BOOLEAN
      PROVE  /\ stopped(f, clean, follow) \in RobotDto
             /\ stopped(f, clean, follow).motion_mode =
                  IF ~clean THEN "Failed" ELSE IF follow THEN "StartingFollow" ELSE "Idle"
             /\ stopped(f, clean, follow).generation = f.generation
             /\ stopped(f, clean, follow).navigation_environment_ready = FALSE
  BY DEF stopped
<1>3. ASSUME NEW placeholder \in BOOLEAN, f.motion_mode = "StartingFollow"
      PROVE  /\ follow_started(f, placeholder) \in RobotDto
             /\ follow_started(f, placeholder).motion_mode = "Following"
             /\ follow_started(f, placeholder).generation = f.generation
             /\ follow_started(f, placeholder).navigation_environment_ready =
                  f.navigation_environment_ready
  BY <1>3 DEF follow_started
<1>4. ASSUME NEW success \in BOOLEAN, is_follow(f)
      PROVE  /\ follow_stopped(f, success) \in RobotDto
             /\ follow_stopped(f, success).motion_mode = IF success THEN "Idle" ELSE "Failed"
             /\ follow_stopped(f, success).generation = f.generation + 1
             /\ follow_stopped(f, success).navigation_environment_ready = FALSE
  BY <1>0, <1>4 DEF follow_stopped
<1>5. ASSUME NEW success \in BOOLEAN, ~is_follow(f)
      PROVE  follow_stopped(f, success) = f
  BY <1>5 DEF follow_stopped
<1> HIDE DEF RobotDto, MotionMode, TaskStatus
<1> QED
  BY <1>1, <1>2, <1>3, <1>4, <1>5

\* The holder of the mutex knows the mode, and what it has brought down is down.
FollowPhases ==
  /\ lock \in {"follow_check", "follow_verify", "follow_survivor"} =>
       fsm.motion_mode = "Stopping" /\ NothingPending /\ request \in Requests
  /\ lock \in {"follow_verify", "follow_survivor"} => nav_process = "none"
  /\ lock \in {"follow_backend", "follow_answered", "follow_failed"} =>
       fsm.motion_mode = "StartingFollow"

\* What defeats EngineOnlyInFollow.
Defeated ==
  \/ unconfirmed
  \/ \E t \in FollowThreads : follower[t].cmd \in {"http_estop", "stop_follow"}

\* The engine moves outside a follow, or before it has answered yes, only if defeated.
EngineWatched ==
  /\ following => is_follow(fsm) \/ Defeated
  /\ following /\ lock \in {"follow_backend", "follow_failed"} => Defeated
  /\ \A t \in FollowThreads : follower[t].pc = "unborn" => follower[t].cmd = "none"

FollowIInv ==
  /\ FollowFieldsOK
  /\ Safe
  /\ FollowPhases
  /\ QueuedFollowHasDrainer
  /\ EngineWatched

LEMMA FollowInitially == FollowInit => FollowIInv
<1>1. SUFFICES ASSUME FollowInit PROVE FollowIInv
  OBVIOUS
<1>2. Init /\ FieldsOK /\ Safe
  BY <1>1, InitTyped, InitSafe DEF FollowInit
<1>3. follower \in [FollowThreads -> FollowThread]
      /\ \A t \in FollowThreads : follower[t].pc = "unborn" => follower[t].cmd = "none"
  BY <1>1 DEF FollowInit, FollowThread
<1>4. FollowFieldsOK
  BY <1>1, <1>2, <1>3 DEF FollowInit, Init, FollowFieldsOK, NoRequest
<1>5. FollowPhases /\ QueuedFollowHasDrainer
  BY <1>1, <1>2 DEF FollowInit, Init, FollowPhases, QueuedFollowHasDrainer, Free
<1>6. EngineWatched
  BY <1>1, <1>3 DEF FollowInit, EngineWatched
<1> QED
  BY <1>2, <1>4, <1>5, <1>6 DEF FollowIInv

\* The five ways in which the steps of follow move the mode.
FollowMoves ==
  \/ fsm'.generation = fsm.generation /\ fsm'.motion_mode = fsm.motion_mode
  \/ /\ fsm.motion_mode \in {"Idle"} \cup NavigationModes /\ fsm'.motion_mode = "Stopping"
     /\ fsm'.generation = fsm.generation + 1
  \/ /\ fsm.motion_mode = "Stopping" /\ fsm'.motion_mode \in FollowModes \cup {"Idle", "Failed"}
     /\ fsm'.generation = fsm.generation
  \/ /\ is_follow(fsm) /\ fsm'.motion_mode \in FollowModes \cup {"Failed"}
     /\ fsm'.generation = fsm.generation
  \/ /\ is_follow(fsm) /\ fsm'.motion_mode \in {"Idle", "Failed"}
     /\ fsm'.generation = fsm.generation + 1

\* What follow does between its stops does not disturb navigation.
LEMMA FollowFrame ==
  ASSUME FieldsOK, Safe, UNCHANGED <<active_command, requests, threads, flags, machine>>,
         fsm' \in RobotDto,
         \/ UNCHANGED fsm
         \/ /\ is_follow(fsm) /\ fsm'.motion_mode \in FollowModes \cup {"Idle", "Failed"}
            /\ fsm'.generation \in {fsm.generation, fsm.generation + 1}
            /\ fsm'.navigation_environment_ready => fsm.navigation_environment_ready,
         lock' \in {lock, Free} \cup FollowHolders
  PROVE  FieldsOK' /\ Safe'
<1>1. fsm.generation \in Nat
  BY DEF FieldsOK, RobotDto
<1>2. lock' = lock \/ lock' \notin StartPhases \cup StopPhases
  BY DEF StartPhases, StopPhases, Free, FollowHolders
<1>3. \/ UNCHANGED fsm
      \/ /\ fsm.motion_mode \in Quiet
         /\ fsm'.motion_mode \in Quiet \cup {"Failed"}
         /\ is_follow(fsm') => is_follow(fsm)
         /\ fsm'.generation >= fsm.generation
         /\ fsm'.navigation_environment_ready => fsm.navigation_environment_ready
  BY <1>1 DEF Quiet, FollowModes, is_follow
<1> QED
  BY <1>2, <1>3, BesideNavigation

\* A follow begins like a stop: whatever navigation was doing is invalidated.
LEMMA FollowBegins ==
  ASSUME FieldsOK, Safe, NEW r, BeginFollow(r), follow_decision(fsm) = "Start"
  PROVE  /\ FieldsOK' /\ Safe' /\ NothingPending'
         /\ fsm.motion_mode \in {"Idle"} \cup NavigationModes
         /\ fsm'.motion_mode = "Stopping"
         /\ fsm'.generation = fsm.generation + 1
<1> USE DEF machine_state, threads
<1>1. /\ fsm \in RobotDto /\ fsm.generation \in Nat
      /\ \A k \in Kind : attempt[k] + 1 \in Nat
      /\ \A w \in Workers : worker[w].generation \in Nat
  BY DEF FieldsOK, RobotDto, Thread
<1>2. /\ fsm' = begin_follow(fsm)
      /\ active_command' = NoCommand /\ lock' = "follow_check"
      /\ pending' = [k \in Kind |-> FALSE]
      /\ attempt' = [k \in Kind |-> attempt[k] + 1]
      /\ UNCHANGED <<timers, confirmed, expected, worker, thrown, stop_waiting, nav_process,
                     environment, odometry, navigation_env_ready, localization_ready_flag>>
  BY DEF BeginFollow, invalidate_navigation_requests
<1>3. /\ fsm' \in RobotDto /\ fsm'.motion_mode = "Stopping"
      /\ fsm.motion_mode \in {"Idle"} \cup NavigationModes
      /\ fsm'.generation = fsm.generation + 1
  BY <1>1, <1>2, FollowFields
<1>4. FieldsOK'
  BY <1>1, <1>2, <1>3 DEF FieldsOK
<1>5. NothingPending'
  BY <1>2 DEF NothingPending
<1>6. Phases' /\ StartingOwnsGate' /\ AwaitedNotReady' /\ ReadinessAgrees' /\ NoNavigationLeft'
  BY <1>2, <1>3, <1>5
     DEF Phases, StartingOwnsGate, AwaitedNotReady, ReadinessAgrees, NoNavigationLeft,
         NothingPending, StartPhases, StopPhases, is_navigation, is_follow, NavigationModes,
         FollowModes, MappingModes, NoCommand, Managed
<1>7. PreparationPending'
  BY <1>1, <1>2, <1>3 DEF Safe, PreparationPending
<1> QED
  BY <1>3, <1>4, <1>5, <1>6, <1>7 DEF Safe

\* A stop that is over, clean or not, leaves nothing of navigation behind it.
LEMMA StoppingEnds ==
  ASSUME FieldsOK, Safe, fsm.motion_mode = "Stopping", NothingPending,
         fsm' \in RobotDto, fsm'.generation = fsm.generation,
         fsm'.motion_mode \in FollowModes \cup {"Idle", "Failed"},
         ~fsm'.navigation_environment_ready,
         UNCHANGED <<active_command, requests, threads, environment, odometry>>,
         is_follow(fsm') => ~environment,
         nav_process' = "none",
         navigation_env_ready' \in BOOLEAN, localization_ready_flag' \in BOOLEAN,
         lock' \in {Free} \cup FollowHolders
  PROVE  FieldsOK' /\ Safe'
<1> USE DEF requests, threads
<1>1. FieldsOK'
  BY DEF FieldsOK
<1>2. ~is_navigation(fsm) /\ ~is_navigation(fsm')
  BY DEF is_navigation, NavigationModes, FollowModes
<1>3. lock' \notin StartPhases \cup StopPhases
  BY DEF StartPhases, StopPhases, Free, FollowHolders
<1>4. Phases' /\ StartingOwnsGate' /\ AwaitedNotReady'
  BY <1>2, <1>3
     DEF Phases, StartingOwnsGate, AwaitedNotReady, NothingPending, StartPhases, StopPhases,
         FollowModes
<1>5. NoNavigationLeft' /\ ReadinessAgrees'
  BY <1>2 DEF Safe, NoNavigationLeft, ReadinessAgrees, NothingPending
<1>6. PreparationPending'
  BY <1>2 DEF Safe, PreparationPending
<1> QED
  BY <1>1, <1>4, <1>5, <1>6 DEF Safe

\* Killing navigation for a follow changes what is running, not who owns the robot.
LEMMA FollowCleans ==
  ASSUME FieldsOK, Safe, fsm.motion_mode = "Stopping", FollowCleansUp
  PROVE  FieldsOK' /\ Safe'
<1> USE DEF requests, threads
<1>1. /\ lock' \in {"follow_verify", "follow_survivor"} /\ nav_process' = "none"
      /\ environment' \in BOOLEAN
      /\ navigation_env_ready' = FALSE /\ localization_ready_flag' = FALSE
      /\ UNCHANGED <<fsm, active_command, requests, threads, odometry>>
  BY DEF FollowCleansUp, CleansUp, FieldsOK
<1>2. FieldsOK'
  BY <1>1 DEF FieldsOK
<1>3. Phases' /\ StartingOwnsGate' /\ AwaitedNotReady' /\ NoNavigationLeft' /\ ReadinessAgrees'
  BY <1>1 DEF Safe, Phases, StartingOwnsGate, AwaitedNotReady, NoNavigationLeft, ReadinessAgrees,
              NothingPending, StartPhases, StopPhases, is_navigation, is_follow, NavigationModes,
              FollowModes, MappingModes
<1>4. PreparationPending'
  BY <1>1 DEF Safe, PreparationPending, is_navigation, NavigationModes
<1> QED
  BY <1>2, <1>3, <1>4 DEF Safe

\* While follow has the mutex, navigation may only see its processes come and go.
LEMMA HeldByFollow ==
  ASSUME FieldsOK, [Step]_vars, lock \in FollowHolders
  PROVE  /\ UNCHANGED <<fsm, lock, active_command, pending>>
         /\ nav_process = "none" => nav_process' = "none"
<1> USE DEF behaviour, requests, threads, flags, machine
<1>1. lock \notin {Free} \cup Holders \cup Workers
  BY FollowWorkersAssumption DEF FollowHolders, Free, Holders
<1>2. CASE CloudStep
  BY <1>1, <1>2 DEF CloudStep, StartBegins, InitialPose, NavigationTask, ServiceCommand,
                    ClearWaypoints, Admitted, StopRequested
<1>3. CASE StartStep \/ StopBegins \/ StopCleansUp
  BY <1>1, <1>3 DEF StartStep, StartRefused, StartChecked, StartAborted, StartThrows,
                    StartLaunchesWorker, StopBegins, StopCleansUp, Holders
<1>4. ASSUME NEW w \in Workers, WorkerStep(w) PROVE FALSE
  BY <1>1, <1>4 DEF WorkerStep, PreparedTooLate, PreparationFails, EnvironmentLaunched,
                    ServiceTooLate, ServiceCalled, ServiceReturns
<1>5. ASSUME NEW k, NEW a, TimeoutFires(k, a) \/ ExceptionHandled(k, a) PROVE FALSE
  BY <1>1, <1>5 DEF TimeoutFires, ExceptionHandled
<1>6. CASE LineRead
  BY <1>1, <1>6 DEF LineRead, PauseLineRead, ResumeLineRead, TaskLineRead, EnvReadyLineRead,
                    ClearedLineRead, InitializedLineRead, ConfirmationRead, WaypointLineRead, Reads
<1>7. CASE MachineStep
  BY <1>7 DEF MachineStep, OdometryPublished, LocalizationCallback, LauncherExits,
              EnvironmentDies
<1>8. CASE UNCHANGED vars
  BY <1>8 DEF vars
<1> QED
  BY <1>2, <1>3, <1>4, <1>5, <1>6, <1>7, <1>8 DEF Step

\* A stop_navigation keeps the mutex until it has come to its end.
LEMMA HeldByStop ==
  ASSUME FieldsOK, [Step]_vars, lock \in StopPhases
  PROVE  lock' \in StopPhases
<1> USE DEF behaviour, requests, threads, flags, machine
<1>1. lock \notin {Free} \cup StartPhases \cup Workers
  BY WorkersAssumption DEF StartPhases, StopPhases, Holders, Free
<1>2. CASE CloudStep
  BY <1>1, <1>2 DEF CloudStep, StartBegins, InitialPose, NavigationTask, ServiceCommand,
                    ClearWaypoints, Admitted, StopRequested
<1>3. CASE StartStep \/ StopBegins
  BY <1>1, <1>3 DEF StartStep, StartRefused, StartChecked, StartAborted, StartThrows,
                    StartLaunchesWorker, StopBegins, StartPhases
<1>4. CASE StopCleansUp
  BY <1>4 DEF StopCleansUp, CleansUp, StopPhases
<1>5. ASSUME NEW w \in Workers, WorkerStep(w) PROVE FALSE
  BY <1>1, <1>5 DEF WorkerStep, PreparedTooLate, PreparationFails, EnvironmentLaunched,
                    ServiceTooLate, ServiceCalled, ServiceReturns
<1>6. ASSUME NEW k, NEW a, TimeoutFires(k, a) \/ ExceptionHandled(k, a) PROVE FALSE
  BY <1>1, <1>6 DEF TimeoutFires, ExceptionHandled
<1>7. CASE LineRead
  BY <1>1, <1>7 DEF LineRead, PauseLineRead, ResumeLineRead, TaskLineRead, EnvReadyLineRead,
                    ClearedLineRead, InitializedLineRead, ConfirmationRead, WaypointLineRead, Reads
<1>8. CASE MachineStep
  BY <1>8 DEF MachineStep, OdometryPublished, LocalizationCallback, LauncherExits,
              EnvironmentDies
<1>9. CASE UNCHANGED vars
  BY <1>9 DEF vars
<1> QED
  BY <1>2, <1>3, <1>4, <1>5, <1>6, <1>7, <1>8, <1>9 DEF Step

\* A follow mode is entered and left by follow alone.
LEMMA FollowModesKept ==
  ASSUME FieldsOK, Safe, [Next]_vars
  PROVE  is_follow(fsm) <=> is_follow(fsm')
BY ModeStep DEF ModeMoves, is_follow, is_navigation, NavigationModes, FollowModes

\* Navigation leaves the follow commands and their queue alone.
LEMMA FollowUndisturbed ==
  ASSUME FollowIInv, [Step]_vars, UNCHANGED follow_vars
  PROVE  FollowIInv'
<1> USE DEF FollowIInv, FollowFieldsOK, follow_vars, engine
<1>0. [Next]_vars
  BY DEF Next
<1>1. FieldsOK' /\ Safe'
  BY <1>0, TypeStep, SafeStep
<1>2. /\ lock' \in {lock, Free} \cup Holders \cup Workers
      /\ lock' # lock => lock \in {Free} \cup Holders \cup Workers
      /\ active_command' \in {active_command, NoCommand} \cup Managed
  BY <1>0, HolderStep
<1>3. FollowHolders \cap ({Free} \cup Holders \cup Workers) = {}
  BY FollowWorkersAssumption DEF FollowHolders, Free, Holders
<1>4. FollowFieldsOK'
  BY <1>1, <1>2
<1>5. lock' \in FollowHolders => lock \in FollowHolders
  BY <1>2, <1>3
<1>6. lock \in FollowHolders =>
        /\ UNCHANGED <<fsm, lock, pending>>
        /\ nav_process = "none" => nav_process' = "none"
  BY HeldByFollow
<1>7. FollowPhases'
  <2>1. CASE lock' \notin FollowHolders
    BY <2>1 DEF FollowPhases, FollowHolders
  <2>2. CASE lock' \in FollowHolders
    BY <1>5, <1>6, <2>2 DEF FollowPhases, NothingPending
  <2> QED
    BY <2>1, <2>2
<1>8. QueuedFollowHasDrainer'
  <2>1. lock \in StopPhases \cup FollowHolders => lock' \in StopPhases \cup FollowHolders
    BY <1>6, HeldByStop
  <2> QED
    BY <2>1 DEF QueuedFollowHasDrainer
<1>9. EngineWatched'
  <2>1. is_follow(fsm) <=> is_follow(fsm')
    BY <1>0, FollowModesKept
  <2>2. lock' \in {"follow_backend", "follow_failed"} =>
          lock \in {"follow_backend", "follow_failed"}
    BY <1>5, <1>6 DEF FollowHolders
  <2> QED
    BY <2>1, <2>2 DEF EngineWatched, Defeated
<1> QED
  BY <1>1, <1>4, <1>7, <1>8, <1>9

\* A thread of follow keeps its command, and the others keep all of theirs.
ThreadsKept ==
  /\ follower' \in [FollowThreads -> FollowThread]
  /\ \A t \in FollowThreads :
       /\ follower'[t].pc = "unborn" => follower'[t].cmd = "none"
       /\ follower[t].cmd # "none" => follower'[t].cmd = follower[t].cmd

DrainersStay ==
  \A t \in FollowThreads : follower[t].pc = "draining" => follower'[t].pc = "draining"

LEMMA ArrivalKeeps ==
  ASSUME FollowFieldsOK, EngineWatched, NEW t \in FollowThreads, NEW cmd, NEW ok \in BOOLEAN,
         NEW pc \in {"queueing", "waiting", "answering"}, Arrives(t, cmd, pc, ok)
  PROVE  ThreadsKept /\ DrainersStay /\ follower'[t].cmd = cmd
<1>1. [pc |-> pc, cmd |-> cmd, ok |-> ok] \in FollowThread
  BY FollowInputsAssumption DEF Arrives, FollowThread
<1> QED
  BY <1>1 DEF Arrives, ThreadsKept, DrainersStay, FollowFieldsOK, EngineWatched

LEMMA GoingKeeps ==
  ASSUME FollowFieldsOK, EngineWatched, NEW t \in FollowThreads,
         NEW pc \in {"draining", "waiting", "done"}, Goes(t, pc)
  PROVE  /\ ThreadsKept /\ follower'[t].pc = pc
         /\ follower[t].pc # "draining" => DrainersStay
<1>1. follower' \in [FollowThreads -> FollowThread]
  BY DEF Goes, FollowFieldsOK, FollowThread
<1>2. \A u \in FollowThreads :
        /\ follower'[u].pc = IF u = t THEN pc ELSE follower[u].pc
        /\ follower'[u].cmd = follower[u].cmd
  BY DEF Goes, FollowFieldsOK, FollowThread
<1> QED
  BY <1>1, <1>2 DEF ThreadsKept, DrainersStay, EngineWatched

LEMMA StayingKeeps ==
  ASSUME FollowFieldsOK, EngineWatched, UNCHANGED follower
  PROVE  ThreadsKept /\ DrainersStay
BY DEF ThreadsKept, DrainersStay, FollowFieldsOK, EngineWatched

LEMMA DefeatStays ==
  ASSUME ThreadsKept, Defeated, unconfirmed => unconfirmed'
  PROVE  Defeated'
BY DEF ThreadsKept, Defeated

\* Whoever releases the mutex has looked at the queue.
LEMMA QueueKept ==
  ASSUME QueuedFollowHasDrainer, pending_follow' \in {pending_follow, NoRequest},
         \/ DrainersStay /\ (lock \in StopPhases \cup FollowHolders => lock' = lock)
         \/ lock' \in FollowHolders
         \/ lock' = Drain
  PROVE  QueuedFollowHasDrainer'
<1>1. CASE pending_follow' = NoRequest
  BY <1>1 DEF QueuedFollowHasDrainer
<1>2. CASE pending_follow' # NoRequest
  <2>1. pending_follow # NoRequest
    BY <1>2
  <2>2. CASE lock' \in FollowHolders \/ lock' = Drain
    BY <2>1, <2>2 DEF QueuedFollowHasDrainer, Drain, FollowHolders
  <2>3. CASE DrainersStay /\ (lock \in StopPhases \cup FollowHolders => lock' = lock)
    BY <2>1, <2>3 DEF QueuedFollowHasDrainer, DrainersStay
  <2> QED
    BY <2>2, <2>3
<1> QED
  BY <1>1, <1>2

\* The engine is not left moving outside a follow.
LEMMA WatchKept ==
  ASSUME EngineWatched, ThreadsKept, unconfirmed => unconfirmed', following' => following,
         is_follow(fsm) /\ following' => is_follow(fsm') \/ Defeated',
         lock' \in {"follow_backend", "follow_failed"} /\ following' =>
           lock = lock' \/ ~is_follow(fsm)
  PROVE  EngineWatched'
<1>1. Defeated => Defeated'
  BY DefeatStays
<1> QED
  BY <1>1 DEF EngineWatched, ThreadsKept

\* A step that concerns neither the state machine nor the mutex.
LEMMA AsideKeeps ==
  ASSUME FollowIInv, UNCHANGED <<vars, request>>, ThreadsKept, DrainersStay,
         \/ pending_follow' \in {pending_follow, NoRequest}
         \/ /\ pending_follow' \in Requests
            /\ \E t \in FollowThreads : follower'[t].pc = "draining",
         running' \in BOOLEAN, following' \in BOOLEAN, following' => following,
         UNCHANGED unconfirmed
  PROVE  FollowIInv' /\ FollowMoves
<1> USE DEF FollowIInv, FollowFieldsOK, vars, behaviour
<1>0. fsm \in RobotDto
  BY DEF FieldsOK
<1>1. FieldsOK' /\ Safe'
  BY <1>0, FollowFrame
<1>2. FollowFieldsOK'
  BY <1>1 DEF ThreadsKept
<1>3. FollowPhases'
  BY DEF FollowPhases, NothingPending, requests, machine
<1>4. QueuedFollowHasDrainer'
  <2>1. CASE pending_follow' \in {pending_follow, NoRequest}
    BY <2>1, QueueKept
  <2>2. CASE \E t \in FollowThreads : follower'[t].pc = "draining"
    BY <2>2 DEF QueuedFollowHasDrainer
  <2> QED
    BY <2>1, <2>2
<1>5. EngineWatched'
  BY WatchKept
<1> QED
  BY <1>1, <1>2, <1>3, <1>4, <1>5 DEF FollowMoves

\* The commands on their way to the mutex, and the answers that need none.
LEMMA CommandsKeep ==
  ASSUME FollowIInv, NEW t \in FollowThreads,
         \/ FollowReceived(t)
         \/ FollowQueued(t) \/ EstopAnswered(t) \/ GetFollowAnswered(t)
  PROVE  FollowIInv' /\ FollowMoves
<1> USE DEF engine
<1>0. /\ FollowFieldsOK /\ EngineWatched
      /\ running \in BOOLEAN /\ following \in BOOLEAN /\ follower[t] \in FollowThread
  BY DEF FollowIInv, FollowFieldsOK
<1>1. ASSUME NEW cmd, StartFollowReceived(t, cmd) PROVE FollowIInv' /\ FollowMoves
  <2>1. PICK pc \in {"queueing", "waiting"} : Arrives(t, cmd, pc, FALSE)
    BY <1>1 DEF StartFollowReceived
  <2>2. ThreadsKept /\ DrainersStay
    BY <1>0, <2>1, ArrivalKeeps
  <2> QED
    BY <1>0, <1>1, <2>2, AsideKeeps DEF StartFollowReceived
<1>2. ASSUME NEW cmd, StopFollowReceived(t, cmd) PROVE FollowIInv' /\ FollowMoves
  <2>1. ThreadsKept /\ DrainersStay
    BY <1>0, <1>2, ArrivalKeeps DEF StopFollowReceived
  <2> QED
    BY <1>0, <1>2, <2>1, AsideKeeps DEF StopFollowReceived
<1>3. ASSUME NEW outcome, EstopReceived(t, outcome) PROVE FollowIInv' /\ FollowMoves
  <2>1. ThreadsKept /\ DrainersStay
    BY <1>0, <1>3, ArrivalKeeps DEF EstopReceived
  <2>2. following' \in BOOLEAN /\ (following' => following)
    BY <1>3 DEF EstopReceived
  <2> QED
    BY <1>0, <1>3, <2>1, <2>2, AsideKeeps DEF EstopReceived
<1>4. CASE GetFollowReceived(t)
  <2>1. ThreadsKept /\ DrainersStay
    BY <1>0, <1>4, ArrivalKeeps DEF GetFollowReceived
  <2> QED
    BY <1>0, <1>4, <2>1, AsideKeeps DEF GetFollowReceived
<1>5. CASE FollowQueued(t)
  <2>1. ThreadsKept /\ DrainersStay /\ follower'[t].pc = "draining"
    BY <1>0, <1>5, GoingKeeps DEF FollowQueued
  <2>2. pending_follow' \in Requests
    BY <1>5 DEF FollowQueued, RequestOf, Requests
  <2> QED
    BY <1>0, <1>5, <2>1, <2>2, AsideKeeps DEF FollowQueued
<1>6. CASE EstopAnswered(t) \/ GetFollowAnswered(t)
  <2>1. ThreadsKept /\ DrainersStay
    BY <1>0, <1>6, GoingKeeps DEF EstopAnswered, GetFollowAnswered
  <2>2. running' \in BOOLEAN
    BY <1>0, <1>6 DEF EstopAnswered, GetFollowAnswered, FollowThread
  <2> QED
    BY <1>0, <1>6, <2>1, <2>2, AsideKeeps DEF EstopAnswered, GetFollowAnswered
<1> QED
  BY <1>1, <1>2, <1>3, <1>4, <1>5, <1>6 DEF FollowReceived

\* A follow that begins, with the mutex newly taken or kept from the last transition.
LEMMA BeginKeeps ==
  ASSUME FollowIInv, NEW r \in Requests, BeginFollow(r), follow_decision(fsm) = "Start",
         ThreadsKept, pending_follow' \in {pending_follow, NoRequest}
  PROVE  FollowIInv' /\ FollowMoves
<1> USE DEF FollowIInv
<1>1. FieldsOK /\ Safe
  BY DEF FollowFieldsOK
<1>2. /\ FieldsOK' /\ Safe' /\ NothingPending'
      /\ fsm.motion_mode \in {"Idle"} \cup NavigationModes
      /\ fsm'.motion_mode = "Stopping"
      /\ fsm'.generation = fsm.generation + 1
  BY <1>1, FollowBegins
<1>3. /\ request' = r /\ lock' = "follow_check" /\ active_command' = NoCommand
      /\ UNCHANGED <<running, following, unconfirmed>>
  BY DEF BeginFollow, invalidate_navigation_requests, engine
<1>4. FollowFieldsOK'
  BY <1>2, <1>3 DEF FollowFieldsOK, ThreadsKept, FollowHolders
<1>5. FollowPhases'
  BY <1>2, <1>3 DEF FollowPhases
<1>6. QueuedFollowHasDrainer'
  BY <1>3 DEF QueuedFollowHasDrainer, FollowHolders
<1>7. ~is_follow(fsm)
  BY <1>2 DEF is_follow, FollowModes, NavigationModes
<1>8. EngineWatched'
  BY <1>3, <1>7, WatchKept
<1> QED
  BY <1>2, <1>4, <1>5, <1>6, <1>8 DEF FollowMoves

\* The stop that follow needed is over: a follow, or a fault.
LEMMA GoneKeeps ==
  ASSUME FollowIInv, FollowFindsNothing \/ FollowVerifies
  PROVE  FollowIInv' /\ FollowMoves
<1> USE DEF FollowIInv
<1>1. /\ FieldsOK /\ Safe /\ fsm \in RobotDto /\ fsm.motion_mode = "Stopping"
      /\ NothingPending /\ request \in Requests
  BY DEF FollowFieldsOK, FieldsOK, FollowPhases, FollowFindsNothing, FollowVerifies
<1>2. PICK clean \in BOOLEAN :
        /\ NavigationGone(clean)
        /\ clean => ~environment
        /\ nav_process' = "none"
        /\ navigation_env_ready' \in BOOLEAN /\ localization_ready_flag' \in BOOLEAN
        /\ UNCHANGED <<environment, odometry>>
  <2>1. CASE FollowFindsNothing
    BY <1>1, <2>1 DEF FollowFindsNothing, is_navigation_environment_running, ForgetDeadProcess,
                      flags, FieldsOK
  <2>2. CASE FollowVerifies
    <3>1. nav_process = "none"
      BY <2>2 DEF FollowVerifies, FollowPhases
    <3> QED
      BY <2>2, <3>1 DEF FollowVerifies, IsClean, is_navigation_environment_running,
                        ForgetsNavigation, ForgetDeadProcess
  <2> QED
    BY <2>1, <2>2
<1>3. /\ fsm' \in RobotDto /\ fsm'.generation = fsm.generation
      /\ ~fsm'.navigation_environment_ready
      /\ fsm'.motion_mode = IF ~clean THEN "Failed"
                            ELSE IF request = "http" THEN "StartingFollow" ELSE "Following"
  <2>1. CASE ~clean \/ request = "http"
    BY <1>1, <1>2, <2>1, FollowFields DEF NavigationGone, Requests
  <2>2. CASE clean /\ request # "http"
    <3> DEFINE f == stopped(fsm, TRUE, TRUE)
    <3>1. fsm' = follow_started(f, TRUE)
      BY <1>1, <1>2, <2>2 DEF NavigationGone, Requests
    <3>2. /\ f \in RobotDto /\ f.motion_mode = "StartingFollow"
          /\ f.generation = fsm.generation /\ f.navigation_environment_ready = FALSE
      BY <1>1, FollowFields
    <3> HIDE DEF f
    <3> QED
      BY <2>2, <3>1, <3>2, FollowFields
  <2> QED
    BY <2>1, <2>2
<1>4. /\ lock' = IF clean /\ request = "http" THEN "follow_backend" ELSE Drain
      /\ request' \in {request, NoRequest}
      /\ UNCHANGED <<active_command, requests, threads, follower, pending_follow, running,
                     following, unconfirmed>>
  BY <1>2 DEF NavigationGone, engine
<1>5. lock' \in {Free, "follow_backend", "follow_drain"} /\ {"follow_backend", "follow_drain"} \subseteq FollowHolders
  BY <1>4 DEF Drain, FollowHolders
<1>6. FieldsOK' /\ Safe'
  <2>1. is_follow(fsm') => ~environment
    BY <1>2, <1>3 DEF is_follow, FollowModes
  <2>2. fsm'.motion_mode \in FollowModes \cup {"Idle", "Failed"}
    BY <1>3 DEF FollowModes
  <2> QED
    BY <1>1, <1>2, <1>3, <1>4, <1>5, <2>1, <2>2, StoppingEnds
<1>7. FollowFieldsOK'
  BY <1>4, <1>5, <1>6 DEF FollowFieldsOK
<1>8. FollowPhases'
  BY <1>3, <1>4, <1>5 DEF FollowPhases, Free, Drain
<1>9. ThreadsKept /\ DrainersStay /\ ~is_follow(fsm)
  BY <1>1, <1>4, StayingKeeps DEF is_follow, FollowModes
<1>10. QueuedFollowHasDrainer'
  BY <1>4, <1>5, QueueKept
<1>11. EngineWatched'
  BY <1>4, <1>9, WatchKept
<1> QED
  BY <1>1, <1>3, <1>6, <1>7, <1>8, <1>10, <1>11 DEF FollowMoves, FollowModes

\* Killing navigation on the way.
LEMMA CleansKeep ==
  ASSUME FollowIInv, FollowCleansUp
  PROVE  FollowIInv' /\ FollowMoves
<1> USE DEF FollowIInv
<1>1. FieldsOK /\ Safe /\ fsm.motion_mode = "Stopping" /\ NothingPending /\ request \in Requests
  BY DEF FollowFieldsOK, FollowPhases, FollowCleansUp
<1>2. /\ lock' \in {"follow_verify", "follow_survivor"} /\ nav_process' = "none"
      /\ UNCHANGED <<fsm, active_command, pending, follower, pending_follow, request, running,
                     following, unconfirmed>>
  BY DEF FollowCleansUp, CleansUp, requests, follow_vars, engine
<1>3. FieldsOK' /\ Safe'
  BY <1>1, FollowCleans
<1>4. FollowFieldsOK'
  BY <1>2, <1>3 DEF FollowFieldsOK, FollowHolders
<1>5. FollowPhases'
  BY <1>1, <1>2 DEF FollowPhases, NothingPending
<1>6. ThreadsKept /\ DrainersStay
  BY <1>2, StayingKeeps
<1>7. QueuedFollowHasDrainer'
  BY <1>2 DEF QueuedFollowHasDrainer, FollowHolders
<1>8. EngineWatched'
  BY <1>2, <1>6, WatchKept
<1> QED
  BY <1>2, <1>3, <1>4, <1>5, <1>7, <1>8 DEF FollowMoves

\* Draining a queue that has nothing to start, and calling the engine.
LEMMA PassesKeep ==
  ASSUME FollowIInv,
         \/ \E t \in FollowThreads : FollowDrainer(t)
         \/ FollowDrained /\ ~(pending_follow # NoRequest /\ follow_decision(fsm) = "Start")
         \/ \E outcome \in Outcomes : EngineCalled(outcome)
  PROVE  FollowIInv' /\ FollowMoves
<1> USE DEF FollowIInv
<1>0. FieldsOK /\ fsm \in RobotDto /\ FollowFieldsOK /\ EngineWatched
  BY DEF FollowFieldsOK, FieldsOK
<1>1. /\ UNCHANGED <<fsm, active_command, requests, threads, flags, machine, request, running>>
      /\ pending_follow' \in {pending_follow, NoRequest}
      /\ lock' \in {Free, "follow_drain", "follow_answered", "follow_failed"}
      /\ lock' \in {"follow_answered", "follow_failed"} => lock = "follow_backend"
  <2>1. ASSUME NEW t \in FollowThreads, FollowDrainer(t)
        PROVE  /\ UNCHANGED <<fsm, active_command, requests, threads, flags, machine,
                              request, running, pending_follow>>
               /\ lock' \in {Free, "follow_drain"}
    BY <2>1 DEF FollowDrainer, Drain
  <2>2. CASE FollowDrained /\ ~(pending_follow # NoRequest /\ follow_decision(fsm) = "Start")
    <3>1. /\ UNCHANGED <<fsm, active_command, requests, threads, flags, machine, request, running>>
          /\ pending_follow' = NoRequest /\ lock' = Free
      BY <2>2 DEF FollowDrained
    <3> QED
      BY <3>1 DEF Free
  <2>3. ASSUME NEW outcome, EngineCalled(outcome)
        PROVE  /\ UNCHANGED <<fsm, active_command, requests, threads, flags, machine,
                              request, running, pending_follow>>
               /\ lock = "follow_backend" /\ lock' \in {"follow_answered", "follow_failed"}
    BY <2>3 DEF EngineCalled
  <2> QED
    BY <2>1, <2>2, <2>3 DEF Free
<1>2. lock' \in {Free} \cup FollowHolders
  BY <1>1 DEF FollowHolders
<1>3. FieldsOK' /\ Safe'
  BY <1>0, <1>1, <1>2, FollowFrame
<1>4. ThreadsKept
  <2>1. ASSUME NEW t \in FollowThreads, FollowDrainer(t) PROVE ThreadsKept
    BY <1>0, <2>1, GoingKeeps DEF FollowDrainer
  <2>2. CASE UNCHANGED follower
    BY <1>0, <2>2, StayingKeeps
  <2> QED
    BY <2>1, <2>2 DEF FollowDrained, EngineCalled
<1>5. following' \in BOOLEAN /\ unconfirmed' \in BOOLEAN
  BY <1>0 DEF FollowFieldsOK, FollowDrainer, FollowDrained, EngineCalled, engine
<1>6. FollowFieldsOK'
  BY <1>0, <1>1, <1>2, <1>3, <1>4, <1>5 DEF FollowFieldsOK, ThreadsKept
<1>7. FollowPhases'
  BY <1>1 DEF FollowPhases, Free
<1>8. QueuedFollowHasDrainer'
  <2>1. ASSUME NEW t \in FollowThreads, FollowDrainer(t) PROVE QueuedFollowHasDrainer'
    BY <2>1, QueueKept DEF FollowDrainer
  <2>2. CASE FollowDrained
    BY <2>2 DEF FollowDrained, QueuedFollowHasDrainer
  <2>3. ASSUME NEW outcome, EngineCalled(outcome) PROVE QueuedFollowHasDrainer'
    BY <2>3 DEF EngineCalled, QueuedFollowHasDrainer, FollowHolders
  <2> QED
    BY <2>1, <2>2, <2>3
<1>9. EngineWatched'
  <2>1. CASE UNCHANGED <<following, unconfirmed>> /\ lock' \in {Free, "follow_drain"}
    BY <1>1, <1>4, <2>1, WatchKept DEF Free
  <2>2. ASSUME NEW outcome \in Outcomes, EngineCalled(outcome) PROVE EngineWatched'
    <3>0. outcome \in {"done", "refused", "lost"}
      BY FollowInputsAssumption DEF AllOutcomes
    <3>1. is_follow(fsm') /\ lock = "follow_backend"
      BY <1>1, <2>2 DEF EngineCalled, FollowPhases, is_follow, FollowModes
    <3>2. Defeated => Defeated'
      BY <1>4, <2>2, DefeatStays DEF EngineCalled
    <3>3. following' /\ lock' = "follow_failed" => Defeated'
      <4>1. CASE outcome = "lost"
        BY <2>2, <4>1 DEF EngineCalled, Defeated
      <4>2. CASE outcome = "refused"
        BY <2>2, <3>1, <3>2, <4>2 DEF EngineCalled, EngineWatched
      <4>3. CASE outcome = "done"
        BY <2>2, <4>3 DEF EngineCalled
      <4> QED
        BY <3>0, <4>1, <4>2, <4>3
    <3>4. lock' # "follow_backend"
      BY <2>2 DEF EngineCalled
    <3> QED
      BY <1>4, <3>1, <3>3, <3>4 DEF EngineWatched, ThreadsKept
  <2> QED
    BY <1>1, <2>1, <2>2 DEF FollowDrainer, FollowDrained, engine, Drain
<1> QED
  BY <1>1, <1>3, <1>6, <1>7, <1>8, <1>9 DEF FollowMoves

\* The engine has answered.
LEMMA AnswersKeep ==
  ASSUME FollowIInv, FollowStarted \/ FollowFailed
  PROVE  FollowIInv' /\ FollowMoves
<1> USE DEF FollowIInv
<1>0. /\ FieldsOK /\ Safe /\ fsm \in RobotDto /\ FollowFieldsOK /\ EngineWatched
      /\ fsm.motion_mode = "StartingFollow" /\ is_follow(fsm)
  BY DEF FollowFieldsOK, FieldsOK, FollowPhases, FollowStarted, FollowFailed, is_follow, FollowModes
<1>1. /\ UNCHANGED <<active_command, requests, threads, flags, machine, follower, pending_follow,
                     following, unconfirmed>>
      /\ running' \in BOOLEAN /\ request' = NoRequest /\ lock' = Drain
  BY <1>0 DEF FollowStarted, FollowFailed, engine, FollowFieldsOK
<1>2. /\ fsm' \in RobotDto /\ fsm'.generation = fsm.generation
      /\ fsm'.navigation_environment_ready => fsm.navigation_environment_ready
      /\ fsm'.motion_mode = IF lock = "follow_failed" THEN "Failed" ELSE "Following"
  <2>1. CASE FollowStarted
    BY <1>0, <2>1, FollowFields DEF FollowStarted
  <2>2. CASE FollowFailed
    BY <1>0, <2>2, FollowFields DEF FollowFailed
  <2> QED
    BY <2>1, <2>2
<1>3. lock' \in {Free, "follow_drain"} /\ "follow_drain" \in FollowHolders
  BY <1>1 DEF Drain, FollowHolders
<1>4. fsm'.motion_mode \in FollowModes \cup {"Failed"}
  BY <1>2 DEF FollowModes
<1>5. FieldsOK' /\ Safe'
  BY <1>0, <1>1, <1>2, <1>3, <1>4, FollowFrame
<1>6. FollowFieldsOK'
  BY <1>1, <1>3, <1>5 DEF FollowFieldsOK
<1>7. FollowPhases'
  BY <1>3 DEF FollowPhases, Free
<1>8. QueuedFollowHasDrainer'
  BY <1>1, QueueKept
<1>9. EngineWatched'
  <2>1. ThreadsKept
    BY <1>0, <1>1, StayingKeeps
  <2>2. Defeated => Defeated'
    BY <1>1, <2>1, DefeatStays
  <2>3. following' => is_follow(fsm') \/ Defeated'
    BY <1>1, <1>2, <2>2 DEF EngineWatched, is_follow, FollowModes
  <2> QED
    BY <1>1, <1>3, <2>1, <2>3, WatchKept DEF Free
<1> QED
  BY <1>0, <1>2, <1>4, <1>5, <1>6, <1>7, <1>8, <1>9 DEF FollowMoves

\* A follow is stopped, or its emergency stop recorded.
LEMMA StopsKeep ==
  ASSUME FollowIInv, NEW t \in FollowThreads,
         EstopRecorded(t) \/ \E outcome \in Outcomes : FollowStopped(t, outcome)
  PROVE  FollowIInv' /\ FollowMoves
<1> USE DEF FollowIInv
<1>0. /\ FieldsOK /\ Safe /\ fsm \in RobotDto /\ FollowFieldsOK /\ EngineWatched
      /\ running \in BOOLEAN /\ following \in BOOLEAN
  BY DEF FollowFieldsOK, FieldsOK
<1>1. /\ UNCHANGED <<lock, active_command, requests, threads, flags, machine, pending_follow,
                     request, unconfirmed>>
      /\ lock = Free /\ follower[t].pc = "waiting" /\ Goes(t, "done")
      /\ running' \in BOOLEAN /\ following' \in BOOLEAN /\ (following' => following)
      /\ fsm' \in {fsm, follow_stopped(fsm, TRUE), follow_stopped(fsm, FALSE)}
  BY <1>0 DEF EstopRecorded, FollowStopped, engine
<1>2. ThreadsKept /\ DrainersStay
  BY <1>0, <1>1, GoingKeeps
<1>3. \/ UNCHANGED fsm
      \/ /\ is_follow(fsm) /\ fsm' \in RobotDto
         /\ fsm'.motion_mode \in {"Idle", "Failed"}
         /\ fsm'.generation = fsm.generation + 1
         /\ fsm'.navigation_environment_ready = FALSE
  <2>1. CASE fsm' = follow_stopped(fsm, TRUE)
    BY <1>0, <2>1, FollowFields
  <2>2. CASE fsm' = follow_stopped(fsm, FALSE)
    BY <1>0, <2>2, FollowFields
  <2> QED
    BY <1>1, <2>1, <2>2
<1>4. FieldsOK' /\ Safe'
  BY <1>0, <1>1, <1>3, FollowFrame
<1>5. FollowFieldsOK'
  BY <1>0, <1>1, <1>2, <1>4 DEF FollowFieldsOK, ThreadsKept
<1>6. FollowPhases'
  BY <1>1 DEF FollowPhases, Free
<1>7. QueuedFollowHasDrainer'
  BY <1>1, <1>2, QueueKept
<1>8. EngineWatched'
  <2>1. following' => UNCHANGED fsm \/ follower[t].cmd \in {"http_estop", "stop_follow"}
    BY <1>1 DEF EstopRecorded, FollowStopped
  <2>2. follower[t].cmd \in {"http_estop", "stop_follow"} => Defeated'
    BY <1>2 DEF ThreadsKept, Defeated
  <2> QED
    BY <1>1, <1>2, <2>1, <2>2, WatchKept
<1> QED
  BY <1>3, <1>4, <1>5, <1>6, <1>7, <1>8 DEF FollowMoves

\* A stop_navigation that ends, and leaves its mutex to the queue of follow.
LEMMA NavigationStopKeeps ==
  ASSUME FollowIInv, StopVerifiesAndDrains
  PROVE  FollowIInv' /\ FollowMoves
<1> USE DEF FollowIInv
<1>0. /\ FieldsOK /\ Safe /\ fsm \in RobotDto /\ FollowFieldsOK /\ EngineWatched
      /\ fsm.motion_mode = "Stopping" /\ NothingPending /\ nav_process = "none"
  BY DEF FollowFieldsOK, FieldsOK, Safe, Phases, StopPhases, StopVerifiesAndDrains, StopEnds
<1>1. /\ fsm' = stopped(fsm, IsClean("stop_verify"), FALSE)
      /\ nav_process' = "none" /\ lock' = Drain
      /\ navigation_env_ready' = FALSE /\ localization_ready_flag' = FALSE
      /\ UNCHANGED <<active_command, requests, threads, environment, odometry>>
      /\ UNCHANGED <<follower, pending_follow, request, running, following, unconfirmed>>
  BY <1>0 DEF StopVerifiesAndDrains, StopEnds, ForgetsNavigation, ForgetDeadProcess, follow_vars,
              engine
<1>2. /\ fsm' \in RobotDto /\ fsm'.motion_mode \in {"Idle", "Failed"}
      /\ fsm'.generation = fsm.generation /\ ~fsm'.navigation_environment_ready
  <2>1. IsClean("stop_verify") \in BOOLEAN
    BY DEF IsClean
  <2> QED
    BY <1>0, <1>1, <2>1, FollowFields
<1>3. ~is_follow(fsm) /\ ~is_follow(fsm')
  BY <1>0, <1>2 DEF is_follow, FollowModes
<1>4. lock' \in {Free, "follow_drain"} /\ "follow_drain" \in FollowHolders
  BY <1>1 DEF Drain, FollowHolders
<1>5. FieldsOK' /\ Safe'
  BY <1>0, <1>1, <1>2, <1>3, <1>4, StoppingEnds
<1>6. FollowFieldsOK'
  BY <1>1, <1>4, <1>5 DEF FollowFieldsOK
<1>7. FollowPhases'
  BY <1>4 DEF FollowPhases, Free
<1>8. ThreadsKept /\ DrainersStay
  BY <1>0, <1>1, StayingKeeps
<1>9. QueuedFollowHasDrainer'
  BY <1>1, QueueKept
<1>10. EngineWatched'
  BY <1>1, <1>3, <1>8, WatchKept
<1> QED
  BY <1>0, <1>2, <1>5, <1>6, <1>7, <1>9, <1>10 DEF FollowMoves

FollowStep ==
  \/ StopVerifiesAndDrains
  \/ \E t \in FollowThreads : FollowReceived(t) \/ FollowThreadStep(t)
  \/ FollowStartStep
  \/ EngineGivesUp

\* The steps of follow one by one.
LEMMA FollowStepKeeps ==
  ASSUME FollowIInv, FollowStep
  PROVE  FollowIInv' /\ FollowMoves
<1>0. FollowFieldsOK /\ EngineWatched /\ running \in BOOLEAN
  BY DEF FollowIInv, FollowFieldsOK
<1>1. CASE StopVerifiesAndDrains
  BY <1>1, NavigationStopKeeps
<1>2. ASSUME NEW t \in FollowThreads, FollowReceived(t) PROVE FollowIInv' /\ FollowMoves
  BY <1>2, CommandsKeep
<1>3. ASSUME NEW t \in FollowThreads, FollowThreadStep(t) PROVE FollowIInv' /\ FollowMoves
  <2>1. CASE FollowQueued(t) \/ EstopAnswered(t) \/ GetFollowAnswered(t)
    BY <2>1, CommandsKeep
  <2>2. CASE StartFollowDecided(t)
    <3>1. ThreadsKept /\ DrainersStay
      BY <1>0, <2>2, GoingKeeps DEF StartFollowDecided
    <3>2. CASE follow_decision(fsm) = "Start"
      <4>1. RequestOf(follower[t].cmd) \in Requests
        BY DEF RequestOf, Requests
      <4> QED
        BY <2>2, <3>1, <3>2, <4>1, BeginKeeps DEF StartFollowDecided
    <3>3. CASE follow_decision(fsm) # "Start"
      <4>1. UNCHANGED <<vars, pending_follow, request, running, following, unconfirmed>>
        BY <2>2, <3>3 DEF StartFollowDecided, engine
      <4>2. following \in BOOLEAN
        BY <1>0 DEF FollowFieldsOK
      <4> QED
        BY <1>0, <3>1, <4>1, <4>2, AsideKeeps
    <3> QED
      BY <3>2, <3>3
  <2>3. CASE FollowDrainer(t)
    BY <2>3, PassesKeep
  <2>4. CASE EstopRecorded(t) \/ \E outcome \in Outcomes : FollowStopped(t, outcome)
    BY <2>4, StopsKeep
  <2> QED
    BY <1>3, <2>1, <2>2, <2>3, <2>4 DEF FollowThreadStep
<1>4. CASE FollowStartStep
  <2>1. CASE FollowFindsNothing \/ FollowVerifies
    BY <2>1, GoneKeeps
  <2>2. CASE FollowCleansUp
    BY <2>2, CleansKeep
  <2>3. CASE FollowStarted \/ FollowFailed
    BY <2>3, AnswersKeep
  <2>4. CASE FollowDrained /\ pending_follow # NoRequest /\ follow_decision(fsm) = "Start"
    <3>1. /\ pending_follow \in Requests /\ BeginFollow(pending_follow)
          /\ pending_follow' = NoRequest /\ UNCHANGED follower
      BY <1>0, <2>4 DEF FollowDrained, FollowFieldsOK
    <3>2. ThreadsKept
      BY <1>0, <3>1, StayingKeeps
    <3> QED
      BY <2>4, <3>1, <3>2, BeginKeeps
  <2>5. CASE FollowDrained /\ ~(pending_follow # NoRequest /\ follow_decision(fsm) = "Start")
    BY <2>5, PassesKeep
  <2>6. CASE \E outcome \in Outcomes : EngineCalled(outcome)
    BY <2>6, PassesKeep
  <2> QED
    BY <1>4, <2>1, <2>2, <2>3, <2>4, <2>5, <2>6 DEF FollowStartStep
<1>5. CASE EngineGivesUp
  <2>1. ThreadsKept /\ DrainersStay
    BY <1>0, <1>5, StayingKeeps DEF EngineGivesUp
  <2> QED
    BY <1>0, <1>5, <2>1, AsideKeeps DEF EngineGivesUp
<1> QED
  BY <1>1, <1>2, <1>3, <1>4, <1>5 DEF FollowStep

LEMMA FollowRejectionKeeps ==
  ASSUME FollowIInv, StopRejected, UNCHANGED follow_vars
  PROVE  FollowIInv' /\ UNCHANGED fsm
<1> USE DEF FollowIInv, follow_vars, engine, behaviour, requests, flags, machine
<1>1. FieldsOK' /\ Safe'
  BY RejectionHarmless DEF FollowFieldsOK
<1>2. UNCHANGED <<fsm, lock, active_command, pending, nav_process>>
  BY DEF StopRejected
<1>3. FollowFieldsOK'
  BY <1>1, <1>2 DEF FollowFieldsOK
<1>4. FollowPhases' /\ QueuedFollowHasDrainer' /\ EngineWatched'
  BY <1>2 DEF FollowPhases, NothingPending, QueuedFollowHasDrainer, EngineWatched, Defeated
<1> QED
  BY <1>1, <1>2, <1>3, <1>4

LEMMA FollowPreserved == FollowIInv /\ [FollowNext]_all_vars => FollowIInv'
<1>1. CASE UNCHANGED all_vars
  BY <1>1, FollowUndisturbed DEF all_vars
<1>2. CASE Step /\ UNCHANGED follow_vars
  BY <1>2, FollowUndisturbed
<1>3. CASE StopRejected /\ UNCHANGED follow_vars
  BY <1>3, FollowRejectionKeeps
<1> QED
  BY <1>1, <1>2, <1>3, FollowStepKeeps DEF FollowNext, FollowStep

\* Follow on its way through the stop of navigation.
Preempting == lock \in {"follow_check", "follow_verify", "follow_survivor"}

\* What the steps of follow do to the mutex and to the gate: they take neither from a
\* command that has it, and a follow begins by emptying the gate.
LEMMA FollowHolds ==
  ASSUME FollowFieldsOK, FollowStep
  PROVE  /\ \/ lock' = lock
            \/ /\ lock \in {Free} \cup FollowHolders \cup StopPhases
               /\ lock' \in {Free} \cup FollowHolders
         /\ \/ active_command' = NoCommand
            \/ /\ active_command' = active_command
               /\ is_follow(fsm') \/ Preempting' => is_follow(fsm) \/ Preempting
<1> USE DEF vars, behaviour, follow_vars
<1> DEFINE Held ==
      /\ \/ lock' = lock
         \/ /\ lock \in {Free} \cup FollowHolders \cup StopPhases
            /\ lock' \in {Free} \cup FollowHolders
      /\ \/ active_command' = NoCommand
         \/ /\ active_command' = active_command
            /\ is_follow(fsm') \/ Preempting' => is_follow(fsm) \/ Preempting
<1>0. /\ fsm \in RobotDto
      /\ "stop_verify" \in StopPhases /\ "stop_survivor" \in StopPhases
      /\ {"follow_check", "follow_verify", "follow_survivor", "follow_backend",
          "follow_answered", "follow_failed", "follow_drain"} = FollowHolders
      /\ Drain \in {Free, "follow_drain"}
  BY DEF FollowFieldsOK, FieldsOK, StopPhases, FollowHolders, Drain
<1>1. ASSUME UNCHANGED <<fsm, lock, active_command>> PROVE Held
  BY <1>1 DEF Preempting
<1>2. ASSUME NEW r, BeginFollow(r), lock \in {Free, "follow_drain"} PROVE Held
  BY <1>0, <1>2 DEF BeginFollow, invalidate_navigation_requests
<1>3. ASSUME UNCHANGED active_command, lock \in {Free} \cup FollowHolders \cup StopPhases,
             lock' \in {Free, "follow_drain"}, is_follow(fsm') => is_follow(fsm) \/ Preempting
      PROVE  Held
  BY <1>0, <1>3 DEF Preempting, Free
<1>4. ASSUME NEW t \in FollowThreads, FollowReceived(t) PROVE Held
  BY <1>1, <1>4 DEF FollowReceived, StartFollowReceived, StopFollowReceived, EstopReceived,
                    GetFollowReceived
<1>5. ASSUME NEW t \in FollowThreads, FollowThreadStep(t) PROVE Held
  <2>1. CASE FollowQueued(t) \/ EstopAnswered(t) \/ GetFollowAnswered(t)
    BY <1>1, <2>1 DEF FollowQueued, EstopAnswered, GetFollowAnswered
  <2>2. CASE StartFollowDecided(t)
    BY <1>1, <1>2, <2>2 DEF StartFollowDecided
  <2>3. CASE FollowDrainer(t)
    BY <1>0, <1>3, <2>3 DEF FollowDrainer
  <2>4. CASE EstopRecorded(t) \/ \E outcome \in Outcomes : FollowStopped(t, outcome)
    <3>1. /\ UNCHANGED <<lock, active_command>>
          /\ fsm' \in {fsm, follow_stopped(fsm, TRUE), follow_stopped(fsm, FALSE)}
      BY <2>4 DEF EstopRecorded, FollowStopped
    <3>2. is_follow(fsm') => is_follow(fsm)
      BY <3>1 DEF follow_stopped
    <3> QED
      BY <3>1, <3>2 DEF Preempting
  <2> QED
    BY <1>5, <2>1, <2>2, <2>3, <2>4 DEF FollowThreadStep
<1>6. CASE FollowStartStep
  <2>1. CASE FollowFindsNothing \/ FollowVerifies
    <3>1. Preempting /\ UNCHANGED active_command /\ lock' \in {"follow_backend", Drain}
      BY <2>1 DEF FollowFindsNothing, FollowVerifies, NavigationGone, Preempting
    <3> QED
      BY <1>0, <3>1 DEF Preempting
  <2>2. CASE FollowCleansUp
    BY <1>0, <2>2 DEF FollowCleansUp, CleansUp, Preempting
  <2>3. CASE \E outcome \in Outcomes : EngineCalled(outcome)
    BY <1>0, <2>3 DEF EngineCalled, Preempting
  <2>4. CASE FollowStarted
    <3>1. is_follow(fsm') => is_follow(fsm)
      BY <2>4 DEF FollowStarted, follow_started, is_follow, FollowModes
    <3> QED
      BY <1>0, <1>3, <2>4, <3>1 DEF FollowStarted
  <2>5. CASE FollowFailed
    <3>1. ~is_follow(fsm')
      BY <1>0, <2>5, FollowFields DEF FollowFailed, is_follow, FollowModes
    <3> QED
      BY <1>0, <1>3, <2>5, <3>1 DEF FollowFailed
  <2>6. CASE FollowDrained
    <3>1. CASE \E r : BeginFollow(r)
      BY <1>2, <2>6, <3>1 DEF FollowDrained
    <3>2. CASE lock' = Free /\ UNCHANGED <<fsm, active_command>>
      BY <1>0, <1>3, <2>6, <3>2 DEF FollowDrained
    <3> QED
      BY <2>6, <3>1, <3>2 DEF FollowDrained
  <2> QED
    BY <1>6, <2>1, <2>2, <2>3, <2>4, <2>5, <2>6 DEF FollowStartStep
<1>7. CASE StopVerifiesAndDrains
  <2>1. ~is_follow(fsm')
    <3>1. IsClean("stop_verify") \in BOOLEAN
      BY DEF IsClean
    <3> QED
      BY <1>0, <1>7, <3>1, FollowFields DEF StopVerifiesAndDrains, StopEnds, is_follow, FollowModes
  <2> QED
    BY <1>0, <1>3, <1>7, <2>1 DEF StopVerifiesAndDrains, StopEnds
<1>8. CASE EngineGivesUp
  BY <1>1, <1>8 DEF EngineGivesUp
<1> QED
  BY <1>4, <1>5, <1>6, <1>7, <1>8 DEF FollowStep

LEMMA FollowTyped == FollowInit => FollowTypeOK
BY FollowInitially DEF FollowInit, Init, FollowIInv, FollowTypeOK

LEMMA FollowTypesKept ==
  ASSUME FollowIInv, FollowIInv', FollowTypeOK, [FollowNext]_all_vars
  PROVE  FollowTypeOK'
<1> USE DEF FollowTypeOK, FollowIInv, FollowFieldsOK
<1>1. CASE [Next]_vars
  BY <1>1, HolderStep
<1>2. CASE FollowStep
  BY <1>2, FollowHolds
<1>3. CASE StopRejected
  BY <1>3 DEF StopRejected, behaviour
<1> QED
  BY <1>1, <1>2, <1>3 DEF FollowNext, FollowStep, Next, all_vars

\* The invariant holds in every reachable state.
LEMMA FollowAlways == FollowSpec => [](FollowIInv /\ FollowTypeOK)
BY FollowInitially, FollowTyped, FollowPreserved, FollowTypesKept, PTL DEF FollowSpec

\* FollowInv of Follow: navigation is down as long as a follow runs, and a follow that was
\* queued behind a stop is never forgotten.
THEOREM FollowRunsAlone == FollowSpec => []FollowInv
<1>1. FollowIInv /\ FollowTypeOK => FollowInv
  <2>1. FollowIInv /\ FollowTypeOK => FollowingAlone
    BY DEF FollowIInv, FollowFieldsOK, FollowTypeOK, FollowingAlone, Safe, NoNavigationLeft,
           NothingPending, is_follow, is_navigation, FollowModes, NavigationModes
  <2> QED
    BY <2>1 DEF FollowIInv, FollowInv
<1> QED
  BY <1>1, FollowAlways, PTL

\* EngineOnlyInFollow of Follow: the engine moves the robot outside a follow only after a
\* lost answer, an emergency stop or a stop that trusted running_.
THEOREM EngineObeys == FollowSpec => []EngineOnlyInFollow
<1>1. FollowIInv => EngineOnlyInFollow
  BY DEF FollowIInv, EngineWatched, Defeated, EngineOnlyInFollow
<1> QED
  BY <1>1, FollowAlways, PTL

LEMMA FollowMovesAsArbiter ==
  ASSUME FollowMoves
  PROVE  [Arbiter!ArbiterNext]_<<OwnerOf(fsm.motion_mode), fsm.generation>>
<1> USE DEF OwnerOf, NavigationModes, FollowModes, MappingModes, is_follow
<1>1. CASE fsm'.generation = fsm.generation /\ fsm'.motion_mode = fsm.motion_mode
  BY <1>1
<1>2. CASE /\ fsm.motion_mode \in {"Idle"} \cup NavigationModes /\ fsm'.motion_mode = "Stopping"
           /\ fsm'.generation = fsm.generation + 1
  BY <1>2 DEF Arbiter!ArbiterNext, Arbiter!Revoke
<1>3. CASE /\ fsm.motion_mode = "Stopping" /\ fsm'.motion_mode \in FollowModes \cup {"Idle", "Failed"}
           /\ fsm'.generation = fsm.generation
  BY <1>3 DEF Arbiter!ArbiterNext, Arbiter!Settle
<1>4. CASE /\ is_follow(fsm) /\ fsm'.motion_mode \in FollowModes
           /\ fsm'.generation = fsm.generation
  BY <1>4
<1>5. CASE /\ is_follow(fsm) /\ fsm'.motion_mode = "Failed"
           /\ fsm'.generation = fsm.generation
  BY <1>5 DEF Arbiter!ArbiterNext, Arbiter!Fail
<1>6. CASE /\ is_follow(fsm) /\ fsm'.motion_mode \in {"Idle", "Failed"}
           /\ fsm'.generation = fsm.generation + 1
  BY <1>6 DEF Arbiter!ArbiterNext, Arbiter!EndFollow
<1> QED
  BY <1>1, <1>2, <1>3, <1>4, <1>5, <1>6 DEF FollowMoves

\* FollowImplementsArbiter of Follow: navigation and follow together hand the robot out
\* only as the arbiter allows.
THEOREM FollowImplements == FollowSpec => FollowImplementsArbiter
<1>1. FollowInit => Arbiter!ArbiterInit
  BY DEF FollowInit, Init, initial_state, Arbiter!ArbiterInit, OwnerOf, NavigationModes,
         FollowModes, MappingModes
<1>2. ASSUME FollowIInv, [FollowNext]_all_vars
      PROVE  [Arbiter!ArbiterNext]_<<OwnerOf(fsm.motion_mode), fsm.generation>>
  <2>1. FieldsOK /\ Safe
    BY <1>2 DEF FollowIInv, FollowFieldsOK
  <2>2. CASE [Step]_vars
    BY <2>1, <2>2, ModeStep, ModeMovesAsArbiter DEF Next
  <2>3. CASE FollowStep
    BY <1>2, <2>3, FollowStepKeeps, FollowMovesAsArbiter
  <2>4. CASE StopRejected
    BY <2>4 DEF StopRejected, behaviour
  <2> QED
    BY <1>2, <2>2, <2>3, <2>4 DEF FollowNext, FollowStep, all_vars
<1> QED
  BY <1>1, <1>2, FollowAlways, PTL DEF FollowSpec, FollowImplementsArbiter, Arbiter!ArbiterSpec

-----------------------------------------------------------------------------
\* Mapping beside navigation and follow.

\* What the steps of mapping do to the mutex and to the gate, and what they leave alone.
LEMMA MappingHolds ==
  ASSUME MappingIInv, MappingStep
  PROVE  /\ UNCHANGED <<requests, threads, flags, machine>>
         /\ lock' = lock \/ {lock, lock'} \subseteq {Free, StartMapping, NavUpload}
         /\ \/ active_command' \in {active_command, NoCommand}
            \/ /\ active_command' \in {StartMapping, StopUpload, NavUpload}
               /\ fsm'.motion_mode \in MappingModes
               /\ lock' \in {Free, StartMapping, NavUpload}
<1> USE DEF vars, behaviour, finish_command
<1>1. CASE MappingBegins
  <2>1. fsm'.motion_mode = "Mapping"
    BY <1>1, MappingFields DEF MappingBegins, MappingIInv, MappingFieldsOK, FieldsOK
  <2> QED
    BY <1>1, <2>1 DEF MappingBegins, MappingModes
<1>2. CASE MappingStarted
  BY <1>2 DEF MappingStarted
<1>3. CASE CaptureExits \/ StopAndUploadmap \/ NavUploadBegins
  BY <1>3 DEF CaptureExits, StopAndUploadmap, NavUploadBegins, MappingModes
<1>4. CASE UploaderStep
  BY <1>4 DEF UploaderStep, UploaderThrows, UploadErrorHandled, CaptureStopped, UploadFailed,
              Uploaded, ProcessingTimeoutArmed, UploadFinished, FlagCleared
<1>5. CASE \E success \in BOOLEAN : NavUploadEnds(success)
  BY <1>5 DEF NavUploadEnds
<1>6. CASE \E a \in processing_timers : ProcessingTimeoutLeaves(a) \/ ProcessingTimesOut(a)
  BY <1>6 DEF ProcessingTimeoutLeaves, ProcessingTimesOut
<1> QED
  BY <1>1, <1>2, <1>3, <1>4, <1>5, <1>6 DEF MappingStep

\* Mapping leaves the follow commands, their queue and their engine alone.
LEMMA MappingKeepsFollow ==
  ASSUME FollowIInv, MappingIInv, MappingStep, UNCHANGED follow_vars
  PROVE  FollowIInv'
<1> USE DEF follow_vars, engine
<1>1. FieldsOK' /\ Safe' /\ MappingMoves
  BY MappingStepKeeps DEF MappingIInv, MappingFieldsOK
<1>2. /\ UNCHANGED <<pending, nav_process>>
      /\ lock' = lock \/ {lock, lock'} \subseteq {Free, StartMapping, NavUpload}
  BY MappingHolds DEF requests, machine
<1>3. {Free, StartMapping, NavUpload} \cap (StopPhases \cup FollowHolders) = {}
  BY DEF Free, StartMapping, NavUpload, StopPhases, FollowHolders
<1>4. /\ fsm.motion_mode \in {"Stopping"} \cup FollowModes => UNCHANGED fsm
      /\ is_follow(fsm') => is_follow(fsm)
  BY <1>1 DEF MappingMoves, is_mapping, is_follow, MappingModes, FollowModes
<1>5. FollowFieldsOK'
  BY <1>1 DEF FollowIInv, FollowFieldsOK
<1>6. FollowPhases'
  <2>1. lock' \in FollowHolders => lock' = lock
    BY <1>2, <1>3
  <2> QED
    BY <1>2, <1>4, <2>1 DEF FollowIInv, FollowPhases, FollowHolders, FollowModes, NothingPending
<1>7. QueuedFollowHasDrainer'
  BY <1>2, <1>3 DEF FollowIInv, QueuedFollowHasDrainer
<1>8. EngineWatched'
  <2>1. is_follow(fsm) => is_follow(fsm')
    BY <1>4 DEF is_follow
  <2>2. lock' \in {"follow_backend", "follow_failed"} => lock' = lock
    BY <1>2, <1>3 DEF FollowHolders
  <2> QED
    BY <2>1, <2>2 DEF FollowIInv, EngineWatched, Defeated
<1> QED
  BY <1>1, <1>5, <1>6, <1>7, <1>8 DEF FollowIInv

\* Follow leaves the capture, its uploader and its timeouts alone.
LEMMA FollowKeepsMapping ==
  ASSUME FollowIInv, MappingIInv, FollowStep, UNCHANGED mapping_vars
  PROVE  MappingIInv'
<1>1. FieldsOK' /\ Safe' /\ FollowMoves
  BY FollowStepKeeps DEF FollowIInv, FollowFieldsOK
<1>2. \/ lock' = lock
      \/ /\ lock \in {Free} \cup FollowHolders \cup StopPhases
         /\ lock' \in {Free} \cup FollowHolders
  BY FollowHolds DEF FollowIInv
<1>3. {StartMapping, NavUpload} \cap ({Free} \cup FollowHolders \cup StopPhases) = {}
  BY DEF Free, StartMapping, NavUpload, StopPhases, FollowHolders
<1>4. \A h \in {StartMapping, NavUpload} : lock = h <=> lock' = h
  BY <1>2, <1>3
<1>5. \A m \in MappingModes : fsm.motion_mode = m <=> fsm'.motion_mode = m
  BY <1>1 DEF FollowMoves, MappingModes, NavigationModes, FollowModes, is_follow
<1> QED
  BY <1>1, <1>4, <1>5, MappingUnmoved

\* A follow has emptied the gate, and nobody takes it as long as the follow has the robot.
FollowHasGate == is_follow(fsm) \/ Preempting => active_command = NoCommand

LEMMA NavigationLeavesGate ==
  ASSUME FollowIInv, FollowIInv', FollowHasGate, [Step]_vars
  PROVE  FollowHasGate'
<1>0. FieldsOK /\ Safe /\ Safe' /\ [Next]_vars
  BY DEF FollowIInv, FollowFieldsOK, Next
<1>1. CASE lock \in FollowHolders
  BY <1>0, <1>1, HeldByFollow DEF FollowHasGate, Preempting
<1>2. CASE lock \notin FollowHolders
  <2>1. /\ lock' \in {lock, Free} \cup Holders \cup Workers
        /\ active_command' \in {active_command, NoCommand} \cup Managed
    BY <1>0, HolderStep
  <2>2. FollowHolders \cap ({Free} \cup Holders \cup Workers) = {}
    BY FollowWorkersAssumption DEF FollowHolders, Free, Holders
  <2>3. ~Preempting'
    BY <1>2, <2>1, <2>2 DEF Preempting, FollowHolders
  <2>4. is_follow(fsm') => is_follow(fsm) /\ active_command' \notin Managed
    BY <1>0, FollowModesKept
       DEF Safe, NoNavigationLeft, is_follow, is_navigation, FollowModes, NavigationModes
  <2> QED
    BY <2>1, <2>3, <2>4 DEF FollowHasGate
<1> QED
  BY <1>1, <1>2

LEMMA MappingLeavesGate ==
  ASSUME MappingIInv, FollowHasGate, MappingStep
  PROVE  FollowHasGate'
<1>1. is_follow(fsm') => is_follow(fsm)
  BY MappingStepKeeps DEF MappingMoves, is_mapping, is_follow, MappingModes, FollowModes
<1>2. lock' \in FollowHolders => lock' = lock
  BY MappingHolds DEF Free, StartMapping, NavUpload, FollowHolders
<1>3. Preempting' => Preempting
  BY <1>2 DEF Preempting, FollowHolders
<1>4. CASE active_command' \in {active_command, NoCommand}
  BY <1>1, <1>3, <1>4 DEF FollowHasGate
<1>5. CASE fsm'.motion_mode \in MappingModes /\ lock' \in {Free, StartMapping, NavUpload}
  BY <1>5 DEF FollowHasGate, Preempting, is_follow, MappingModes, FollowModes, Free, StartMapping,
              NavUpload
<1> QED
  BY <1>4, <1>5, MappingHolds

\* The three behaviours together.
BehavioursIInv == FollowIInv /\ MappingIInv /\ FollowHasGate

LEMMA BehavioursInitially == MappingInit => BehavioursIInv /\ MappingTypeOK
<1>1. SUFFICES ASSUME MappingInit PROVE BehavioursIInv /\ MappingTypeOK
  OBVIOUS
<1>2. FollowInit /\ FollowIInv /\ MappingIInv
  BY <1>1, FollowInitially, MappingInitially DEF MappingInit
<1>3. FollowHasGate /\ MappingTypeOK
  BY <1>2 DEF FollowInit, Init, FollowHasGate, MappingTypeOK, FollowIInv, MappingIInv
<1> QED
  BY <1>2, <1>3 DEF BehavioursIInv

LEMMA BehavioursPreserved == BehavioursIInv /\ [MappingNext]_every_var => BehavioursIInv'
<1>1. SUFFICES ASSUME BehavioursIInv, [MappingNext]_every_var PROVE BehavioursIInv'
  OBVIOUS
<1> USE <1>1 DEF BehavioursIInv
<1>2. CASE [Step]_vars /\ UNCHANGED <<follow_vars, mapping_vars>>
  <2>1. FollowIInv'
    BY <1>2, FollowUndisturbed
  <2>2. MappingIInv'
    BY <1>2, MappingUndisturbed DEF Next
  <2> QED
    BY <1>2, <2>1, <2>2, NavigationLeavesGate
<1>3. CASE FollowStep /\ UNCHANGED mapping_vars
  <2>1. FollowIInv' /\ MappingIInv'
    BY <1>3, FollowStepKeeps, FollowKeepsMapping
  <2>2. FollowHasGate'
    BY <1>3, FollowHolds DEF FollowHasGate, FollowIInv
  <2> QED
    BY <2>1, <2>2
<1>4. CASE StopRejected /\ UNCHANGED <<follow_vars, mapping_vars>>
  <2>1. FollowIInv'
    BY <1>4, FollowRejectionKeeps
  <2>2. UNCHANGED <<fsm, lock, active_command>>
    BY <1>4 DEF StopRejected, behaviour
  <2>3. MappingIInv'
    BY <1>4, <2>1, <2>2, MappingUnmoved DEF FollowIInv, FollowFieldsOK
  <2> QED
    BY <2>1, <2>2, <2>3 DEF FollowHasGate, Preempting
<1>5. CASE MappingStep /\ UNCHANGED follow_vars
  BY <1>5, MappingStepKeeps, MappingKeepsFollow, MappingLeavesGate
<1> QED
  BY <1>2, <1>3, <1>4, <1>5 DEF MappingNext, FollowNext, FollowStep, every_var, all_vars

LEMMA MappingTypesKept ==
  ASSUME BehavioursIInv, BehavioursIInv', MappingTypeOK, [MappingNext]_every_var
  PROVE  MappingTypeOK'
<1> USE DEF MappingTypeOK
<1>0. FieldsOK /\ FollowFieldsOK /\ FollowFieldsOK' /\ MappingFieldsOK' /\ MappingIInv
  BY DEF BehavioursIInv, FollowIInv, MappingIInv, FollowFieldsOK
<1>1. CASE [Next]_vars
  BY <1>0, <1>1, HolderStep
<1>2. CASE FollowStep
  BY <1>0, <1>2, FollowHolds
<1>3. CASE StopRejected
  BY <1>0, <1>3 DEF StopRejected, behaviour
<1>4. CASE MappingStep
  BY <1>0, <1>4, MappingHolds
<1> QED
  BY <1>1, <1>2, <1>3, <1>4 DEF MappingNext, FollowNext, FollowStep, Next, every_var, all_vars

\* The invariant holds in every reachable state.
LEMMA MappingAlways == MappingSpec => [](BehavioursIInv /\ MappingTypeOK)
BY BehavioursInitially, BehavioursPreserved, MappingTypesKept, PTL DEF MappingSpec

\* MappingInv of Mapping: a capture runs alone, a map in processing always has somebody who
\* ends it, and a follow beside them is alone, obeyed and not forgotten.
THEOREM MappingRunsAlone == MappingSpec => []MappingInv
<1>1. MappingIInv => CaptureAlone /\ ProcessingHasEnd
  BY DEF MappingIInv, CaptureAlone, MapperPhases, Safe, NoNavigationLeft, NothingPending,
         MappingModes
<1>2. FollowIInv /\ FollowHasGate => FollowBesideMapping
  <2>1. FollowIInv /\ FollowHasGate => FollowingAlone
    BY DEF FollowIInv, FollowHasGate, FollowingAlone, Safe, NoNavigationLeft, NothingPending,
           is_follow, is_navigation, FollowModes, NavigationModes
  <2>2. FollowIInv => EngineOnlyInFollow /\ QueuedFollowHasDrainer
    BY DEF FollowIInv, EngineWatched, Defeated, EngineOnlyInFollow
  <2> QED
    BY <2>1, <2>2 DEF FollowBesideMapping
<1>3. BehavioursIInv /\ MappingTypeOK => MappingInv
  BY <1>1, <1>2 DEF BehavioursIInv, MappingInv
<1> QED
  BY <1>3, MappingAlways, PTL

\* MappingImplementsArbiter of Mapping: navigation, follow and mapping together hand the
\* robot out only as the arbiter allows.
THEOREM MappingImplements == MappingSpec => MappingImplementsArbiter
<1>1. MappingInit => Arbiter!ArbiterInit
  BY DEF MappingInit, FollowInit, Init, initial_state, Arbiter!ArbiterInit, OwnerOf,
         NavigationModes, FollowModes, MappingModes
<1>2. ASSUME BehavioursIInv, [MappingNext]_every_var
      PROVE  [Arbiter!ArbiterNext]_<<OwnerOf(fsm.motion_mode), fsm.generation>>
  <2>1. FieldsOK /\ Safe /\ FollowIInv /\ MappingIInv
    BY <1>2 DEF BehavioursIInv, FollowIInv, FollowFieldsOK
  <2>2. CASE [Step]_vars
    BY <2>1, <2>2, ModeStep, ModeMovesAsArbiter DEF Next
  <2>3. CASE FollowStep
    BY <2>1, <2>3, FollowStepKeeps, FollowMovesAsArbiter
  <2>4. CASE StopRejected
    BY <2>4 DEF StopRejected, behaviour
  <2>5. CASE MappingStep
    BY <2>1, <2>5, MappingStepKeeps, MappingMovesAsArbiter
  <2> QED
    BY <1>2, <2>2, <2>3, <2>4, <2>5
       DEF MappingNext, FollowNext, FollowStep, every_var, all_vars
<1> QED
  BY <1>1, <1>2, MappingAlways, PTL DEF MappingSpec, MappingImplementsArbiter, Arbiter!ArbiterSpec

-----------------------------------------------------------------------------
\* What NavigationSafety proves of navigation alone, beside mapping and beside follow.

\* A launcher that comes to life does so in a step of navigation, a timeout fires in one,
\* and the gate is left to the command that has it or taken in a mode without any.
Beside ==
  /\ nav_process' \in {nav_process, "none"}
  /\ timers' = timers
  /\ LeavesGate

LEMMA MappingBeside ==
  ASSUME MappingIInv, MappingStep
  PROVE  Beside
<1> USE DEF requests, threads, machine, vars, behaviour, mapping_vars, finish_command
<1>1. fsm.motion_mode \in {"Idle"} \cup MappingModes \/ UNCHANGED fsm
  BY MappingStepKeeps DEF MappingMoves, is_mapping
<1>2. fsm.motion_mode \in {"Idle"} \cup MappingModes => ~is_navigation(fsm)
  BY DEF is_navigation, NavigationModes, MappingModes
<1>3. {StartMapping, StopUpload, NavUpload, NoCommand} \cap Managed = {}
  BY DEF StartMapping, StopUpload, NavUpload, NoCommand, Managed
<1>4. /\ UNCHANGED <<nav_process, pending, attempt, timers, worker, thrown>>
      /\ \/ active_command' = active_command
         \/ active_command' \in {StartMapping, StopUpload, NavUpload, NoCommand}
      /\ lock' = lock \/ lock \in {Free, StartMapping, NavUpload}
  BY MappingHolds
<1>5. {Free, StartMapping, NavUpload} \cap StartPhases = {}
  BY DEF Free, StartMapping, NavUpload, StartPhases
<1> QED
  BY <1>1, <1>2, <1>3, <1>4, <1>5 DEF Beside, LeavesGate

LEMMA FollowBeside ==
  ASSUME FollowIInv, FollowStep
  PROVE  Beside
<1> USE DEF requests, threads, machine, vars, behaviour, follow_vars
<1>0. /\ FollowPhases
      /\ nav_process \in {"none", "running", "exited"}
      /\ lock \in StopPhases => fsm.motion_mode = "Stopping"
  BY DEF FollowIInv, FollowFieldsOK, FieldsOK, Safe, Phases
<1>1. Free \notin StartPhases /\ FollowHolders \cap StartPhases = {} /\ NoCommand \notin Managed
  BY DEF Free, StartPhases, FollowHolders, NoCommand, Managed
<1>2. ASSUME UNCHANGED vars PROVE Beside
  BY <1>2 DEF Beside, LeavesGate
<1>3. ASSUME NEW r, BeginFollow(r) PROVE Beside
  BY <1>1, <1>3 DEF BeginFollow, invalidate_navigation_requests, machine_state, Beside, LeavesGate
<1>4. ASSUME NEW t \in FollowThreads, FollowReceived(t) PROVE Beside
  BY <1>2, <1>4 DEF FollowReceived, StartFollowReceived, StopFollowReceived, EstopReceived,
                    GetFollowReceived
<1>5. ASSUME NEW t \in FollowThreads, FollowThreadStep(t) PROVE Beside
  <2>1. CASE FollowQueued(t) \/ EstopAnswered(t) \/ GetFollowAnswered(t)
    BY <1>2, <2>1 DEF FollowQueued, EstopAnswered, GetFollowAnswered
  <2>2. CASE StartFollowDecided(t)
    BY <1>2, <1>3, <2>2 DEF StartFollowDecided
  <2>3. CASE FollowDrainer(t)
    BY <1>1, <2>3 DEF FollowDrainer, Beside, LeavesGate
  <2>4. CASE EstopRecorded(t) \/ \E outcome \in Outcomes : FollowStopped(t, outcome)
    <3>1. /\ UNCHANGED <<nav_process, lock, active_command, pending, attempt, timers, worker,
                         thrown>>
          /\ fsm' \in {fsm, follow_stopped(fsm, TRUE), follow_stopped(fsm, FALSE)}
      BY <2>4 DEF EstopRecorded, FollowStopped
    <3>2. is_navigation(fsm) => UNCHANGED fsm
      BY <3>1 DEF follow_stopped, is_follow, is_navigation, FollowModes, NavigationModes
    <3> QED
      BY <3>1, <3>2 DEF Beside, LeavesGate
  <2> QED
    BY <1>5, <2>1, <2>2, <2>3, <2>4 DEF FollowThreadStep
<1>6. ASSUME UNCHANGED <<active_command, timers>>, nav_process' \in {nav_process, "none"},
             fsm.motion_mode \in {"Stopping", "StartingFollow"}
      PROVE  Beside
  BY <1>6 DEF Beside, LeavesGate, is_navigation, NavigationModes
<1>7. CASE FollowStartStep
  <2>1. CASE FollowFindsNothing \/ FollowVerifies
    BY <1>0, <1>6, <2>1 DEF FollowFindsNothing, FollowVerifies, NavigationGone, ForgetsNavigation,
                            ForgetDeadProcess, FollowPhases
  <2>2. CASE FollowCleansUp
    BY <1>0, <1>6, <2>2 DEF FollowCleansUp, CleansUp, FollowPhases
  <2>3. CASE \E outcome \in Outcomes : EngineCalled(outcome)
    BY <1>0, <1>6, <2>3 DEF EngineCalled, FollowPhases
  <2>4. CASE FollowStarted \/ FollowFailed
    BY <1>0, <1>6, <2>4 DEF FollowStarted, FollowFailed, FollowPhases
  <2>5. CASE FollowDrained
    <3>1. "follow_drain" \notin StartPhases
      BY DEF StartPhases
    <3> QED
      BY <1>3, <2>5, <3>1 DEF FollowDrained, Beside, LeavesGate
  <2> QED
    BY <1>7, <2>1, <2>2, <2>3, <2>4, <2>5 DEF FollowStartStep
<1>8. CASE StopVerifiesAndDrains
  BY <1>0, <1>6, <1>8 DEF StopVerifiesAndDrains, StopEnds, ForgetsNavigation, ForgetDeadProcess,
                          StopPhases
<1>9. CASE EngineGivesUp
  BY <1>2, <1>9 DEF EngineGivesUp
<1> QED
  BY <1>4, <1>5, <1>7, <1>8, <1>9 DEF FollowStep

LEMMA RejectionBeside == StopRejected => Beside
BY DEF StopRejected, behaviour, requests, machine, Beside, LeavesGate

\* A step beside navigation launches nothing and stops no timer.
LEMMA BesideQuiet ==
  Beside => /\ ~(nav_process # "running" /\ nav_process' = "running")
            /\ timers \ timers' = {}
BY DEF Beside

LEMMA StepBesideFollow ==
  ASSUME FollowIInv, FollowNext
  PROVE  [Next]_vars \/ Beside
BY FollowBeside, RejectionBeside DEF FollowNext, FollowStep, Next

LEMMA StepBesideMapping ==
  ASSUME BehavioursIInv, MappingNext
  PROVE  [Next]_vars \/ Beside
BY StepBesideFollow, MappingBeside DEF BehavioursIInv, MappingNext

LEMMA GateKeepsOwner ==
  ASSUME FieldsOK, Safe, Safe', GateHasOwner, [Next]_vars \/ Beside
  PROVE  GateHasOwner'
BY OwnedStep, GateUndisturbed DEF Beside

LEMMA GateOwnedAtFirst == Init => GateHasOwner
BY DEF Init, GateHasOwner, NoCommand, Managed, ServiceCommands

\* ReadinessAgrees and GateHasOwner of Navigation, beside mapping and follow: whatever a
\* capture, its upload and a follow do to the mode and to the gate, no command of navigation
\* is left on the gate without a thread that releases it.
THEOREM NavigationSafeBesideMapping == MappingSpec => [](ReadinessAgrees /\ GateHasOwner)
<1>1. BehavioursIInv => FieldsOK /\ Safe
  BY DEF BehavioursIInv, MappingIInv, MappingFieldsOK
<1>2. MappingInit => GateHasOwner
  BY GateOwnedAtFirst DEF MappingInit, FollowInit
<1>3. BehavioursIInv /\ BehavioursIInv' /\ GateHasOwner /\ [MappingNext]_every_var => GateHasOwner'
  <2>1. UNCHANGED every_var => [Next]_vars
    BY DEF every_var, all_vars
  <2>2. BehavioursIInv' => Safe'
    BY DEF BehavioursIInv, MappingIInv
  <2> QED
    BY <1>1, <2>1, <2>2, StepBesideMapping, GateKeepsOwner
<1>4. Safe => ReadinessAgrees
  BY DEF Safe
<1> QED
  BY <1>1, <1>2, <1>3, <1>4, MappingAlways, PTL DEF MappingSpec

\* The same beside follow, with IdleHasNoNavigation: a start_follow that stops navigation
\* without its stop_navigation leaves nothing of it behind either.
THEOREM NavigationSafeBesideFollow ==
  FollowSpec => [](IdleHasNoNavigation /\ ReadinessAgrees /\ GateHasOwner)
<1>1. FollowIInv /\ FollowTypeOK => IdleHasNoNavigation /\ ReadinessAgrees
  BY DEF FollowIInv, FollowTypeOK, FollowFieldsOK, Safe, NoNavigationLeft, NothingPending, IdleHasNoNavigation
<1>2. FollowInit => GateHasOwner
  BY GateOwnedAtFirst DEF FollowInit
<1>3. FollowIInv /\ FollowIInv' /\ GateHasOwner /\ [FollowNext]_all_vars => GateHasOwner'
  <2>1. UNCHANGED all_vars => [Next]_vars
    BY DEF all_vars
  <2>2. FollowIInv /\ FollowIInv' => FieldsOK /\ Safe /\ Safe'
    BY DEF FollowIInv, FollowFieldsOK
  <2> QED
    BY <2>1, <2>2, StepBesideFollow, GateKeepsOwner
<1> QED
  BY <1>1, <1>2, <1>3, FollowAlways, PTL DEF FollowSpec

\* OneEnvironment and StaleTimeoutHarmless of Navigation, beside mapping and
\* follow: a download that was still going on when a map was begun forks nothing, and the
\* timeouts of a navigation that is over do not disturb the map.
THEOREM MappingNotDisturbed == MappingSpec => OneEnvironment /\ StaleTimeoutHarmless
<1>1. ASSUME BehavioursIInv, [MappingNext]_every_var
      PROVE  /\ nav_process # "running" /\ nav_process' = "running" =>
                  nav_process = "none" /\ ~environment
             /\ \A t \in timers \ timers' : t[2] # attempt[t[1]] =>
                  UNCHANGED <<fsm, active_command, pending, flags>>
  <2>1. FieldsOK /\ Safe
    BY <1>1 DEF BehavioursIInv, MappingIInv, MappingFieldsOK
  <2>2. [Next]_vars \/ Beside
    BY <1>1, StepBesideMapping DEF every_var, all_vars
  <2> QED
    BY <2>1, <2>2, BesideQuiet, LaunchStep, TimeoutStep
<1>2. BehavioursIInv /\ [MappingNext]_every_var =>
        /\ [nav_process # "running" /\ nav_process' = "running"
              => nav_process = "none" /\ ~environment]_vars
        /\ [\A t \in timers \ timers' : t[2] # attempt[t[1]] =>
              UNCHANGED <<fsm, active_command, pending, flags>>]_vars
  BY <1>1
<1> QED
  BY <1>2, MappingAlways, PTL DEF MappingSpec, OneEnvironment, StaleTimeoutHarmless

\* The same beside follow: a follow that stopped navigation meets no environment that a
\* late worker forked, and no timeout of a request it invalidated.
THEOREM FollowNotDisturbed == FollowSpec => OneEnvironment /\ StaleTimeoutHarmless
<1>1. ASSUME FollowIInv, [FollowNext]_all_vars
      PROVE  /\ nav_process # "running" /\ nav_process' = "running" =>
                  nav_process = "none" /\ ~environment
             /\ \A t \in timers \ timers' : t[2] # attempt[t[1]] =>
                  UNCHANGED <<fsm, active_command, pending, flags>>
  <2>1. FieldsOK /\ Safe
    BY <1>1 DEF FollowIInv, FollowFieldsOK
  <2>2. [Next]_vars \/ Beside
    BY <1>1, StepBesideFollow DEF all_vars
  <2> QED
    BY <2>1, <2>2, BesideQuiet, LaunchStep, TimeoutStep
<1>2. FollowIInv /\ [FollowNext]_all_vars =>
        /\ [nav_process # "running" /\ nav_process' = "running"
              => nav_process = "none" /\ ~environment]_vars
        /\ [\A t \in timers \ timers' : t[2] # attempt[t[1]] =>
              UNCHANGED <<fsm, active_command, pending, flags>>]_vars
  BY <1>1
<1> QED
  BY <1>2, FollowAlways, PTL DEF FollowSpec, OneEnvironment, StaleTimeoutHarmless

\* A generation is one behaviour's: a thread of navigation, follow or mapping that finds the
\* generation it was launched in knows that no other behaviour had the robot meanwhile.
THEOREM GenerationsHaveOneOwner ==
  /\ Spec => Arbiter!EpochHasOneOwner
  /\ FollowSpec => Arbiter!EpochHasOneOwner
  /\ MappingSpec => Arbiter!EpochHasOneOwner
BY EpochsHaveOneOwner, NavigationImplementsArbiter, FollowImplements, MappingImplements
   DEF ImplementsArbiter, FollowImplementsArbiter, MappingImplementsArbiter
=============================================================================
