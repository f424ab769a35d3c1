------------------------------ MODULE RobotFsm ------------------------------
(***************************************************************************)
(* The behaviour state machine of the gateway, include/RobotFsm.h.         *)
(*                                                                         *)
(* RobotFsm owns one RobotDto record behind a mutex of its own, so each    *)
(* method is one atomic step.  A method is an operator from the record     *)
(* before the call to the record after it; a method that answers whether   *)
(* it did anything has that answer as a predicate of its own, named can_.  *)
(*                                                                         *)
(* Left out: health (no code ever sets it, so every test of it is false),  *)
(* fault_reason and light_status_ (text and presentation).                 *)
(***************************************************************************)
EXTENDS Naturals

MotionMode == {"Idle", "StartingNavigation", "NavigationReady", "StartingFollow",
               "Following", "Navigating", "Mapping", "MappingProcessing",
               "Stopping", "Failed"}

\* TaskStatus::Starting and Successed are declared but never assigned.
TaskStatus == {"Idle", "Running", "Paused", "Stopping", "Cancelled", "Failed"}

RobotDto == [motion_mode : MotionMode,
             task_status : TaskStatus,
             navigation_environment_ready : BOOLEAN,
             localization_ready : BOOLEAN,
             follow_placeholder : BOOLEAN,
             generation : Nat]

initial_state == [motion_mode |-> "Idle",
                  task_status |-> "Idle",
                  navigation_environment_ready |-> FALSE,
                  localization_ready |-> FALSE,
                  follow_placeholder |-> FALSE,
                  generation |-> 0]

NavigationModes == {"StartingNavigation", "NavigationReady", "Navigating"}
MappingModes    == {"Mapping", "MappingProcessing"}
FollowModes     == {"StartingFollow", "Following"}

is_navigation(f) == f.motion_mode \in NavigationModes
is_mapping(f)    == f.motion_mode \in MappingModes
is_follow(f)     == f.motion_mode \in FollowModes

-----------------------------------------------------------------------------
\* Navigation start-up.

can_begin_navigation(f) == f.motion_mode = "Idle"

begin_navigation(f) ==
  IF can_begin_navigation(f)
  THEN [f EXCEPT !.generation = @ + 1, !.motion_mode = "StartingNavigation",
                 !.task_status = "Idle"]
  ELSE f

\* Mutant: the generation is not compared.
navigation_at_all(f, g) == is_navigation(f)

\* Does work started in generation g still belong to the running navigation?
navigation_current(f, g) == g = f.generation /\ is_navigation(f)

navigation_ready(f, success) ==
  IF f.motion_mode = "StartingNavigation"
  THEN [f EXCEPT !.navigation_environment_ready = success,
                 !.motion_mode = IF success THEN "NavigationReady" ELSE "Failed"]
  ELSE f

\* Mutant: an abort does not ask whether the start is still going on.
navigation_start_aborted_always(f) ==
  [f EXCEPT !.motion_mode = "Idle", !.task_status = "Idle",
            !.navigation_environment_ready = FALSE, !.localization_ready = FALSE]

navigation_start_aborted(f) ==
  IF f.motion_mode = "StartingNavigation"
  THEN [f EXCEPT !.motion_mode = "Idle", !.task_status = "Idle",
                 !.navigation_environment_ready = FALSE,
                 !.localization_ready = FALSE]
  ELSE f

task_state(f, status) ==
  IF is_navigation(f)
  THEN [f EXCEPT !.task_status = status,
                 !.motion_mode = IF status \in {"Running", "Paused"}
                                 THEN "Navigating" ELSE "NavigationReady"]
  ELSE f

localization_ready(f, ready) ==
  IF is_navigation(f) THEN [f EXCEPT !.localization_ready = ready] ELSE f

-----------------------------------------------------------------------------
\* Stopping, for its own sake or on behalf of a follow.

can_begin_stop(f) ==
  f.motion_mode \notin FollowModes \cup MappingModes \cup {"Stopping"}

EnterStopping(f) ==
  [f EXCEPT !.generation = @ + 1, !.motion_mode = "Stopping",
            !.task_status = "Stopping"]

begin_stop(f) == IF can_begin_stop(f) THEN EnterStopping(f) ELSE f

\* Mutant: a stop that failed is not recorded.
stopped_on_success(f, success, follow) ==
  IF ~success THEN f
  ELSE [f EXCEPT !.motion_mode = IF follow THEN "StartingFollow" ELSE "Idle",
                 !.task_status = "Cancelled",
                 !.navigation_environment_ready = FALSE,
                 !.localization_ready = FALSE]

\* Mutant: a stop forgets to withdraw the readiness of the environment.
stopped_still_ready(f, success, follow) ==
  [f EXCEPT !.motion_mode = IF ~success THEN "Failed"
                            ELSE IF follow THEN "StartingFollow" ELSE "Idle",
            !.task_status = IF success THEN "Cancelled" ELSE "Failed",
            !.localization_ready = FALSE]

stopped(f, success, follow) ==
  [f EXCEPT !.motion_mode = IF ~success THEN "Failed"
                            ELSE IF follow THEN "StartingFollow" ELSE "Idle",
            !.task_status = IF success THEN "Cancelled" ELSE "Failed",
            !.navigation_environment_ready = FALSE,
            !.localization_ready = FALSE]

-----------------------------------------------------------------------------
\* Follow.

\* Mutant: a second start_follow is not idempotent.
follow_decision_restarts(f) ==
  CASE f.motion_mode \in MappingModes \cup {"Failed"} -> "Rejected"
    [] f.motion_mode = "Stopping"                     -> "Queued"
    [] OTHER                                          -> "Start"

follow_decision(f) ==
  CASE f.motion_mode \in MappingModes \cup {"Failed"} -> "Rejected"
    [] f.motion_mode \in FollowModes                  -> "AlreadyFollowing"
    [] f.motion_mode = "Stopping"                     -> "Queued"
    [] OTHER                                          -> "Start"

begin_follow(f) ==
  IF follow_decision(f) = "Start" THEN EnterStopping(f) ELSE f

follow_started(f, placeholder) ==
  IF f.motion_mode = "StartingFollow"
  THEN [f EXCEPT !.motion_mode = "Following", !.task_status = "Running",
                 !.follow_placeholder = placeholder]
  ELSE f

\* stop_follow() is follow_stopped(f, TRUE); a follow emergency stop passes FALSE.
follow_stopped(f, success) ==
  IF is_follow(f)
  THEN [f EXCEPT !.generation = @ + 1,
                 !.motion_mode = IF success THEN "Idle" ELSE "Failed",
                 !.task_status = IF success THEN "Cancelled" ELSE "Failed",
                 !.follow_placeholder = FALSE,
                 !.navigation_environment_ready = FALSE,
                 !.localization_ready = FALSE]
  ELSE f

-----------------------------------------------------------------------------
\* Mapping.

begin_mapping(f) ==
  IF f.motion_mode = "Idle"
  THEN [f EXCEPT !.motion_mode = "Mapping", !.generation = @ + 1]
  ELSE f

mapping(f, active) ==
  IF active
  THEN IF f.motion_mode \in MappingModes \cup {"Idle"}
       THEN [f EXCEPT !.motion_mode = "Mapping"] ELSE f
  ELSE IF is_mapping(f) THEN [f EXCEPT !.motion_mode = "Idle"] ELSE f

mapping_processing(f) ==
  IF f.motion_mode = "Mapping"
  THEN [f EXCEPT !.motion_mode = "MappingProcessing"] ELSE f

\* Mutant: the mapping that failed and the fault share a generation.
mapping_failed_in_place(f) ==
  IF is_mapping(f)
  THEN [f EXCEPT !.motion_mode = "Failed", !.task_status = "Failed"]
  ELSE f

\* Mutant: only the capture can fail, not the processing after it.
mapping_failed_in_capture(f) ==
  IF f.motion_mode = "Mapping"
  THEN [f EXCEPT !.generation = @ + 1, !.motion_mode = "Failed",
                 !.task_status = "Failed"]
  ELSE f

mapping_failed(f) ==
  IF is_mapping(f)
  THEN [f EXCEPT !.generation = @ + 1, !.motion_mode = "Failed",
                 !.task_status = "Failed"]
  ELSE f
=============================================================================
