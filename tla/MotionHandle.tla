---------------------------- MODULE MotionHandle ----------------------------
(***************************************************************************)
(* Motion control from the Web, motionControl/motionHandle.cc, with its    *)
(* admission by CommandExecutor.  Commands come one at a time, on the      *)
(* client thread.  All but stops need behavior_execution_mutex_ and Idle,  *)
(* and keep the mutex until the frame is published, after motion_mutex_    *)
(* has been released.  A watchdog forgets a motion that is 2 s old and     *)
(* makes a robot whose state it knows stand, every 500 ms.                 *)
(*                                                                         *)
(* Time passes in steps of 500 ms, and only when the watchdog, which looks *)
(* every 100 ms, has looked.  The robot obeys every frame.                 *)
(*                                                                         *)
(* Left out: the values of velocities, the two formats of a frame, how a   *)
(* command is read, malformed and unknown ones.                            *)
(***************************************************************************)
EXTENDS Naturals

CONSTANT MaxMotionCommands  \* bound: how many commands there are

ASSUME MotionBoundAssumption == MaxMotionCommands \in Nat

VARIABLES
  motion,            \* motion_target_mode_, is the velocity not 0, motion_publish_active_
  last_pose,         \* last_pose_command_
  motion_age,        \* the ages of last_motion_command_time_, last_pose_command_time_
                     \* and last_idle_stand_time_
  watchdog_looked,   \* has the watchdog looked since time passed last?
  web,               \* the command at work: where it is, what it is, what it will publish
  behavior_lock,     \* behavior_execution_mutex_
  mode,              \* is the robot's behavior Idle?
  robot_state,       \* robot_state_received_ and robot_blocks_idle_stand_
  frame,             \* the last frame published, and by whom
  motion_commands    \* how many commands there were, for the bound

motion_vars == <<motion, last_pose, motion_age, watchdog_looked, web, behavior_lock, mode,
                 robot_state, frame, motion_commands>>

Poses == {"down", "stand"}
Stops == {"stop", "zero"}      \* stop and emergency_stop; bare velocities of 0
Zeros == {"zero", "move_zero"} \* ... and velocities of 0 under a name, as move_forward
MotionCommandKinds == Poses \cup Stops \cup Zeros \cup {"move", "release"}

CommandTimeout == 4   \* kMotionStopTimeoutMs_, in steps
PoseTimeout == 6      \* kPoseCommandDedupMs_

Frames == [target : {"none", "running", "lie_down", "stand"}, moving : BOOLEAN]

MotionTypeOK ==
  /\ motion \in [target : {"none", "running", "lie_down", "stand"}, moving : BOOLEAN,
                 active : BOOLEAN]
  /\ last_pose \in Poses \cup {"none"}
  /\ motion_age \in [command : 0 .. CommandTimeout + 1, pose : 0 .. PoseTimeout, stand : 0 .. 1]
  /\ watchdog_looked \in BOOLEAN
  /\ web \in [pc : {"none", "admitted", "publishing"}, cmd : MotionCommandKinds \cup {"none"},
              frame : Frames]
  /\ behavior_lock \in {"free", "web", "behavior"}
  /\ mode \in {"Idle", "other"}
  /\ robot_state \in [received : BOOLEAN, blocks : BOOLEAN]
  /\ frame \in [target : {"none", "running", "lie_down", "stand"}, moving : BOOLEAN,
                by : {"nobody", "web", "watchdog"}]
  /\ motion_commands \in 0 .. MaxMotionCommands

NoFrame == [target |-> "none", moving |-> FALSE]
NoWeb == [pc |-> "none", cmd |-> "none", frame |-> NoFrame]

MotionInit ==
  /\ motion = [target |-> "none", moving |-> FALSE, active |-> FALSE]
  /\ last_pose = "none"
  /\ motion_age = [command |-> CommandTimeout + 1, pose |-> PoseTimeout, stand |-> 1]
  /\ watchdog_looked = FALSE
  /\ web = NoWeb
  /\ behavior_lock = "free" /\ mode = "Idle"
  /\ robot_state = [received |-> FALSE, blocks |-> FALSE]
  /\ frame = [target |-> "none", moving |-> FALSE, by |-> "nobody"]
  /\ motion_commands = 0

-----------------------------------------------------------------------------
\* Somebody else begins or ends a behavior, with the mutex.

BehaviorLocks ==
  /\ behavior_lock = "free"
  /\ behavior_lock' = "behavior"
  /\ UNCHANGED <<motion, last_pose, motion_age, watchdog_looked, web, mode, robot_state, frame,
                 motion_commands>>

BehaviorChanges ==
  /\ behavior_lock = "behavior"
  /\ mode' \in {"Idle", "other"}
  /\ behavior_lock' = "free"
  /\ UNCHANGED <<motion, last_pose, motion_age, watchdog_looked, web, robot_state, frame,
                 motion_commands>>

-----------------------------------------------------------------------------
\* The client thread.

MotionCommand(cmd) ==
  /\ web.pc = "none"
  /\ motion_commands < MaxMotionCommands
  /\ motion_commands' = motion_commands + 1
  /\ UNCHANGED <<motion, last_pose, motion_age, watchdog_looked, mode, robot_state, frame>>

\* Mutant: the mutex is given back when the mode has been looked at.
AdmittedUnlocked(cmd) ==
  /\ cmd \notin Stops
  /\ MotionCommand(cmd)
  /\ IF behavior_lock = "free" /\ mode = "Idle"
     THEN web' = [web EXCEPT !.pc = "admitted", !.cmd = cmd]
     ELSE UNCHANGED web
  /\ UNCHANGED behavior_lock

\* admit_web_motion_command().
Admitted(cmd) ==
  /\ cmd \notin Stops
  /\ MotionCommand(cmd)
  /\ IF behavior_lock = "free" /\ mode = "Idle"
     THEN behavior_lock' = "web" /\ web' = [web EXCEPT !.pc = "admitted", !.cmd = cmd]
     ELSE UNCHANGED <<behavior_lock, web>>

StopAdmitted(cmd) ==
  /\ cmd \in Stops
  /\ MotionCommand(cmd)
  /\ web' = [web EXCEPT !.pc = "admitted", !.cmd = cmd]
  /\ UNCHANGED behavior_lock

\* What a command makes of target mode and velocity.
Target(cmd) ==
  CASE cmd = "down" -> "lie_down"
    [] cmd = "stand" -> "stand"
    [] cmd = "move" -> "running"
    [] cmd \in Zeros -> IF motion.active \/ motion.moving THEN "running" ELSE motion.target
    [] cmd = "stop" -> IF motion.target = "none" THEN "running" ELSE motion.target
    [] cmd = "release" -> motion.target

Moves(cmd) ==
  CASE cmd = "move" -> TRUE
    [] cmd = "release" -> motion.moving
    [] OTHER -> FALSE

\* A frame of velocities of 0 says nothing new to a robot that has been forgotten.
Publishes(cmd) == cmd # "release" /\ ~(cmd \in Zeros /\ ~motion.active /\ ~motion.moving)

IgnoredPose(cmd) == cmd \in Poses /\ last_pose = cmd /\ motion_age.pose < PoseTimeout

GivesBack == behavior_lock' = IF behavior_lock = "web" THEN "free" ELSE behavior_lock

\* handle_action_control() ignores a pose it was sent a moment ago.
PoseIgnored ==
  /\ web.pc = "admitted" /\ IgnoredPose(web.cmd)
  /\ web' = NoWeb
  /\ GivesBack
  /\ UNCHANGED <<motion, last_pose, motion_age, watchdog_looked, mode, robot_state, frame,
                 motion_commands>>

Records(cmd) ==
  /\ web.pc = "admitted" /\ web.cmd = cmd /\ ~IgnoredPose(cmd)
  /\ motion' = [target |-> Target(cmd), moving |-> Moves(cmd), active |-> TRUE]
  /\ motion_age' = [motion_age EXCEPT !.command = 0, !.pose = IF cmd \in Poses THEN 0 ELSE @]
  /\ web' = [pc |-> "publishing", cmd |-> cmd,
             frame |-> IF Publishes(cmd)
                       THEN [target |-> Target(cmd), moving |-> Moves(cmd)] ELSE NoFrame]
  /\ UNCHANGED <<watchdog_looked, behavior_lock, mode, robot_state, frame, motion_commands>>

\* Mutant: a motion does not make the last pose forgotten.
PoseRemembered(cmd) ==
  /\ Records(cmd)
  /\ last_pose' = IF cmd \in Poses THEN cmd ELSE last_pose

\* ... and otherwise, holding motion_mutex_.  Whatever the command, it counts as motion.
CommandRecorded(cmd) ==
  /\ Records(cmd)
  /\ last_pose' = CASE cmd \in Poses -> cmd
                    [] cmd \notin Poses /\ Publishes(cmd) -> "none"
                    [] OTHER -> last_pose

FramePublished ==
  /\ web.pc = "publishing"
  /\ frame' = IF web.frame = NoFrame THEN frame
              ELSE [target |-> web.frame.target, moving |-> web.frame.moving, by |-> "web"]
  /\ web' = NoWeb
  /\ GivesBack
  /\ UNCHANGED <<motion, last_pose, motion_age, watchdog_looked, mode, robot_state, motion_commands>>

-----------------------------------------------------------------------------
\* The watchdog, time, and the robot.

\* watchdog_loop() with motion_mutex_; the motion is still active afterwards or not.
Looks(active) ==
  LET stands == /\ ~active /\ robot_state.received /\ ~robot_state.blocks
                /\ motion_age.stand >= 1
  IN /\ motion' = [motion EXCEPT !.active = active]
     /\ motion_age' = [motion_age EXCEPT !.stand = IF stands THEN 0 ELSE @]
     /\ frame' = IF stands THEN [target |-> "stand", moving |-> FALSE, by |-> "watchdog"] ELSE frame
     /\ watchdog_looked' = TRUE
     /\ UNCHANGED <<last_pose, web, behavior_lock, mode, robot_state, motion_commands>>

WatchdogLooks == Looks(motion.active /\ motion_age.command <= CommandTimeout)

\* Half a second passes.
Older(age, limit) == IF age < limit THEN age + 1 ELSE age

TimePasses ==
  /\ watchdog_looked
  /\ motion_age' = [command |-> Older(motion_age.command, CommandTimeout + 1),
                    pose |-> Older(motion_age.pose, PoseTimeout),
                    stand |-> 1]
  /\ watchdog_looked' = FALSE
  /\ UNCHANGED <<motion, last_pose, web, behavior_lock, mode, robot_state, frame, motion_commands>>

\* robot_state_callback(): a robot that lies or is damped does not take a stand.
RobotStateArrives ==
  /\ \E blocks \in BOOLEAN : robot_state' = [received |-> TRUE, blocks |-> blocks]
  /\ watchdog_looked' = FALSE
  /\ UNCHANGED <<motion, last_pose, motion_age, web, behavior_lock, mode, frame, motion_commands>>

MotionNext ==
  \/ \E cmd \in MotionCommandKinds : Admitted(cmd) \/ StopAdmitted(cmd) \/ CommandRecorded(cmd)
  \/ PoseIgnored \/ FramePublished
  \/ BehaviorLocks \/ BehaviorChanges
  \/ WatchdogLooks \/ TimePasses \/ RobotStateArrives

MotionSpec == MotionInit /\ [][MotionNext]_motion_vars

-----------------------------------------------------------------------------
(***************************************************************************)
(* Safety.                                                                 *)
(***************************************************************************)

\* admit_web_motion_command(): only Idle may move the base.  The mode that was looked at
\* when the command was admitted is still the mode when its frame goes out.  (The documents
\* say that motion bypasses the state machine; README, section 6.)
OnlyIdleMoves == [][frame'.moving /\ frame' # frame => mode = "Idle"]_motion_vars

\* A pose that is ignored as a repetition is the last thing the Web has told the robot.
\* (The watchdog may have told it to stand in between: it does not touch last_pose.)
PoseStillOn ==
  web.pc = "admitted" /\ IgnoredPose(web.cmd) =>
    frame.by = "watchdog" \/ frame.target = Target(web.cmd)

\* The protocol's note on speed control: when commands cease the robot stops after about
\* two seconds.  It does if it has reported a state in which it can stand, whatever the
\* behavior; at the latest when the watchdog looks half a second later.
OldMotionOver ==
  /\ frame.moving /\ motion_age.command > CommandTimeout
  /\ web.pc = "none" /\ watchdog_looked
  /\ robot_state.received /\ ~robot_state.blocks
  => motion_age.stand = 0

\* What the gateway remembers of the Web's motion is right for those who act on it: the
\* filter of repeated poses and the watchdog.
MotionRemembered == PoseStillOn /\ OldMotionOver
=============================================================================
