----------------------------- MODULE PartsProofs -----------------------------
(***************************************************************************)
(* Proofs about the camera, motion control, the battery's connection, what *)
(* is reported of a task and how often a position is uploaded, for any     *)
(* number of commands, connections, readings, threads, points and rounds;  *)
(* and that all the parts, those of GatewayProofs too, are well typed.     *)
(***************************************************************************)
EXTENDS MCParts, GatewayProofs

-----------------------------------------------------------------------------
\* The camera.

\* CameraWatched is inductive: it names everybody who may leave the record.
LEMMA PtzInitially == PtzInit => CameraWatched
BY DEF PtzInit, CameraWatched

LEMMA PtzPreserved == CameraWatched /\ [PtzNext]_ptz_vars => CameraWatched'
<1> SUFFICES ASSUME CameraWatched, [PtzNext]_ptz_vars PROVE CameraWatched'
  OBVIOUS
<1> USE DEF CameraWatched, Velocity
<1>1. ASSUME NEW o \in PtzOutcomes, Turn(o) PROVE CameraWatched'
  <2>1. CASE o = "done"
    BY <1>1, <2>1 DEF Turn
  <2>2. CASE o = "refused"
    <3>1. /\ unattended' = (unattended \/ (o = "lost" /\ ~continuous_active))
          /\ UNCHANGED <<camera, continuous_active, ptz_watchdog>>
      BY <1>1, <2>2 DEF Turn, PtzCommand
    <3> QED
      BY <2>2, <3>1, Zenon
  <2>3. CASE o = "lost"
    <3>1. /\ unattended' = (unattended \/ (o = "lost" /\ ~continuous_active))
          /\ UNCHANGED continuous_active
      BY <1>1, <2>3 DEF Turn
    <3> QED
      BY <2>3, <3>1, Zenon
  <2> QED
    BY <2>1, <2>2, <2>3 DEF PtzOutcomes
<1>2. ASSUME NEW o \in PtzOutcomes, Halt(o) PROVE CameraWatched'
  <2>1. CASE o = "refused"
    BY <1>2, <2>1, Zenon DEF Halt, PtzCommand
  <2>2. CASE o # "refused"
    BY <1>2, <2>2 DEF Halt
  <2> QED
    BY <2>1, <2>2
<1>3. CASE RelativeMove
  BY <1>3 DEF RelativeMove, PtzCommand
<1>4. CASE Expires
  BY <1>4 DEF Expires
<1>5. ASSUME NEW o \in PtzOutcomes, WatchdogStops(o) PROVE CameraWatched'
  BY <1>5, Zenon DEF WatchdogStops
<1>6. CASE WatchdogEnds \/ Destroys
  BY <1>6 DEF WatchdogEnds, Destroys
<1>7. ASSUME NEW o \in PtzOutcomes, Destroyed(o) PROVE CameraWatched'
  BY <1>7, Zenon DEF Destroyed
<1>8. CASE UNCHANGED ptz_vars
  BY <1>8 DEF ptz_vars
<1> QED
  BY <1>1, <1>2, <1>3, <1>4, <1>5, <1>6, <1>7, <1>8 DEF PtzNext, Watches, PtzEnds

\* CameraWatched of HikvisionHandle: a camera that turns is on somebody's record, the lost
\* answers granted.
THEOREM TurningIsWatched == PtzSpec => []CameraWatched
<1> QED
  BY PtzInitially, PtzPreserved, PTL DEF PtzSpec

-----------------------------------------------------------------------------
\* Motion control: who holds behavior_execution_mutex_, and why.

\* A command that may move the base holds the mutex while it is at work, so the mode that
\* it was admitted in cannot change.  A frame that moves the base is such a command's.
LockInv ==
  /\ web = [pc |-> web.pc, cmd |-> web.cmd, frame |-> web.frame]
  /\ web.pc \in {"none", "admitted", "publishing"}
  /\ behavior_lock = "web" => web.pc # "none" /\ mode = "Idle"
  /\ web.pc # "none" /\ web.cmd \notin Stops => behavior_lock = "web"
  /\ web.pc = "publishing" /\ web.frame.moving => web.cmd \notin Stops

LEMMA LockInitially == MotionInit => LockInv
BY DEF MotionInit, LockInv, NoWeb, NoFrame

LEMMA LockPreserved == LockInv /\ [MotionNext]_motion_vars => LockInv'
<1> SUFFICES ASSUME LockInv, [MotionNext]_motion_vars PROVE LockInv'
  OBVIOUS
<1> USE DEF LockInv
<1>1. ASSUME NEW cmd \in MotionCommandKinds, Admitted(cmd) PROVE LockInv'
  BY <1>1 DEF Admitted, MotionCommand
<1>2. ASSUME NEW cmd \in MotionCommandKinds, StopAdmitted(cmd) PROVE LockInv'
  BY <1>2 DEF StopAdmitted, MotionCommand
<1>3. ASSUME NEW cmd \in MotionCommandKinds, CommandRecorded(cmd) PROVE LockInv'
  BY <1>3 DEF CommandRecorded, Records, Moves, Stops, NoFrame
<1>4. CASE PoseIgnored \/ FramePublished
  BY <1>4 DEF PoseIgnored, FramePublished, GivesBack, NoWeb, NoFrame
<1>5. CASE BehaviorLocks \/ BehaviorChanges
  BY <1>5 DEF BehaviorLocks, BehaviorChanges
<1>6. CASE WatchdogLooks \/ TimePasses \/ RobotStateArrives \/ UNCHANGED motion_vars
  BY <1>6 DEF WatchdogLooks, Looks, TimePasses, RobotStateArrives, motion_vars
<1> QED
  BY <1>1, <1>2, <1>3, <1>4, <1>5, <1>6 DEF MotionNext

\* What OnlyIdleMoves asks of a step.
IdleStep == frame'.moving /\ frame' # frame => mode = "Idle"

LEMMA MovesInIdle == LockInv /\ [MotionNext]_motion_vars => IdleStep
<1> SUFFICES ASSUME LockInv, [MotionNext]_motion_vars, frame'.moving, frame' # frame
             PROVE  mode = "Idle"
  BY DEF IdleStep
<1>1. ~WatchdogLooks
  BY DEF WatchdogLooks, Looks
<1>2. FramePublished
  BY <1>1 DEF MotionNext, motion_vars, Admitted, StopAdmitted, MotionCommand, CommandRecorded,
     Records, PoseIgnored, BehaviorLocks, BehaviorChanges, TimePasses, RobotStateArrives
<1> QED
  BY <1>2 DEF FramePublished, LockInv

\* OnlyIdleMoves of MotionHandle: the robot is in Idle not only when a motion is admitted
\* but when its frame is published.
THEOREM OnlyIdleMovesAlways == MotionSpec => OnlyIdleMoves
<1> QED
  BY LockInitially, LockPreserved, MovesInIdle, PTL DEF MotionSpec, OnlyIdleMoves, IdleStep

-----------------------------------------------------------------------------
\* Motion control: what the watchdog and last_pose know.

PoseTarget(cmd) == IF cmd = "down" THEN "lie_down" ELSE "stand"

\* When the watchdog has looked, an active motion is young and a robot without one has been
\* told to stand.
LookedInv ==
  /\ motion = [target |-> motion.target, moving |-> motion.moving, active |-> motion.active]
  /\ motion_age \in [command : Nat, pose : Nat, stand : Nat]
  /\ watchdog_looked =>
       /\ motion.active => motion_age.command <= CommandTimeout
       /\ ~motion.active /\ robot_state.received /\ ~robot_state.blocks => motion_age.stand = 0

\* The last pose was told to the robot, or is about to be by the command at work.
PoseInv ==
  /\ web = [pc |-> web.pc, cmd |-> web.cmd, frame |-> web.frame]
  /\ last_pose \in Poses \cup {"none"}
  /\ last_pose \in Poses =>
       /\ \/ frame.by = "watchdog"
          \/ frame.target = PoseTarget(last_pose)
          \/ web.pc = "publishing" /\ web.frame # NoFrame
       /\ web.pc = "publishing" /\ web.frame # NoFrame =>
            web.frame.target = PoseTarget(last_pose)

LEMMA MotionMemoryInitially == MotionInit => LookedInv /\ PoseInv
BY DEF MotionInit, LookedInv, PoseInv, CommandTimeout, PoseTimeout, NoWeb, NoFrame, Poses

LEMMA LookedPreserved == LookedInv /\ [MotionNext]_motion_vars => LookedInv'
<1> SUFFICES ASSUME LookedInv, [MotionNext]_motion_vars PROVE LookedInv'
  OBVIOUS
<1> USE DEF LookedInv, CommandTimeout, PoseTimeout
<1>1. ASSUME NEW cmd \in MotionCommandKinds, CommandRecorded(cmd) PROVE LookedInv'
  <2>1. /\ motion' = [target |-> Target(cmd), moving |-> Moves(cmd), active |-> TRUE]
        /\ motion_age' = [motion_age EXCEPT !.command = 0,
                                            !.pose = IF cmd \in Poses THEN 0 ELSE @]
        /\ UNCHANGED <<watchdog_looked, robot_state>>
    BY <1>1 DEF CommandRecorded, Records
  <2>2. /\ motion_age' \in [command : Nat, pose : Nat, stand : Nat]
        /\ motion_age'.command = 0
    BY <2>1
  <2>3. /\ motion'.active = TRUE
        /\ motion' = [target |-> motion'.target, moving |-> motion'.moving,
                      active |-> motion'.active]
    BY <2>1, Zenon
  <2> QED
    BY <2>2, <2>3
<1>2. CASE WatchdogLooks
  <2> DEFINE active == motion.active /\ motion_age.command <= CommandTimeout
             stands == /\ ~active /\ robot_state.received /\ ~robot_state.blocks
                       /\ motion_age.stand >= 1
  <2>1. /\ motion' = [motion EXCEPT !.active = active]
        /\ motion_age' = [motion_age EXCEPT !.stand = IF stands THEN 0 ELSE @]
        /\ UNCHANGED robot_state
    BY <1>2 DEF WatchdogLooks, Looks
  <2>2. motion'.active <=> active
    BY <2>1, Zenon
  <2>3. /\ motion_age' \in [command : Nat, pose : Nat, stand : Nat]
        /\ motion_age'.command = motion_age.command
        /\ motion_age'.stand = IF stands THEN 0 ELSE motion_age.stand
    BY <2>1
  <2>4. motion' = [target |-> motion'.target, moving |-> motion'.moving,
                   active |-> motion'.active]
    BY <2>1
  <2> QED
    BY <2>1, <2>2, <2>3, <2>4
<1>3. CASE TimePasses
  BY <1>3 DEF TimePasses, Older
<1>4. CASE RobotStateArrives
  BY <1>4 DEF RobotStateArrives
<1>5. ASSUME UNCHANGED <<motion, motion_age, watchdog_looked, robot_state>> PROVE LookedInv'
  BY <1>5
<1> QED
  BY <1>1, <1>2, <1>3, <1>4, <1>5 DEF MotionNext, motion_vars, Admitted, StopAdmitted,
     MotionCommand, PoseIgnored, FramePublished, BehaviorLocks, BehaviorChanges

LEMMA PosePreserved == PoseInv /\ [MotionNext]_motion_vars => PoseInv'
<1> SUFFICES ASSUME PoseInv, [MotionNext]_motion_vars PROVE PoseInv'
  OBVIOUS
<1> USE DEF PoseInv
<1>1. ASSUME NEW cmd \in MotionCommandKinds, Admitted(cmd) \/ StopAdmitted(cmd) PROVE PoseInv'
  BY <1>1 DEF Admitted, StopAdmitted, MotionCommand
<1>2. ASSUME NEW cmd \in MotionCommandKinds, CommandRecorded(cmd) PROVE PoseInv'
  <2> USE <1>2 DEF CommandRecorded, Records
  <2>1. CASE cmd \in Poses
    <3>1. last_pose' = cmd /\ Publishes(cmd) /\ Target(cmd) = PoseTarget(cmd)
      BY <2>1 DEF Poses, Publishes, Zeros, Target, PoseTarget
    <3>2. /\ web' = [pc |-> "publishing", cmd |-> cmd, frame |-> web'.frame]
          /\ web'.frame.target = PoseTarget(cmd)
      BY <3>1
    <3>3. web'.frame # NoFrame
      BY <3>2 DEF PoseTarget, NoFrame
    <3> QED
      BY <2>1, <3>1, <3>2, <3>3
  <2>2. CASE cmd \notin Poses /\ Publishes(cmd)
    BY <2>2 DEF Poses
  <2>3. CASE cmd \notin Poses /\ ~Publishes(cmd)
    <3>1. /\ web' = [pc |-> "publishing", cmd |-> cmd, frame |-> NoFrame]
          /\ UNCHANGED <<last_pose, frame>>
      BY <2>3
    <3> QED
      BY <3>1
  <2> QED
    BY <2>1, <2>2, <2>3
<1>3. CASE PoseIgnored
  BY <1>3 DEF PoseIgnored, NoWeb
<1>4. CASE FramePublished
  BY <1>4 DEF FramePublished, NoWeb
<1>5. CASE WatchdogLooks
  BY <1>5 DEF WatchdogLooks, Looks
<1>6. ASSUME UNCHANGED <<web, last_pose, frame>> PROVE PoseInv'
  BY <1>6
<1> QED
  BY <1>1, <1>2, <1>3, <1>4, <1>5, <1>6 DEF MotionNext, motion_vars, BehaviorLocks,
     BehaviorChanges, TimePasses, RobotStateArrives

\* MotionRemembered of MotionHandle: a pose that is ignored was told, and an
\* old motion is over when the watchdog has looked.
THEOREM MotionMemoryRight == MotionSpec => []MotionRemembered
<1>1. PoseInv => PoseStillOn
  BY DEF PoseInv, PoseStillOn, IgnoredPose, Poses, Zeros, Target, PoseTarget
<1>2. LookedInv => OldMotionOver
  BY DEF LookedInv, OldMotionOver, CommandTimeout
<1>3. PoseInv /\ LookedInv => MotionRemembered
  BY <1>1, <1>2 DEF MotionRemembered
<1> QED
  BY <1>3, MotionMemoryInitially, LookedPreserved, PosePreserved, PTL DEF MotionSpec

-----------------------------------------------------------------------------
\* The battery's connection: the newest reading is not lost, a connection always sought.

\* What is sent and not yet cleared is what a connection took last; if it is no longer what
\* waits, a newer reading has arrived, and its send has not run and perhaps is not posted.
ClearingIsForwarded ==
  clearing # 0 => /\ forwarded = clearing
                  /\ pending_payload # 0
                  /\ pending_payload # clearing => bms_posted.sends > 0 \/ bms_storing

\* reconnect_scheduled_ stands for a timer, websocket_connecting_ for a handshake.
FlagsHaveReason ==
  /\ bms_reconnect.scheduled => bms_reconnect.timers > 0
  /\ websocket_connecting => \E c \in BmsConnections : bms_conn[c] = "connecting"

BmsInv ==
  /\ BmsTypeOK
  /\ NewestKept /\ NewestOnItsWay /\ ClearingIsForwarded
  /\ StatusGoesOn
  /\ BmsNeverStranded /\ FlagsHaveReason

\* The conjuncts about the readings, about the status and about the connection.
Data == NewestKept /\ NewestOnItsWay /\ ClearingIsForwarded
Link == BmsNeverStranded /\ FlagsHaveReason

LEMMA BmsInitially == BmsInit => BmsInv
<1> SUFFICES ASSUME BmsInit PROVE BmsInv
  OBVIOUS
<1>1. BmsTypeOK
  BY DEF BmsInit, BmsTypeOK
<1>2. Data
  BY DEF BmsInit, Data, NewestKept, NewestOnItsWay, ClearingIsForwarded
<1>3. StatusGoesOn /\ Link
  BY DEF BmsInit, StatusGoesOn, Link, BmsNeverStranded, FlagsHaveReason
<1> QED
  BY <1>1, <1>2, <1>3 DEF BmsInv, Data, Link

\* schedule_reconnect() leaves a timer running.
LEMMA Rescheduled ==
  ASSUME BmsTypeOK, FlagsHaveReason
  PROVE  /\ BmsReconnect(bms_reconnect) \in [scheduled : BOOLEAN, timers : Nat]
         /\ BmsReconnect(bms_reconnect).timers > 0
BY DEF BmsTypeOK, FlagsHaveReason, BmsReconnect

\* connect_websocket() either begins a handshake or finds that there is no need.
LEMMA Connecting ==
  ASSUME BmsTypeOK, FlagsHaveReason, ConnectWebsocket
  PROVE  /\ bms_conn' \in [BmsConnections -> {"none", "connecting", "open", "closing"}]
         /\ websocket_hdl' \in BmsConnections \cup {"none"}
         /\ websocket_connecting' \in BOOLEAN
         /\ websocket_connecting' => \E c \in BmsConnections : bms_conn'[c] = "connecting"
         /\ websocket_connected \/ websocket_connecting'
<1> USE DEF BmsTypeOK, FlagsHaveReason
<1>1. CASE websocket_connected \/ websocket_connecting
  BY <1>1 DEF ConnectWebsocket
<1>2. CASE ~(websocket_connected \/ websocket_connecting)
  <2>1. PICK c \in BmsConnections :
          /\ bms_conn' = [bms_conn EXCEPT ![c] = "connecting"]
          /\ websocket_hdl' = c
          /\ websocket_connecting' = TRUE
    BY <1>2 DEF ConnectWebsocket
  <2>2. bms_conn'[c] = "connecting"
    BY <2>1
  <2> QED
    BY <2>1, <2>2
<1> QED
  BY <1>1, <1>2

LEMMA BmsPreserved == BmsInv /\ [BmsNext]_bms_vars => BmsInv'
<1> SUFFICES ASSUME BmsInv, [BmsNext]_bms_vars PROVE BmsInv'
  OBVIOUS
<1> USE DEF BmsInv
<1>1. CASE ReadingStored
  <2> USE <1>1 DEF ReadingStored, bms_link, BmsTypeOK
  <2>1. reading' \in Nat /\ reading' # 0 /\ pending_payload' = reading' /\ bms_storing'
    OBVIOUS
  <2>2. BmsTypeOK'
    BY <2>1
  <2>3. Data'
    BY <2>1 DEF Data, NewestKept, NewestOnItsWay, ClearingIsForwarded
  <2>4. StatusGoesOn' /\ Link'
    BY <2>1 DEF StatusGoesOn, Link, BmsNeverStranded, FlagsHaveReason
  <2> QED
    BY <2>2, <2>3, <2>4 DEF Data, Link
<1>2. CASE BmsStarts
  <2> USE <1>2 DEF BmsStarts, bms_data
  <2>1. /\ bms_posted' \in [connect : BOOLEAN, sends : Nat]
        /\ bms_posted'.sends = bms_posted.sends
    BY DEF BmsTypeOK
  <2>2. BmsTypeOK'
    BY <2>1, Connecting DEF BmsTypeOK
  <2>3. Data'
    BY <2>1 DEF Data, NewestKept, NewestOnItsWay, ClearingIsForwarded
  <2>4. StatusGoesOn' /\ Link'
    BY Connecting DEF StatusGoesOn, Link, BmsNeverStranded, FlagsHaveReason
  <2> QED
    BY <2>2, <2>3, <2>4 DEF Data, Link
<1>3. CASE BmsReconnectTimer
  <2> USE <1>3 DEF BmsReconnectTimer, bms_data
  <2>1. /\ bms_reconnect' \in [scheduled : BOOLEAN, timers : Nat]
        /\ ~bms_reconnect'.scheduled
    BY DEF BmsTypeOK
  <2>2. BmsTypeOK'
    BY <2>1, Connecting DEF BmsTypeOK
  <2>3. Data'
    BY DEF Data, NewestKept, NewestOnItsWay, ClearingIsForwarded
  <2>4. StatusGoesOn' /\ Link'
    BY <2>1, Connecting DEF StatusGoesOn, Link, BmsNeverStranded, FlagsHaveReason
  <2> QED
    BY <2>2, <2>3, <2>4 DEF Data, Link
<1>4. ASSUME NEW c \in BmsConnections, BmsOpens(c) PROVE BmsInv'
  <2> USE <1>4 DEF BmsOpens
  <2>1. /\ bms_reconnect' \in [scheduled : BOOLEAN, timers : Nat]
        /\ ~bms_reconnect'.scheduled
    BY DEF BmsTypeOK
  <2>2. /\ websocket_generation' \in Nat /\ status_timers' \in SUBSET Nat
        /\ websocket_generation' \in status_timers'
    BY DEF BmsTypeOK
  <2>3. clearing' \in Nat /\ forwarded' \in Nat
    BY DEF BmsTypeOK
  <2>4. BmsTypeOK'
    BY <2>1, <2>2, <2>3 DEF BmsTypeOK
  <2>5. Data'
    BY DEF Data, NewestKept, NewestOnItsWay, ClearingIsForwarded, BmsIdle
  <2>6. StatusGoesOn' /\ Link'
    BY <2>1, <2>2 DEF StatusGoesOn, Link, BmsNeverStranded, FlagsHaveReason
  <2> QED
    BY <2>4, <2>5, <2>6 DEF Data, Link
<1>5. ASSUME NEW c \in BmsConnections, BmsConnectionEnds(c) PROVE BmsInv'
  <2> USE <1>5 DEF BmsConnectionEnds, bms_data
  <2>1. BmsTypeOK'
    BY DEF BmsTypeOK
  <2>2. Data' /\ StatusGoesOn'
    BY DEF Data, NewestKept, NewestOnItsWay, ClearingIsForwarded, StatusGoesOn
  <2>3. \A d \in BmsConnections : bms_conn[d] = "connecting" => bms_conn'[d] = "connecting"
    BY DEF BmsTypeOK
  <2>4. Link'
    BY <2>3 DEF Link, BmsNeverStranded, FlagsHaveReason
  <2> QED
    BY <2>1, <2>2, <2>4 DEF Data, Link
<1>6. ASSUME NEW c \in BmsConnections, BmsConnectionLost(c) PROVE BmsInv'
  <2> USE <1>6 DEF BmsConnectionLost, bms_data
  <2>1. BmsTypeOK'
    BY Rescheduled DEF BmsTypeOK
  <2>2. Data' /\ StatusGoesOn'
    BY DEF Data, NewestKept, NewestOnItsWay, ClearingIsForwarded, StatusGoesOn
  <2>3. Link'
    BY Rescheduled DEF Link, BmsNeverStranded, FlagsHaveReason
  <2> QED
    BY <2>1, <2>2, <2>3 DEF Data, Link
<1>7. CASE PostedSendRuns
  <2> USE <1>7 DEF PostedSendRuns, BmsSendFails
  <2>1. /\ bms_posted' \in [connect : BOOLEAN, sends : Nat]
        /\ bms_posted'.connect = bms_posted.connect
    BY DEF BmsTypeOK
  <2>2. CASE ~websocket_connected \/ pending_payload = 0
    <3>1. UNCHANGED <<websocket_connected, bms_reconnect, clearing, forwarded>>
      BY <2>2
    <3>2. BmsTypeOK'
      BY <2>1, <3>1 DEF BmsTypeOK
    <3>3. Data'
      BY <2>2, <3>1 DEF Data, NewestKept, NewestOnItsWay, ClearingIsForwarded, BmsIdle
    <3>4. StatusGoesOn' /\ Link'
      BY <2>1, <3>1 DEF StatusGoesOn, Link, BmsNeverStranded, FlagsHaveReason
    <3> QED
      BY <3>2, <3>3, <3>4 DEF Data, Link
  <2>3. CASE websocket_connected /\ pending_payload # 0 /\ HdlOpen
    <3>1. /\ clearing' = pending_payload /\ forwarded' = pending_payload
          /\ UNCHANGED <<websocket_connected, bms_reconnect>>
      BY <2>3
    <3>2. BmsTypeOK'
      BY <2>1, <3>1 DEF BmsTypeOK
    <3>3. Data'
      BY <2>3, <3>1 DEF Data, NewestKept, NewestOnItsWay, ClearingIsForwarded
    <3>4. StatusGoesOn' /\ Link'
      BY <2>1, <3>1 DEF StatusGoesOn, Link, BmsNeverStranded, FlagsHaveReason
    <3> QED
      BY <3>2, <3>3, <3>4 DEF Data, Link
  <2>4. CASE websocket_connected /\ pending_payload # 0 /\ ~HdlOpen
    <3>1. /\ websocket_connected' = FALSE
          /\ bms_reconnect' = BmsReconnect(bms_reconnect)
          /\ UNCHANGED <<clearing, forwarded>>
      BY <2>4
    <3>2. BmsTypeOK'
      BY <2>1, <3>1, Rescheduled DEF BmsTypeOK
    <3>3. Data'
      BY <3>1 DEF Data, NewestKept, NewestOnItsWay, ClearingIsForwarded, BmsIdle
    <3>4. StatusGoesOn' /\ Link'
      BY <3>1, Rescheduled DEF StatusGoesOn, Link, BmsNeverStranded, FlagsHaveReason
    <3> QED
      BY <3>2, <3>3, <3>4 DEF Data, Link
  <2> QED
    BY <2>2, <2>3, <2>4
<1>8. CASE ClearsWhatWasSent
  <2> USE <1>8 DEF ClearsWhatWasSent, bms_link
  <2>1. BmsTypeOK'
    BY DEF BmsTypeOK
  <2>2. Data'
    BY DEF Data, NewestKept, NewestOnItsWay, ClearingIsForwarded
  <2>3. StatusGoesOn' /\ Link'
    BY DEF StatusGoesOn, Link, BmsNeverStranded, FlagsHaveReason
  <2> QED
    BY <2>1, <2>2, <2>3 DEF Data, Link
<1>9. ASSUME NEW g \in status_timers, StatusTimer(g) PROVE BmsInv'
  <2> USE <1>9 DEF StatusTimer, BmsSendFails, bms_data
  <2>1. \/ UNCHANGED <<websocket_connected, bms_reconnect>>
           /\ status_timers' \in SUBSET status_timers
           /\ websocket_connected => websocket_generation \in status_timers'
        \/ /\ websocket_connected' = FALSE
           /\ bms_reconnect' = BmsReconnect(bms_reconnect)
           /\ status_timers' \in SUBSET status_timers
    BY DEF StatusGoesOn
  <2>2. BmsTypeOK'
    BY <2>1, Rescheduled DEF BmsTypeOK
  <2>3. Data'
    BY <2>1 DEF Data, NewestKept, NewestOnItsWay, ClearingIsForwarded
  <2>4. StatusGoesOn' /\ Link'
    BY <2>1, Rescheduled DEF StatusGoesOn, Link, BmsNeverStranded, FlagsHaveReason
  <2> QED
    BY <2>2, <2>3, <2>4 DEF Data, Link
<1>10. CASE ReadingPosted
  <2> USE <1>10 DEF ReadingPosted, bms_link, bms_data, BmsTypeOK
  <2>1. /\ bms_posted' \in [connect : BOOLEAN, sends : Nat]
        /\ bms_posted'.sends > 0 /\ bms_posted'.connect = bms_posted.connect
    OBVIOUS
  <2>2. BmsTypeOK'
    BY <2>1
  <2>3. Data'
    BY <2>1 DEF Data, NewestKept, NewestOnItsWay, ClearingIsForwarded
  <2>4. StatusGoesOn' /\ Link'
    BY <2>1 DEF StatusGoesOn, Link, BmsNeverStranded, FlagsHaveReason
  <2> QED
    BY <2>2, <2>3, <2>4 DEF Data, Link
<1>11. CASE UNCHANGED bms_vars
  <2> USE <1>11 DEF bms_vars, bms_link, bms_data
  <2>1. BmsTypeOK'
    BY DEF BmsTypeOK
  <2>2. Data' /\ StatusGoesOn' /\ Link'
    BY DEF Data, NewestKept, NewestOnItsWay, ClearingIsForwarded, StatusGoesOn, Link,
       BmsNeverStranded, FlagsHaveReason
  <2> QED
    BY <2>1, <2>2 DEF Data, Link
<1> QED
  BY <1>1, <1>2, <1>3, <1>4, <1>5, <1>6, <1>7, <1>8, <1>9, <1>10, <1>11
  DEF BmsNext, BmsThread

\* BmsKeepsUp of BmsForwarder: whatever the order of events of old and new connections, the
\* newest reading is kept and on its way, a connected robot has its status timer, and an
\* offline one an event ahead that makes it try again.
THEOREM BmsGoesOn == BmsSpec => []BmsKeepsUp
<1>1. BmsInv => BmsKeepsUp
  BY DEF BmsInv, BmsKeepsUp
<1> QED
  BY <1>1, BmsInitially, BmsPreserved, PTL DEF BmsSpec

-----------------------------------------------------------------------------
\* Uploads.

\* The time that a thread has exchanged stays the last upload's until it is reset.
LastIsUploaded ==
  /\ ~uploaded.reset => last_upload_position = uploaded.at
  /\ asker = [t \in Uploaders |-> asker[t]]

LEMMA LastUploadedInitially == RateInit => LastIsUploaded
BY DEF RateInit, LastIsUploaded

LEMMA LastUploadedPreserved == LastIsUploaded /\ [RateNext]_rate_vars => LastIsUploaded'
<1> SUFFICES ASSUME LastIsUploaded, [RateNext]_rate_vars PROVE LastIsUploaded'
  OBVIOUS
<1> USE DEF LastIsUploaded
<1>1. CASE ClockTicks \/ FrequencySet
  BY <1>1 DEF ClockTicks, FrequencySet
<1>2. CASE LastUploadReset
  BY <1>2, uploaded'.reset = TRUE \/ UNCHANGED uploaded DEF LastUploadReset
<1>3. ASSUME NEW t \in Uploaders,
             Asks(t) \/ ReadsInterval(t) \/ ReadsLast(t) \/ NotDue(t) \/ ExchangeFails(t)
      PROVE  LastIsUploaded'
  BY <1>3 DEF Asks, ReadsInterval, ReadsLast, NotDue, ExchangeFails
<1>4. ASSUME NEW t \in Uploaders, Exchanged(t) PROVE LastIsUploaded'
  BY <1>4 DEF Exchanged
<1>5. CASE UNCHANGED rate_vars
  BY <1>5 DEF rate_vars
<1> QED
  BY <1>1, <1>2, <1>3, <1>4, <1>5 DEF RateNext

\* What RateKept asks of a step.
RateStep ==
  \A t \in Uploaders :
    asker[t].pc = "comparing" /\ uploaded' # uploaded /\ asker'[t].pc = "none" =>
      uploaded.reset \/ uploaded.at + asker[t].interval <= uploaded'.at

LEMMA UploadsFollowInterval == LastIsUploaded /\ [RateNext]_rate_vars => RateStep
<1> SUFFICES ASSUME LastIsUploaded, [RateNext]_rate_vars,
                    NEW t \in Uploaders, asker[t].pc = "comparing",
                    uploaded' # uploaded, asker'[t].pc = "none"
             PROVE  uploaded.reset \/ uploaded.at + asker[t].interval <= uploaded'.at
  BY DEF RateStep
<1>1. ~LastUploadReset
  BY DEF LastUploadReset
<1>2. PICK s \in Uploaders : Exchanged(s)
  BY <1>1 DEF RateNext, rate_vars, ClockTicks, FrequencySet, Asks, ReadsInterval, ReadsLast,
     NotDue, ExchangeFails
<1>3. s = t
  BY <1>2 DEF Exchanged, LastIsUploaded
<1> QED
  BY <1>2, <1>3 DEF Exchanged, DueFor, LastIsUploaded

\* RateKept of UploadRate: between two uploads lies the interval, whichever threads ask and
\* whoever sets the interval.
THEOREM UploadsKeepRate == RateSpec => RateKept
<1> QED
  BY LastUploadedInitially, LastUploadedPreserved, UploadsFollowInterval, PTL
  DEF RateSpec, RateKept, RateStep

-----------------------------------------------------------------------------
\* Rounds, points and failures.

\* A round that is still new was not used for a pose, and one that is no longer new is not
\* used again.
RoundsInv ==
  /\ last_relocalized_round \in 0 .. MaxRound
  /\ relocalized \in [Rounds -> Nat]
  /\ RoundsOnce
  /\ \A r \in Rounds : NewRound(r) => relocalized[r] = 0

\* The point reached is one of the list, so every point of the list up to it has been
\* passed; those after it were not reported.
PointsInv ==
  /\ points \in [reached : 0 .. MaxPoint, total : 0 .. MaxPoint]
  /\ points.total > 0 => points.reached <= points.total
  /\ reported \in [PointNumbers -> Nat]
  /\ PointsOnce
  /\ \A i \in PointNumbers :
       NewPoint(i) /\ (points.total = 0 \/ i <= points.total) => reported[i] = 0

\* What is known of a failure is of the one that is printed, unless its first line is lost.
FailureInv ==
  /\ failure.nr \in Nat
  /\ ~failure.lost => planning.target \in {0, failure.nr} /\ planning.reason \in {0, failure.nr}
  /\ planning = [pending |-> planning.pending, target |-> planning.target,
                 reason |-> planning.reason]
  /\ failure = [nr |-> failure.nr, lost |-> failure.lost]

ReportsInv == RoundsInv /\ PointsInv /\ FailureInv

LEMMA ReportsInitially == ReportsInit => ReportsInv
<1> SUFFICES ASSUME ReportsInit PROVE ReportsInv
  OBVIOUS
<1> USE ReportsAssumption DEF ReportsAssumption, ReportsInit
<1>1. RoundsInv
  BY DEF RoundsInv, RoundsOnce, NewRound, Rounds
<1>2. PointsInv
  BY DEF PointsInv, PointsOnce, NewPoint, PointNumbers
<1>3. FailureInv
  BY DEF FailureInv, Nothing
<1> QED
  BY <1>1, <1>2, <1>3 DEF ReportsInv

LEMMA RoundsPreserved == RoundsInv /\ [ReportsNext]_reports_vars => RoundsInv'
<1> SUFFICES ASSUME RoundsInv, [ReportsNext]_reports_vars PROVE RoundsInv'
  OBVIOUS
<1> USE ReportsAssumption DEF ReportsAssumption, RoundsInv, RoundsOnce, NewRound, Rounds
<1>1. ASSUME NEW n \in PointNumbers, ListReceived(n) PROVE RoundsInv'
  BY <1>1 DEF ListReceived
<1>2. ASSUME NEW r \in Rounds, NEW usable \in BOOLEAN, RoundCompleted(r, usable)
      PROVE  RoundsInv'
  BY <1>2 DEF RoundCompleted
<1>3. ASSUME UNCHANGED <<last_relocalized_round, relocalized>> PROVE RoundsInv'
  BY <1>3
<1> QED
  BY <1>1, <1>2, <1>3 DEF ReportsNext, reports_vars, PointReached, PosePending, PlanningFails,
     PlanningFailsUnheard, TargetNamed, ReasonNamed, FailureReported

LEMMA PointsPreserved == PointsInv /\ [ReportsNext]_reports_vars => PointsInv'
<1> SUFFICES ASSUME PointsInv, [ReportsNext]_reports_vars PROVE PointsInv'
  OBVIOUS
<1> USE ReportsAssumption DEF ReportsAssumption, PointsInv, PointsOnce, NewPoint, PointNumbers
<1>1. ASSUME NEW n \in PointNumbers, ListReceived(n) PROVE PointsInv'
  BY <1>1 DEF ListReceived
<1>2. ASSUME NEW i \in PointNumbers, PointReached(i) PROVE PointsInv'
  <2> USE <1>2 DEF PointReached
  <2>1. /\ points'.reached = Reached(i) /\ points'.total = points.total
        /\ points' \in [reached : 0 .. MaxPoint, total : 0 .. MaxPoint]
    BY DEF Reached
  <2>2. points'.total > 0 => points'.reached <= points'.total
    BY <2>1 DEF Reached
  <2>3. /\ reported' \in [PointNumbers -> Nat]
        /\ \A j \in PointNumbers : j # i => reported'[j] = reported[j]
        /\ reported'[i] = reported[i] + 1
    OBVIOUS
  <2>4. PointsOnce'
    BY <2>1, <2>3
  <2>5. \A j \in PointNumbers :
          j > points'.reached /\ (points'.total = 0 \/ j <= points'.total) => reported'[j] = 0
    BY <2>1, <2>3 DEF Reached
  <2> QED
    BY <2>1, <2>2, <2>3, <2>4, <2>5
<1>3. ASSUME UNCHANGED <<points, reported>> PROVE PointsInv'
  BY <1>3
<1> QED
  BY <1>1, <1>2, <1>3 DEF ReportsNext, reports_vars, RoundCompleted, PosePending, PlanningFails,
     PlanningFailsUnheard, TargetNamed, ReasonNamed, FailureReported

LEMMA FailurePreserved == FailureInv /\ [ReportsNext]_reports_vars => FailureInv'
<1> SUFFICES ASSUME FailureInv, [ReportsNext]_reports_vars PROVE FailureInv'
  OBVIOUS
<1> USE DEF FailureInv
<1>1. CASE PlanningFails
  BY <1>1 DEF PlanningFails
<1>2. CASE PlanningFailsUnheard
  BY <1>2 DEF PlanningFailsUnheard
<1>3. CASE TargetNamed
  BY <1>3 DEF TargetNamed
<1>4. CASE ReasonNamed
  BY <1>4 DEF ReasonNamed
<1>5. CASE FailureReported
  BY <1>5 DEF FailureReported, Nothing
<1>6. ASSUME UNCHANGED <<planning, failure>> PROVE FailureInv'
  BY <1>6
<1> QED
  BY <1>1, <1>2, <1>3, <1>4, <1>5, <1>6 DEF ReportsNext, reports_vars, ListReceived,
     PointReached, PosePending, RoundCompleted

\* ReportedOnce of TaskReports: a task publishes a pose once a round, reports a point of its
\* list once, and never tells of two failures as of one.
THEOREM ToldOnce == ReportsSpec => []ReportedOnce
<1>1. ReportsInv => ReportedOnce
  BY DEF ReportsInv, RoundsInv, PointsInv, FailureInv, OneFailureTold, ReportedOnce
<1>2. ReportsInv /\ [ReportsNext]_reports_vars => ReportsInv'
  BY RoundsPreserved, PointsPreserved, FailurePreserved DEF ReportsInv
<1> QED
  BY <1>1, <1>2, ReportsInitially, PTL DEF ReportsSpec

-----------------------------------------------------------------------------
\* The types of the parts.

LEMMA PtzTyped == PtzSpec => []PtzTypeOK
<1> DEFINE Flags == continuous_active \in BOOLEAN /\ expired \in BOOLEAN /\ unattended \in BOOLEAN
           States == /\ camera \in {"still", "turning"}
                     /\ ptz_watchdog \in {"runs", "told_to_end", "ended", "destroyed"}
                     /\ ptz_commands \in 0 .. MaxPtzCommands
<1>1. PtzInit => Flags
  BY Zenon DEF PtzInit
<1>2. PtzInit => States
  BY PtzBoundAssumption DEF PtzInit
<1>3. Flags /\ [PtzNext]_ptz_vars => Flags'
  <2> SUFFICES ASSUME Flags, [PtzNext]_ptz_vars PROVE Flags'
    OBVIOUS
  <2>1. ASSUME NEW o \in PtzOutcomes, Turn(o) PROVE Flags'
    BY <2>1, Zenon DEF Turn
  <2>2. ASSUME NEW o \in PtzOutcomes, Halt(o) PROVE Flags'
    BY <2>2, Zenon DEF Halt
  <2>3. ASSUME NEW o \in PtzOutcomes, WatchdogStops(o) \/ Destroyed(o) PROVE Flags'
    BY <2>3, Zenon DEF WatchdogStops, Destroyed
  <2>4. CASE Expires \/ Destroys
    BY <2>4, Zenon DEF Expires, Destroys
  <2>5. ASSUME UNCHANGED <<continuous_active, expired, unattended>> PROVE Flags'
    BY <2>5
  <2> QED
    BY <2>1, <2>2, <2>3, <2>4, <2>5 DEF PtzNext, ptz_vars, RelativeMove, Watches, WatchdogEnds,
       PtzEnds
<1>4. States /\ [PtzNext]_ptz_vars => States'
  <2> SUFFICES ASSUME States, [PtzNext]_ptz_vars PROVE States'
    OBVIOUS
  <2>1. ASSUME NEW o \in PtzOutcomes, Turn(o) \/ Halt(o) PROVE States'
    <3>1. PtzCommand /\ (Velocity("turning", o) \/ Velocity("still", o))
      BY <2>1, Zenon DEF Turn, Halt
    <3> QED
      BY <3>1, PtzBoundAssumption DEF PtzCommand, Velocity
  <2>2. CASE RelativeMove
    BY <2>2, PtzBoundAssumption DEF RelativeMove, PtzCommand
  <2>3. ASSUME NEW o \in PtzOutcomes, WatchdogStops(o) \/ Destroyed(o) PROVE States'
    BY <2>3 DEF WatchdogStops, Destroyed, Velocity
  <2>4. CASE Expires \/ Destroys \/ WatchdogEnds \/ UNCHANGED ptz_vars
    BY <2>4 DEF Expires, Destroys, WatchdogEnds, ptz_vars
  <2> QED
    BY <2>1, <2>2, <2>3, <2>4 DEF PtzNext, Watches, PtzEnds
<1>5. Flags /\ States => PtzTypeOK
  BY DEF PtzTypeOK
<1> QED
  BY <1>1, <1>2, <1>3, <1>4, <1>5, PTL DEF PtzSpec

\* The conjuncts of MotionTypeOK that count, and the others.
MotionCounts ==
  /\ motion_age \in [command : 0 .. CommandTimeout + 1, pose : 0 .. PoseTimeout, stand : 0 .. 1]
  /\ motion_commands \in 0 .. MaxMotionCommands

MotionKinds ==
  /\ motion \in [target : {"none", "running", "lie_down", "stand"}, moving : BOOLEAN,
                 active : BOOLEAN]
  /\ last_pose \in Poses \cup {"none"}
  /\ web \in [pc : {"none", "admitted", "publishing"}, cmd : MotionCommandKinds \cup {"none"},
              frame : Frames]
  /\ behavior_lock \in {"free", "web", "behavior"}
  /\ mode \in {"Idle", "other"}
  /\ frame \in [target : {"none", "running", "lie_down", "stand"}, moving : BOOLEAN,
                by : {"nobody", "web", "watchdog"}]

MotionFlags == watchdog_looked \in BOOLEAN /\ robot_state \in [received : BOOLEAN, blocks : BOOLEAN]

\* What a command makes of the target is one of the targets there are.
LEMMA CommandTyped ==
  ASSUME MotionKinds, NEW cmd \in MotionCommandKinds
  PROVE  [target |-> Target(cmd), moving |-> Moves(cmd)] \in Frames
<1>1. /\ motion.target \in {"none", "running", "lie_down", "stand"}
      /\ motion.moving \in BOOLEAN
  BY DEF MotionKinds
<1>2. Target(cmd) \in {"none", "running", "lie_down", "stand"}
  BY <1>1 DEF MotionCommandKinds, Poses, Stops, Zeros, Target
<1>3. Moves(cmd) \in BOOLEAN
  BY <1>1 DEF MotionCommandKinds, Poses, Stops, Zeros, Moves
<1> QED
  BY <1>2, <1>3 DEF Frames

LEMMA MotionCounted == MotionCounts /\ [MotionNext]_motion_vars => MotionCounts'
<1> SUFFICES ASSUME MotionCounts, [MotionNext]_motion_vars PROVE MotionCounts'
  OBVIOUS
<1> USE MotionBoundAssumption DEF MotionCounts, CommandTimeout, PoseTimeout
<1>1. ASSUME NEW cmd \in MotionCommandKinds, Admitted(cmd) \/ StopAdmitted(cmd)
      PROVE  MotionCounts'
  BY <1>1 DEF Admitted, StopAdmitted, MotionCommand
<1>2. ASSUME NEW cmd \in MotionCommandKinds, CommandRecorded(cmd) PROVE MotionCounts'
  <2>1. /\ \/ motion_age' = [command |-> 0, pose |-> 0, stand |-> motion_age.stand]
           \/ motion_age' = [motion_age EXCEPT !.command = 0]
        /\ UNCHANGED motion_commands
    <3>1. /\ motion_age' = [motion_age EXCEPT !.command = 0,
                                              !.pose = IF cmd \in Poses THEN 0 ELSE @]
          /\ UNCHANGED motion_commands
      BY <1>2 DEF CommandRecorded, Records
    <3> QED
      BY <3>1
  <2>2. CASE motion_age' = [command |-> 0, pose |-> 0, stand |-> motion_age.stand]
    BY <2>1, <2>2
  <2>3. CASE motion_age' = [motion_age EXCEPT !.command = 0]
    BY <2>1, <2>3
  <2> QED
    BY <2>1, <2>2, <2>3
<1>3. CASE WatchdogLooks
  <2>1. motion_age' = [motion_age EXCEPT !.stand = 0] \/ motion_age' = motion_age
    BY <1>3 DEF WatchdogLooks, Looks
  <2> QED
    BY <1>3, <2>1 DEF WatchdogLooks, Looks
<1>4. CASE TimePasses
  <2>1. /\ Older(motion_age.command, CommandTimeout + 1) \in 0 .. CommandTimeout + 1
        /\ Older(motion_age.pose, PoseTimeout) \in 0 .. PoseTimeout
    BY DEF Older
  <2> QED
    BY <1>4, <2>1 DEF TimePasses
<1>5. ASSUME UNCHANGED <<motion_age, motion_commands>> PROVE MotionCounts'
  BY <1>5
<1> QED
  BY <1>1, <1>2, <1>3, <1>4, <1>5 DEF MotionNext, motion_vars, PoseIgnored, FramePublished,
     BehaviorLocks, BehaviorChanges, RobotStateArrives

LEMMA MotionKindsKept == MotionKinds /\ [MotionNext]_motion_vars => MotionKinds'
<1> SUFFICES ASSUME MotionKinds, [MotionNext]_motion_vars PROVE MotionKinds'
  OBVIOUS
<1> USE DEF MotionKinds, Frames, NoFrame, NoWeb
<1>1. ASSUME NEW cmd \in MotionCommandKinds, Admitted(cmd) \/ StopAdmitted(cmd)
      PROVE  MotionKinds'
  BY <1>1 DEF Admitted, StopAdmitted, MotionCommand
<1>2. ASSUME NEW cmd \in MotionCommandKinds, CommandRecorded(cmd) PROVE MotionKinds'
  <2>1. PICK next : next = [target |-> Target(cmd), moving |-> Moves(cmd)]
    OBVIOUS
  <2>2. next \in Frames
    BY <2>1, CommandTyped
  <2>3. /\ motion' = [target |-> next.target, moving |-> next.moving, active |-> TRUE]
        /\ web' = [pc |-> "publishing", cmd |-> cmd,
                   frame |-> IF Publishes(cmd) THEN next ELSE NoFrame]
    BY <1>2, <2>1 DEF CommandRecorded, Records
  <2>4. /\ motion' \in [target : {"none", "running", "lie_down", "stand"}, moving : BOOLEAN,
                        active : BOOLEAN]
        /\ web' \in [pc : {"none", "admitted", "publishing"},
                     cmd : MotionCommandKinds \cup {"none"}, frame : Frames]
    BY <2>2, <2>3
  <2>5. last_pose' \in Poses \cup {"none"}
    BY <1>2 DEF CommandRecorded
  <2>6. UNCHANGED <<behavior_lock, mode, frame>>
    BY <1>2 DEF CommandRecorded, Records
  <2> QED
    BY <2>4, <2>5, <2>6
<1>3. CASE PoseIgnored
  BY <1>3 DEF PoseIgnored, GivesBack
<1>4. CASE FramePublished
  <2>1. frame' \in [target : {"none", "running", "lie_down", "stand"}, moving : BOOLEAN,
                    by : {"nobody", "web", "watchdog"}]
    BY <1>4 DEF FramePublished
  <2> QED
    BY <1>4, <2>1 DEF FramePublished, GivesBack
<1>5. CASE BehaviorLocks \/ BehaviorChanges
  BY <1>5 DEF BehaviorLocks, BehaviorChanges
<1>6. CASE WatchdogLooks
  <2>1. PICK active \in BOOLEAN : motion' = [motion EXCEPT !.active = active]
    <3>1. \E active \in BOOLEAN :
            active <=> motion.active /\ motion_age.command <= CommandTimeout
      BY Zenon
    <3> QED
      BY <1>6, <3>1, Zenon DEF WatchdogLooks, Looks
  <2>2. \/ frame' = frame
        \/ frame' = [target |-> "stand", moving |-> FALSE, by |-> "watchdog"]
    BY <1>6 DEF WatchdogLooks, Looks
  <2>3. UNCHANGED <<last_pose, web, behavior_lock, mode>>
    BY <1>6 DEF WatchdogLooks, Looks
  <2>4. motion' \in [target : {"none", "running", "lie_down", "stand"}, moving : BOOLEAN,
                     active : BOOLEAN]
    BY <2>1
  <2>5. frame' \in [target : {"none", "running", "lie_down", "stand"}, moving : BOOLEAN,
                    by : {"nobody", "web", "watchdog"}]
    <3>1. CASE frame' = frame
      BY <3>1
    <3>2. CASE frame' = [target |-> "stand", moving |-> FALSE, by |-> "watchdog"]
      BY <3>2
    <3> QED
      BY <2>2, <3>1, <3>2
  <2> QED
    BY <2>3, <2>4, <2>5
<1>7. ASSUME UNCHANGED <<motion, last_pose, web, behavior_lock, mode, frame>> PROVE MotionKinds'
  BY <1>7
<1> QED
  BY <1>1, <1>2, <1>3, <1>4, <1>5, <1>6, <1>7 DEF MotionNext, motion_vars, TimePasses,
     RobotStateArrives

LEMMA MotionFlagsKept == MotionFlags /\ [MotionNext]_motion_vars => MotionFlags'
<1> SUFFICES ASSUME MotionFlags, [MotionNext]_motion_vars PROVE MotionFlags'
  OBVIOUS
<1> USE DEF MotionFlags
<1>1. CASE WatchdogLooks \/ TimePasses
  BY <1>1, Zenon DEF WatchdogLooks, Looks, TimePasses
<1>2. CASE RobotStateArrives
  <2>1. robot_state' \in [received : BOOLEAN, blocks : BOOLEAN]
    BY <1>2 DEF RobotStateArrives
  <2> QED
    BY <1>2, <2>1, Zenon DEF RobotStateArrives
<1>3. ASSUME UNCHANGED <<watchdog_looked, robot_state>> PROVE MotionFlags'
  BY <1>3
<1>4. ASSUME NEW cmd \in MotionCommandKinds,
             Admitted(cmd) \/ StopAdmitted(cmd) \/ CommandRecorded(cmd)
      PROVE  UNCHANGED <<watchdog_looked, robot_state>>
  BY <1>4 DEF Admitted, StopAdmitted, MotionCommand, CommandRecorded, Records
<1>5. PoseIgnored \/ FramePublished \/ BehaviorLocks \/ BehaviorChanges \/ UNCHANGED motion_vars
        => UNCHANGED <<watchdog_looked, robot_state>>
  BY DEF PoseIgnored, FramePublished, BehaviorLocks, BehaviorChanges, motion_vars
<1> HIDE DEF MotionFlags
<1> QED
  BY <1>1, <1>2, <1>3, <1>4, <1>5 DEF MotionNext

LEMMA MotionTyped == MotionSpec => []MotionTypeOK
<1>1. MotionInit => MotionCounts
  BY MotionBoundAssumption DEF MotionInit, MotionCounts, CommandTimeout, PoseTimeout
<1>2. MotionInit => MotionKinds /\ MotionFlags
  <2> SUFFICES ASSUME MotionInit PROVE MotionKinds /\ MotionFlags
    OBVIOUS
  <2>1. web \in [pc : {"none", "admitted", "publishing"}, cmd : MotionCommandKinds \cup {"none"},
                 frame : Frames]
    BY DEF MotionInit, Frames, NoWeb, NoFrame
  <2>2. /\ motion \in [target : {"none", "running", "lie_down", "stand"}, moving : BOOLEAN,
                       active : BOOLEAN]
        /\ frame \in [target : {"none", "running", "lie_down", "stand"}, moving : BOOLEAN,
                      by : {"nobody", "web", "watchdog"}]
    BY DEF MotionInit
  <2>3. robot_state \in [received : BOOLEAN, blocks : BOOLEAN]
    BY DEF MotionInit
  <2>4. /\ watchdog_looked \in BOOLEAN /\ last_pose \in Poses \cup {"none"}
        /\ behavior_lock \in {"free", "web", "behavior"} /\ mode \in {"Idle", "other"}
    BY Zenon DEF MotionInit
  <2> QED
    BY <2>1, <2>2, <2>3, <2>4 DEF MotionKinds, MotionFlags
<1>3. MotionCounts /\ MotionKinds /\ MotionFlags => MotionTypeOK
  BY DEF MotionCounts, MotionKinds, MotionFlags, MotionTypeOK
<1> QED
  BY <1>1, <1>2, <1>3, MotionCounted, MotionKindsKept, MotionFlagsKept, PTL DEF MotionSpec

LEMMA ReportsTypePreserved == ReportsTypeOK /\ [ReportsNext]_reports_vars => ReportsTypeOK'
<1> SUFFICES ASSUME ReportsTypeOK, [ReportsNext]_reports_vars PROVE ReportsTypeOK'
  OBVIOUS
<1> USE ReportsAssumption DEF ReportsAssumption, Rounds, PointNumbers
<1> DEFINE Points == /\ points \in [reached : 0 .. MaxPoint, total : 0 .. MaxPoint]
                     /\ points.total > 0 => points.reached <= points.total
                     /\ reported \in [PointNumbers -> 0 .. MaxSaidOnce]
           Localized == /\ lists \in 0 .. MaxLists
                        /\ last_relocalized_round \in 0 .. MaxRound
                        /\ relocalized \in [Rounds -> Nat]
           Failures == /\ planning \in [pending : BOOLEAN, target : 0 .. MaxFailures,
                                        reason : 0 .. MaxFailures]
                       /\ failure \in [nr : 0 .. MaxFailures, lost : BOOLEAN]
           Pose == pose_pending \in BOOLEAN
<1>1. Points /\ Localized /\ Failures /\ Pose
  BY DEF ReportsTypeOK
<1>2. ASSUME NEW n \in PointNumbers, ListReceived(n) PROVE Points' /\ Localized'
  BY <1>1, <1>2 DEF ListReceived
<1>3. ASSUME NEW i \in PointNumbers, PointReached(i) PROVE Points'
  <2>1. /\ Reached(i) \in 0 .. MaxPoint
        /\ points.total > 0 => Reached(i) <= points.total
    BY <1>1 DEF Reached
  <2>2. /\ points' \in [reached : 0 .. MaxPoint, total : 0 .. MaxPoint]
        /\ points'.total = points.total /\ points'.reached = Reached(i)
    BY <1>1, <1>3, <2>1 DEF PointReached
  <2>3. reported' \in [PointNumbers -> 0 .. MaxSaidOnce]
    BY <1>1, <1>3 DEF PointReached
  <2> QED
    BY <2>1, <2>2, <2>3
<1>4. ASSUME NEW r \in Rounds, NEW usable \in BOOLEAN, RoundCompleted(r, usable)
      PROVE  Localized'
  <2>1. UNCHANGED lists /\ last_relocalized_round' \in {last_relocalized_round, r}
    BY <1>4 DEF RoundCompleted
  <2>2. CASE relocalized' = relocalized
    BY <1>1, <2>1, <2>2
  <2>3. CASE relocalized' = [relocalized EXCEPT ![r] = @ + 1]
    <3>1. relocalized[r] + 1 \in Nat
      BY <1>1
    <3>2. relocalized' \in [Rounds -> Nat]
      BY <1>1, <2>3, <3>1
    <3>3. lists' \in 0 .. MaxLists /\ last_relocalized_round' \in 0 .. MaxRound
      BY <1>1, <2>1
    <3> QED
      BY <3>2, <3>3
  <2> QED
    BY <1>4, <2>2, <2>3 DEF RoundCompleted
<1>5. ASSUME PlanningFails \/ PlanningFailsUnheard PROVE Failures'
  <2>1. failure.nr + 1 \in 0 .. MaxFailures
    BY <1>1, <1>5 DEF PlanningFails, PlanningFailsUnheard
  <2>2. CASE PlanningFails
    BY <2>1, <2>2 DEF PlanningFails
  <2>3. CASE PlanningFailsUnheard
    BY <1>1, <2>1, <2>3 DEF PlanningFailsUnheard
  <2> QED
    BY <1>5, <2>2, <2>3
<1>6. ASSUME TargetNamed \/ ReasonNamed PROVE Failures'
  <2>1. planning' \in [pending : BOOLEAN, target : 0 .. MaxFailures, reason : 0 .. MaxFailures]
    BY <1>1, <1>6 DEF TargetNamed, ReasonNamed
  <2> QED
    BY <1>1, <1>6, <2>1 DEF TargetNamed, ReasonNamed
<1>7. ASSUME FailureReported PROVE Failures'
  <2>1. planning' \in [pending : BOOLEAN, target : 0 .. MaxFailures, reason : 0 .. MaxFailures]
    BY <1>7 DEF FailureReported, Nothing
  <2>2. failure' \in [nr : 0 .. MaxFailures, lost : BOOLEAN]
    BY <1>1, <1>7 DEF FailureReported
  <2> QED
    BY <2>1, <2>2
<1>8. /\ UNCHANGED <<points, reported>> => Points'
      /\ UNCHANGED <<lists, last_relocalized_round, relocalized>> => Localized'
      /\ UNCHANGED <<planning, failure>> => Failures'
  BY <1>1
<1>9. Pose'
  BY <1>1, Zenon DEF ReportsNext, reports_vars, ListReceived, PointReached, PosePending,
     RoundCompleted, PlanningFails, PlanningFailsUnheard, TargetNamed, ReasonNamed,
     FailureReported
<1>10. ASSUME Points', Localized', Failures', Pose' PROVE ReportsTypeOK'
  BY <1>10 DEF ReportsTypeOK
<1> HIDE DEF Points, Localized, Failures, Pose, Rounds, PointNumbers
<1>11. Points' /\ Localized' /\ Failures'
  BY <1>2, <1>3, <1>4, <1>5, <1>6, <1>7, <1>8 DEF ReportsNext, reports_vars, ListReceived,
     PointReached, PosePending, RoundCompleted, PlanningFails, PlanningFailsUnheard,
     TargetNamed, ReasonNamed, FailureReported
<1> QED
  BY <1>9, <1>10, <1>11

LEMMA ReportsTyped == ReportsSpec => []ReportsTypeOK
<1>1. ReportsInit => ReportsTypeOK
  <2> SUFFICES ASSUME ReportsInit PROVE ReportsTypeOK
    OBVIOUS
  <2> USE ReportsAssumption DEF ReportsAssumption, ReportsInit
  <2>1. /\ planning \in [pending : BOOLEAN, target : 0 .. MaxFailures, reason : 0 .. MaxFailures]
        /\ failure \in [nr : 0 .. MaxFailures, lost : BOOLEAN]
    BY DEF Nothing
  <2>2. /\ points \in [reached : 0 .. MaxPoint, total : 0 .. MaxPoint]
        /\ points.total > 0 => points.reached <= points.total
    OBVIOUS
  <2>3. pose_pending \in BOOLEAN
    BY Zenon
  <2>4. /\ lists \in 0 .. MaxLists /\ last_relocalized_round \in 0 .. MaxRound
        /\ relocalized \in [Rounds -> Nat] /\ reported \in [PointNumbers -> 0 .. MaxSaidOnce]
    OBVIOUS
  <2> QED
    BY <2>1, <2>2, <2>3, <2>4 DEF ReportsTypeOK
<1> QED
  BY <1>1, ReportsTypePreserved, PTL DEF ReportsSpec

\* The threads that ask have read what was stored, whenever that was.
LEMMA RateTyped == RateSpec => []RateTypeOK
<1> USE UploadRateAssumption DEF UploadRateAssumption
<1> DEFINE Askers == [pc : {"none", "timed", "reading", "comparing"}, now : 0 .. MaxClock,
                      interval : Intervals \cup {0}, last : 0 .. MaxClock]
           Times == /\ clock \in 0 .. MaxClock /\ upload_position_interval \in Intervals
                    /\ last_upload_position \in 0 .. MaxClock /\ setters \in 0 .. MaxSetters
           Asked == asker \in [Uploaders -> Askers]
           Uploaded == uploaded \in [at : 0 .. MaxClock, reset : BOOLEAN]
<1>1. NoQuestion \in Askers
  BY DEF NoQuestion
<1>2. RateInit => Times /\ Asked /\ Uploaded
  <2>1. RateInit => Asked
    BY <1>1 DEF RateInit
  <2>2. RateInit => Uploaded
    BY DEF RateInit
  <2> QED
    BY <2>1, <2>2 DEF RateInit
<1>3. ASSUME Times, Asked, Uploaded, [RateNext]_rate_vars PROVE Times' /\ Asked' /\ Uploaded'
  <2> USE <1>3
  <2>1. ASSUME ClockTicks \/ FrequencySet PROVE Times'
    BY <2>1 DEF ClockTicks, FrequencySet
  <2>2. ASSUME LastUploadReset PROVE Times' /\ Uploaded'
    <3>1. setters - 1 \in 0 .. MaxSetters /\ 0 \in 0 .. MaxClock
      BY <2>2 DEF LastUploadReset
    <3>2. Times'
      BY <2>2, <3>1 DEF LastUploadReset
    <3>3. uploaded' = [uploaded EXCEPT !.reset = TRUE]
      BY <2>2 DEF LastUploadReset
    <3> QED
      BY <3>2, <3>3
  <2>3. ASSUME NEW t \in Uploaders, Asks(t) PROVE Asked'
    <3>1. [NoQuestion EXCEPT !.pc = "timed", !.now = clock] \in Askers
      <4>1. \A q \in Askers : [q EXCEPT !.pc = "timed", !.now = clock] \in Askers
        OBVIOUS
      <4> HIDE DEF Askers
      <4> QED
        BY <1>1, <4>1, Zenon
    <3> HIDE DEF Askers
    <3> QED
      BY <2>3, <3>1 DEF Asks
  <2>4. ASSUME NEW t \in Uploaders, ReadsInterval(t) PROVE Asked'
    <3>1. asker' = [asker EXCEPT ![t].pc = "reading",
                                 ![t].interval = upload_position_interval]
      BY <2>4 DEF ReadsInterval
    <3>2. \A q \in Askers :
            [q EXCEPT !.pc = "reading", !.interval = upload_position_interval] \in Askers
      OBVIOUS
    <3>3. asker' = [asker EXCEPT ![t] = [asker[t] EXCEPT !.pc = "reading",
                                                 !.interval = upload_position_interval]]
      BY <3>1
    <3> HIDE DEF Askers
    <3>4. [asker[t] EXCEPT !.pc = "reading", !.interval = upload_position_interval] \in Askers
      BY <3>2, Zenon
    <3> QED
      BY <3>3, <3>4
  <2>5. ASSUME NEW t \in Uploaders, ReadsLast(t) \/ ExchangeFails(t) PROVE Asked'
    BY <2>5 DEF ReadsLast, ExchangeFails
  <2>6. ASSUME NEW t \in Uploaders, NotDue(t) \/ Exchanged(t) PROVE Asked'
    <3> HIDE DEF Askers
    <3> QED
      BY <1>1, <2>6 DEF NotDue, Exchanged
  <2>7. ASSUME NEW t \in Uploaders, Exchanged(t) PROVE Times' /\ Uploaded'
    <3>1. asker[t] \in Askers
      OBVIOUS
    <3>2. asker[t].now \in 0 .. MaxClock
      BY <3>1
    <3> QED
      BY <2>7, <3>2 DEF Exchanged
  <2>8. /\ UNCHANGED <<clock, upload_position_interval, last_upload_position, setters>> => Times'
        /\ UNCHANGED asker => Asked'
        /\ UNCHANGED uploaded => Uploaded'
    OBVIOUS
  <2> HIDE DEF Times, Asked, Uploaded
  <2> QED
    BY <2>1, <2>2, <2>3, <2>4, <2>5, <2>6, <2>7, <2>8 DEF RateNext, rate_vars, ClockTicks,
       FrequencySet, LastUploadReset, Asks, ReadsInterval, ReadsLast, NotDue, ExchangeFails,
       Exchanged
<1>4. Times /\ Asked /\ Uploaded => RateTypeOK
  BY DEF RateTypeOK
<1> HIDE DEF Times, Asked, Uploaded
<1> QED
  BY <1>2, <1>3, <1>4, PTL DEF RateSpec

\* Only the deliveries are not in IntakeInv.
LEMMA IntakeTyped == IntakeSpec => []IntakeTypeOK
<1> DEFINE Counted == delivered \in [Ids -> 0 .. MaxDelivered]
<1>1. IntakeInit => Counted
  BY IntakeAssumption DEF IntakeAssumption, IntakeInit
<1>2. Counted /\ [IntakeNext]_intake_vars => Counted'
  BY IntakeAssumption DEF IntakeAssumption, IntakeNext, intake_vars, Delivers, TurnedAway,
     Duplicate, ExecutedAtOnce, GetsThread, ThreadExecutes
<1>3. IntakeInv /\ Counted => IntakeTypeOK
  BY DEF IntakeInv, IntakeTypeOK, MemoriesAgree, Range
<1> QED
  BY <1>1, <1>2, <1>3, IntakeInitially, IntakePreserved, PTL DEF IntakeSpec

\* The run of the parts is a run of each: a part takes its own steps and stays as it is
\* in those of the others.
LEMMA PartsApart ==
  /\ PartsSpec => BmsSpec /\ IntakeSpec /\ HeartbeatSpec /\ PtzSpec
  /\ PartsSpec => MotionSpec /\ ShutdownSpec /\ ReportsSpec /\ RateSpec
<1>1. PartsInit => /\ BmsInit /\ IntakeInit /\ HeartbeatInit /\ PtzInit
                   /\ MotionInit /\ ShutdownInit /\ ReportsInit /\ RateInit
  BY DEF PartsInit
<1>2. [PartsNext]_parts_vars =>
        /\ [BmsNext]_bms_vars /\ [IntakeNext]_intake_vars
        /\ [HeartbeatNext]_heartbeat_vars /\ [PtzNext]_ptz_vars
        /\ [MotionNext]_motion_vars /\ [ShutdownNext]_shutdown_vars
        /\ [ReportsNext]_reports_vars /\ [RateNext]_rate_vars
  BY DEF PartsNext, Alone, parts_vars
<1> QED
  BY <1>1, <1>2, PTL DEF PartsSpec, BmsSpec, IntakeSpec, HeartbeatSpec, PtzSpec, MotionSpec,
     ShutdownSpec, ReportsSpec, RateSpec

\* PartsTypeOK of MCParts: the counters, generations and queues of the parts stay within
\* their bounds, and what one thread leaves half done is of a kind the next one expects.
THEOREM PartsTypeCorrect == PartsSpec => []PartsTypeOK
<1>1. BmsInv => BmsTypeOK
  BY DEF BmsInv
<1>2. HeartbeatInv => HeartbeatTypeOK
  BY DEF HeartbeatInv
<1>3. ShutdownInv => ShutdownTypeOK
  BY DEF ShutdownInv
<1>4. BmsSpec => []BmsTypeOK
  BY <1>1, BmsInitially, BmsPreserved, PTL DEF BmsSpec
<1>5. HeartbeatSpec => []HeartbeatTypeOK
  BY <1>2, HeartbeatInitially, HeartbeatPreserved, PTL DEF HeartbeatSpec
<1>6. ShutdownSpec => []ShutdownTypeOK
  BY <1>3, ShutdownInitially, ShutdownPreserved, PTL DEF ShutdownSpec
<1> QED
  BY <1>4, <1>5, <1>6, PartsApart, IntakeTyped, PtzTyped, MotionTyped, ReportsTyped, RateTyped,
     PTL DEF PartsTypeOK
=============================================================================
