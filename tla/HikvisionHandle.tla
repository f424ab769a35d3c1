-------------------------- MODULE HikvisionHandle --------------------------
(***************************************************************************)
(* The camera's pan and tilt, hikvision/hikvihandle.cc.  In the continuous *)
(* mode the camera turns until it is told to stop; a watchdog stops it     *)
(* when no command has come for 800 ms.  The mutex is held over the HTTP   *)
(* request, whose answer may be lost after the camera has obeyed.          *)
(*                                                                         *)
(* Left out: where the camera looks, its limits, the reading of a command. *)
(* A relative movement leaves the watchdog's record alone; whether it ends *)
(* a continuous one is the camera's affair.                                *)
(***************************************************************************)
EXTENDS Naturals

CONSTANT MaxPtzCommands  \* bound: how many commands there are

ASSUME PtzBoundAssumption == MaxPtzCommands \in Nat

VARIABLES
  camera,             \* what the camera does
  continuous_active,  \* continuous_active_
  expired,            \* has last_continuous_command_time_ become 800 ms old?
  ptz_watchdog,       \* the watchdog's thread, with continuous_watchdog_running_
  ptz_commands,       \* how many commands there were, for the bound
  unattended          \* history: a request failed after which nobody watches the camera

ptz_vars == <<camera, continuous_active, expired, ptz_watchdog, ptz_commands, unattended>>

\* Executed and answered, not executed, executed without an answer.
PtzOutcomes == {"done", "refused", "lost"}

PtzTypeOK ==
  /\ camera \in {"still", "turning"}
  /\ continuous_active \in BOOLEAN /\ expired \in BOOLEAN
  /\ ptz_watchdog \in {"runs", "told_to_end", "ended", "destroyed"}
  /\ ptz_commands \in 0 .. MaxPtzCommands
  /\ unattended \in BOOLEAN

PtzInit ==
  /\ camera = "still"
  /\ continuous_active = FALSE /\ expired = FALSE
  /\ ptz_watchdog = "runs"
  /\ ptz_commands = 0
  /\ unattended = FALSE

-----------------------------------------------------------------------------
\* set_continuous_velocity() as the camera sees it.
Velocity(what, outcome) == camera' = IF outcome = "refused" THEN camera ELSE what

PtzCommand ==
  /\ ptz_watchdog = "runs"
  /\ ptz_commands < MaxPtzCommands
  /\ ptz_commands' = ptz_commands + 1
  /\ UNCHANGED ptz_watchdog

\* continuous_controller() with a direction.  A start that nobody has answered is not
\* recorded: it is watched only if an earlier one is.
Turn(outcome) ==
  /\ PtzCommand
  /\ Velocity("turning", outcome)
  /\ IF outcome = "done"
     THEN continuous_active' = TRUE /\ expired' = FALSE /\ unattended' = FALSE
     ELSE /\ unattended' = (unattended \/ (outcome = "lost" /\ ~continuous_active))
          /\ UNCHANGED <<continuous_active, expired>>

\* Mutant: the stop is recorded before the camera has answered.
HaltBelieved(outcome) ==
  /\ PtzCommand
  /\ Velocity("still", outcome)
  /\ continuous_active' = FALSE
  /\ unattended' = (unattended /\ outcome = "refused")
  /\ UNCHANGED expired

\* ... and with stop or back.
Halt(outcome) ==
  /\ PtzCommand
  /\ Velocity("still", outcome)
  /\ continuous_active' = IF outcome = "done" THEN FALSE ELSE continuous_active
  /\ unattended' = (unattended /\ outcome = "refused")
  /\ UNCHANGED expired

\* hikvision_controller().
RelativeMove ==
  /\ PtzCommand
  /\ camera' \in {camera, "still"}
  /\ UNCHANGED <<continuous_active, expired, unattended>>

Expires ==
  /\ continuous_active /\ ~expired
  /\ expired' = TRUE
  /\ UNCHANGED <<camera, continuous_active, ptz_watchdog, ptz_commands, unattended>>

\* continuous_watchdog_loop(), with a movement that has become too old: one attempt,
\* whatever comes of it, ...
WatchdogStops(outcome) ==
  /\ ptz_watchdog = "runs"
  /\ continuous_active /\ expired
  /\ Velocity("still", outcome)
  /\ continuous_active' = FALSE
  /\ unattended' = (outcome = "refused")
  /\ UNCHANGED <<expired, ptz_watchdog, ptz_commands>>

\* ... and when it is told to end.
WatchdogEnds ==
  /\ ptz_watchdog = "told_to_end"
  /\ ptz_watchdog' = "ended"
  /\ UNCHANGED <<camera, continuous_active, expired, ptz_commands, unattended>>

\* ~HikvisionHandle().
Destroys ==
  /\ ptz_watchdog = "runs"
  /\ ptz_watchdog' = "told_to_end"
  /\ continuous_active' = FALSE
  /\ UNCHANGED <<camera, expired, ptz_commands, unattended>>

\* Mutant: the camera is left as it is.
DestroyedQuietly(outcome) ==
  /\ ptz_watchdog = "ended"
  /\ ptz_watchdog' = "destroyed"
  /\ unattended' = (outcome = "refused")
  /\ UNCHANGED <<camera, continuous_active, expired, ptz_commands>>

Destroyed(outcome) ==
  /\ ptz_watchdog = "ended"
  /\ ptz_watchdog' = "destroyed"
  /\ Velocity("still", outcome)
  /\ unattended' = (outcome = "refused")
  /\ UNCHANGED <<continuous_active, expired, ptz_commands>>

Watches == \E o \in PtzOutcomes : WatchdogStops(o)
PtzEnds == \E o \in PtzOutcomes : Destroyed(o)

PtzNext ==
  \/ \E o \in PtzOutcomes : Turn(o) \/ Halt(o)
  \/ RelativeMove \/ Expires \/ Watches \/ WatchdogEnds
  \/ Destroys \/ PtzEnds

PtzSpec == PtzInit /\ [][PtzNext]_ptz_vars

\* Time passes, and the threads of the watchdog and of the destructor go on.
FairPtzSpec ==
  PtzSpec /\ WF_ptz_vars(Expires) /\ WF_ptz_vars(Watches)
    /\ WF_ptz_vars(WatchdogEnds) /\ WF_ptz_vars(PtzEnds)

-----------------------------------------------------------------------------
(***************************************************************************)
(* Properties.                                                             *)
(***************************************************************************)

\* A turning camera is on the watchdog's record, until the destructor takes over; the
\* exceptions are exactly a first start whose answer was lost and the watchdog's or the
\* destructor's own stop that did not reach the camera.
CameraWatched ==
  camera = "turning" =>
    continuous_active \/ unattended \/ ptz_watchdog \in {"told_to_end", "ended"}

\* When commands cease a camera that turns is stopped, the same exceptions granted: also
\* when the last stop failed, or relative movements came in between.
CameraStops == camera = "turning" ~> camera = "still" \/ unattended
=============================================================================
