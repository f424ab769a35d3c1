------------------------------ MODULE MCParts ------------------------------
(***************************************************************************)
(* The small parts of the robot that have nothing to do with one another,  *)
(* for TLC: the first state picks one, and only this one goes on.  The     *)
(* state space is the sum of theirs.                                       *)
(***************************************************************************)
EXTENDS BmsForwarder, CommandIntake, Heartbeat, HikvisionHandle, MotionHandle, Shutdown,
        TaskReports, UploadRate

VARIABLE part

Parts == {"bms", "intake", "heartbeat", "ptz", "motion", "shutdown", "reports", "rate"}

parts_vars == <<part, bms_vars, intake_vars, heartbeat_vars, ptz_vars, motion_vars,
                shutdown_vars, reports_vars, rate_vars>>

PartsInit ==
  /\ part \in Parts
  /\ BmsInit /\ IntakeInit /\ HeartbeatInit /\ PtzInit /\ MotionInit /\ ShutdownInit
  /\ ReportsInit /\ RateInit

\* The part takes a step and the others stay where they are.
Alone(name, step) ==
  /\ part = name
  /\ step
  /\ IF name = "bms" THEN TRUE ELSE UNCHANGED bms_vars
  /\ IF name = "intake" THEN TRUE ELSE UNCHANGED intake_vars
  /\ IF name = "heartbeat" THEN TRUE ELSE UNCHANGED heartbeat_vars
  /\ IF name = "ptz" THEN TRUE ELSE UNCHANGED ptz_vars
  /\ IF name = "motion" THEN TRUE ELSE UNCHANGED motion_vars
  /\ IF name = "shutdown" THEN TRUE ELSE UNCHANGED shutdown_vars
  /\ IF name = "reports" THEN TRUE ELSE UNCHANGED reports_vars
  /\ IF name = "rate" THEN TRUE ELSE UNCHANGED rate_vars
  /\ UNCHANGED part

PartsNext ==
  \/ Alone("bms", BmsNext)
  \/ Alone("intake", IntakeNext)
  \/ Alone("heartbeat", HeartbeatNext)
  \/ Alone("ptz", PtzNext)
  \/ Alone("motion", MotionNext)
  \/ Alone("shutdown", ShutdownNext)
  \/ Alone("reports", ReportsNext)
  \/ Alone("rate", RateNext)

\* The fairness of FairShutdownSpec and of FairPtzSpec.
PartsFairness ==
  /\ WF_parts_vars(Alone("shutdown", MainGoesOn))
  /\ WF_parts_vars(Alone("shutdown", MessageDone))
  /\ WF_parts_vars(Alone("shutdown", ClientThreadEnds))
  /\ \A t \in GatewayThreads :
       /\ WF_parts_vars(Alone("shutdown", GatewaySendReturns(t)))
       /\ WF_parts_vars(Alone("shutdown", GatewayThreadEnds(t)))
  /\ \A t \in ExecutorThreads :
       /\ WF_parts_vars(Alone("shutdown", ExecutorSendReturns(t)))
       /\ WF_parts_vars(Alone("shutdown", ExecutorThreadEnds(t)))
  /\ WF_parts_vars(Alone("ptz", Expires))
  /\ WF_parts_vars(Alone("ptz", Watches))
  /\ WF_parts_vars(Alone("ptz", WatchdogEnds))
  /\ WF_parts_vars(Alone("ptz", PtzEnds))

PartsSpec == PartsInit /\ [][PartsNext]_parts_vars /\ PartsFairness

\* Each part is well typed.
PartsTypeOK ==
  /\ BmsTypeOK /\ IntakeTypeOK /\ HeartbeatTypeOK /\ PtzTypeOK /\ MotionTypeOK
  /\ ShutdownTypeOK /\ ReportsTypeOK /\ RateTypeOK
=============================================================================
