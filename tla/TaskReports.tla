---------------------------- MODULE TaskReports ----------------------------
(***************************************************************************)
(* What CommandExecutor tells the cloud of a running task, from the lines  *)
(* that the robot's nodes print: the points reached, the rounds completed  *)
(* and a path that cannot be planned.  After a round it also publishes     *)
(* /initialpose, the pose it has last heard of.                            *)
(*                                                                         *)
(* Commands and lines are handled with behavior_execution_mutex_, so each  *)
(* is an action.  A line is bound to no task and to no node: any line may  *)
(* come at any time, late or twice, and lines are lost when the queue of   *)
(* the subscription is full.                                               *)
(*                                                                         *)
(* Left out: what the messages say; the lines about recharging, which are  *)
(* passed on as they are; lines outside navigation, which are not read.    *)
(***************************************************************************)
EXTENDS Naturals

CONSTANTS
  MaxPoint,    \* bound: the highest number of a point that is printed
  MaxRound,    \* bound: ... and of a round
  MaxLists,    \* bound: how many lists of points are sent
  MaxSaidOnce, \* bound: how often a task reports one point
  MaxFailures  \* bound: how often planning fails

ASSUME ReportsAssumption ==
  /\ MaxPoint \in Nat /\ MaxRound \in Nat /\ MaxLists \in Nat /\ MaxFailures \in Nat
  /\ MaxSaidOnce \in Nat

VARIABLES
  lists,                   \* how many lists of points there were, for the bound
  last_relocalized_round,  \* last_relocalized_round_
  pose_pending,            \* initial_pose_pending_
  points,                  \* task_execution_reached_points_ and ..._total_points_
  planning,                \* navigation_planning_failure_pending_, and of which failure
                           \* its target and its reason are, 0 if there is none
  failure,                 \* which failure is printed, was its first line lost
  relocalized,             \* history: how often each round of this task published a pose
  reported                 \* history: how often each point of this task was reported

reports_vars == <<lists, last_relocalized_round, pose_pending, points, planning, failure,
                  relocalized, reported>>

Rounds == 1 .. MaxRound
PointNumbers == 1 .. MaxPoint
Nothing == [pending |-> FALSE, target |-> 0, reason |-> 0]

ReportsTypeOK ==
  /\ lists \in 0 .. MaxLists
  /\ last_relocalized_round \in 0 .. MaxRound
  /\ pose_pending \in BOOLEAN
  /\ points \in [reached : 0 .. MaxPoint, total : 0 .. MaxPoint]
  /\ points.total > 0 => points.reached <= points.total
  /\ planning \in [pending : BOOLEAN, target : 0 .. MaxFailures, reason : 0 .. MaxFailures]
  /\ failure \in [nr : 0 .. MaxFailures, lost : BOOLEAN]
  /\ relocalized \in [Rounds -> Nat]
  /\ reported \in [PointNumbers -> 0 .. MaxSaidOnce]

ReportsInit ==
  /\ lists = 0
  /\ last_relocalized_round = 0
  /\ pose_pending = FALSE
  /\ points = [reached |-> 0, total |-> 0]
  /\ planning = Nothing
  /\ failure = [nr |-> 0, lost |-> FALSE]
  /\ relocalized = [r \in Rounds |-> 0]
  /\ reported = [i \in PointNumbers |-> 0]

-----------------------------------------------------------------------------
\* Commands.

\* handle_navigation_task().
ListReceived(total) ==
  /\ lists < MaxLists
  /\ lists' = lists + 1
  /\ last_relocalized_round' = 0
  /\ points' = [reached |-> 0, total |-> total]
  /\ relocalized' = [r \in Rounds |-> 0]
  /\ reported' = [i \in PointNumbers |-> 0]
  /\ UNCHANGED <<pose_pending, planning, failure>>

\* handle_initial_pose(), and its result, its timeout or a stop.
PosePending ==
  /\ pose_pending' = ~pose_pending
  /\ UNCHANGED <<lists, last_relocalized_round, points, planning, failure, relocalized, reported>>

-----------------------------------------------------------------------------
\* initial_pose_rosout_callback().

NewRound(r) == r > last_relocalized_round

\* A round is used up also if nothing can be published: no pose was heard of in the last
\* two seconds, or one that is not a pose on the map.
RoundCompleted(r, usable) ==
  /\ IF NewRound(r)
     THEN /\ last_relocalized_round' = r
          /\ relocalized' = IF usable /\ ~pose_pending THEN [relocalized EXCEPT ![r] = @ + 1]
                            ELSE relocalized
     ELSE UNCHANGED <<last_relocalized_round, relocalized>>
  /\ UNCHANGED <<lists, pose_pending, points, planning, failure, reported>>

\* A number beyond the list counts as its last point.
Reached(i) == IF points.total > 0 /\ i > points.total THEN points.total ELSE i

\* Mutant: the point that was reached last is reported once more.
NoPointAgain(i) == i >= points.reached

NewPoint(i) == i > points.reached

PointReached(i) ==
  /\ NewPoint(i)
  /\ reported[i] < MaxSaidOnce
  /\ points' = [points EXCEPT !.reached = Reached(i)]
  /\ reported' = [reported EXCEPT ![i] = @ + 1]
  /\ UNCHANGED <<lists, last_relocalized_round, pose_pending, planning, failure, relocalized>>

-----------------------------------------------------------------------------
\* handle_navigation_planning_rosout(): a failure is printed in several lines.

PlanningFails ==
  /\ failure.nr < MaxFailures
  /\ failure' = [nr |-> failure.nr + 1, lost |-> FALSE]
  /\ planning' = [pending |-> TRUE, target |-> 0, reason |-> 0]
  /\ UNCHANGED <<lists, last_relocalized_round, pose_pending, points, relocalized, reported>>

\* The first line is lost.
PlanningFailsUnheard ==
  /\ failure.nr < MaxFailures
  /\ failure' = [nr |-> failure.nr + 1, lost |-> TRUE]
  /\ UNCHANGED <<lists, last_relocalized_round, pose_pending, points, planning, relocalized,
                 reported>>

\* The lines that name the target, if it can be read, and the reason.
TargetNamed ==
  /\ failure.nr > 0
  /\ \E target \in {failure.nr, planning.target} :
       planning' = [planning EXCEPT !.pending = TRUE, !.target = target]
  /\ UNCHANGED <<lists, last_relocalized_round, pose_pending, points, failure, relocalized, reported>>

ReasonNamed ==
  /\ failure.nr > 0
  /\ planning' = [planning EXCEPT !.pending = TRUE, !.reason = failure.nr]
  /\ UNCHANGED <<lists, last_relocalized_round, pose_pending, points, failure, relocalized, reported>>

\* send_navigation_planning_failure(), at the last line: what is there is reported.
FailureReported ==
  /\ planning.pending
  /\ planning' = Nothing
  /\ failure' = [failure EXCEPT !.lost = FALSE]
  /\ UNCHANGED <<lists, last_relocalized_round, pose_pending, points, relocalized, reported>>

ReportsNext ==
  \/ \E n \in PointNumbers : ListReceived(n) \/ PointReached(n)
  \/ PosePending
  \/ \E r \in Rounds, usable \in BOOLEAN : RoundCompleted(r, usable)
  \/ PlanningFails \/ PlanningFailsUnheard \/ TargetNamed \/ ReasonNamed \/ FailureReported

ReportsSpec == ReportsInit /\ [][ReportsNext]_reports_vars

-----------------------------------------------------------------------------
(***************************************************************************)
(* Safety.                                                                 *)
(***************************************************************************)

\* The comment in the callback: "duplicate rosout must not reset localization".  However
\* often and in whichever order the lines of rounds come, a task publishes the pose once
\* for a round at most.
RoundsOnce == \A r \in Rounds : relocalized[r] <= 1

\* A point of the list is reported once, in spite of lines that come twice or late.  Points
\* beyond the list, which an earlier list that was not cleared may have, are reported as
\* often as they are printed.
PointsOnce ==
  \A i \in PointNumbers : points.total = 0 \/ i <= points.total => reported[i] <= 1

\* A report of a failure never mixes two failures, unless the first line of the second was
\* lost: an older one may have been left without its last line.
OneFailureTold ==
  planning.target # 0 /\ planning.reason # 0 /\ planning.target # planning.reason => failure.lost

\* The lines of a task come late, twice or not at all; what is made of them is told once.
ReportedOnce == RoundsOnce /\ PointsOnce /\ OneFailureTold
=============================================================================
