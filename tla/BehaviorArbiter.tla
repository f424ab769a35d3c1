--------------------------- MODULE BehaviorArbiter ---------------------------
(***************************************************************************)
(* What the behaviour layer promises, without how: at most one behaviour   *)
(* owns the robot, a behaviour is taken away only by way of a stop, and    *)
(* ownership is granted or revoked under an epoch that was never used      *)
(* before, so that work tagged with an older epoch can be told apart.      *)
(*                                                                         *)
(* owner is RobotFsm's motion_mode with the phases of one behaviour put    *)
(* together, epoch its generation.  FSM_DESIGN.md states the exclusion and *)
(* the role of the generation in words.                                    *)
(***************************************************************************)
EXTENDS Naturals

VARIABLES owner, epoch

Owner == {"nobody", "navigation", "follow", "mapping", "stopping", "fault"}

ArbiterInit == owner = "nobody" /\ epoch = 0

\* Only a robot nobody owns is handed to navigation or mapping.
Grant ==
  /\ owner = "nobody"
  /\ owner' \in {"navigation", "mapping"}
  /\ epoch' = epoch + 1

\* Mapping is not preempted, a follow has a stop of its own.
Revoke ==
  /\ owner \in {"nobody", "navigation", "fault"}
  /\ owner' = "stopping"
  /\ epoch' = epoch + 1

\* The stop ends: the robot is free, goes to the follow that asked, or is at fault.
Settle ==
  /\ owner = "stopping"
  /\ owner' \in {"nobody", "follow", "fault"}
  /\ UNCHANGED epoch

\* A navigation start that came to nothing, and a map that is done.
GiveBack ==
  /\ owner \in {"navigation", "mapping"}
  /\ owner' = "nobody"
  /\ UNCHANGED epoch

\* A behaviour fails in place: a start in its own epoch, a mapping in a new one,
\* a follow in its own when its backend refuses it.
Fail ==
  /\ owner' = "fault"
  /\ \/ owner \in {"navigation", "follow"} /\ UNCHANGED epoch
     \/ owner = "mapping" /\ epoch' = epoch + 1

EndFollow ==
  /\ owner = "follow"
  /\ owner' \in {"nobody", "fault"}
  /\ epoch' = epoch + 1

ArbiterNext == Grant \/ Revoke \/ Settle \/ GiveBack \/ Fail \/ EndFollow

ArbiterSpec == ArbiterInit /\ [][ArbiterNext]_<<owner, epoch>>

Behaviour == {"navigation", "follow", "mapping"}

\* An epoch in which a behaviour owned the robot is that behaviour's to the end: as long
\* as it lasts the robot may be free or at fault, but it is not stopping, and no other
\* behaviour gets it.  This is what a thread relies on that compares generations.
EpochHasOneOwner ==
  \A e \in Nat, b \in Behaviour :
    []((epoch = e /\ owner = b) => [](epoch = e => owner \in {b, "nobody", "fault"}))
=============================================================================
