---------------------------- MODULE CommandIntake ----------------------------
(***************************************************************************)
(* gateway::on_message(), gateway.cc: what becomes of a command that the   *)
(* Web server sends, and sends again when it misses an answer.  It runs on *)
(* the one client thread.  Motion commands are executed at once, there;    *)
(* device messages are passed on at once; every other command is given a   *)
(* thread of its own, which runs when it likes.                            *)
(*                                                                         *)
(* The ids of the last CacheLimit commands are remembered twice, in the    *)
(* order they came and as a set.                                           *)
(*                                                                         *)
(* Left out: what the messages say, those that are no JSON object, those   *)
(* without an id (nothing is remembered of them, and they are executed as  *)
(* often as they come), the notice that the robot was kicked, and the      *)
(* remote control, for which nobody listens (setup() does not start the    *)
(* local server).                                                          *)
(***************************************************************************)
EXTENDS Naturals, FiniteSets, Sequences, Functions

CONSTANTS
  MotionIds,     \* the ids of control and action_control commands
  DeviceIds,     \* ... of broadcast, roboticarm and ai_recognition messages
  OtherIds,      \* ... of all other commands
  CacheLimit,    \* kRecentCommandCacheLimit_
  MaxDelivered   \* bound: how often an id is delivered

Ids == MotionIds \cup DeviceIds \cup OtherIds

ASSUME IntakeAssumption ==
  /\ CacheLimit \in Nat \ {0} /\ MaxDelivered \in Nat
  /\ MotionIds \cap DeviceIds = {} /\ OtherIds \cap (MotionIds \cup DeviceIds) = {}

VARIABLES
  recent_command_ids,     \* recent_command_ids_, the oldest first
  recent_command_id_set,  \* recent_command_id_set_
  intake_workers,         \* workers_: how many threads wait to execute the id
  delivered,              \* history: how often the id was delivered
  executed,               \* history: how often it was executed
  since                   \* history: which ids were remembered after it was

intake_vars == <<recent_command_ids, recent_command_id_set, intake_workers,
                 delivered, executed, since>>

IntakeTypeOK ==
  /\ recent_command_ids \in Seq(Ids) /\ Len(recent_command_ids) <= CacheLimit
  /\ recent_command_id_set \in SUBSET Ids
  /\ intake_workers \in [Ids -> Nat]
  /\ delivered \in [Ids -> 0 .. MaxDelivered]
  /\ executed \in [Ids -> Nat]
  /\ since \in [Ids -> SUBSET Ids]

IntakeInit ==
  /\ recent_command_ids = << >>
  /\ recent_command_id_set = {}
  /\ intake_workers = [i \in Ids |-> 0]
  /\ delivered = [i \in Ids |-> 0]
  /\ executed = [i \in Ids |-> 0]
  /\ since = [i \in Ids |-> {}]

-----------------------------------------------------------------------------
Delivers(i) ==
  /\ delivered[i] < MaxDelivered
  /\ delivered' = [delivered EXCEPT ![i] = @ + 1]

NoTrace == UNCHANGED <<recent_command_ids, recent_command_id_set, intake_workers, executed, since>>

\* Mutant: a memory is full when it holds one id too many.
RemembersOneMore(i) ==
  LET ids == Append(recent_command_ids, i)
      full == Len(ids) > CacheLimit + 1
  IN /\ recent_command_ids' = IF full THEN Tail(ids) ELSE ids
     /\ recent_command_id_set' =
          (recent_command_id_set \cup {i}) \ (IF full THEN {Head(ids)} ELSE {})
     /\ since' = [j \in Ids |-> IF j = i THEN {} ELSE since[j] \cup {i}]

\* Mutant: a full memory is emptied.
ForgetsAll(i) ==
  /\ IF Len(recent_command_ids) = CacheLimit
     THEN recent_command_ids' = <<i>> /\ recent_command_id_set' = {i}
     ELSE /\ recent_command_ids' = Append(recent_command_ids, i)
          /\ recent_command_id_set' = recent_command_id_set \cup {i}
  /\ since' = [j \in Ids |-> IF j = i THEN {} ELSE since[j] \cup {i}]

\* is_duplicate_command() has not found the id.
Remembers(i) ==
  LET ids == Append(recent_command_ids, i)
      full == Len(ids) > CacheLimit
  IN /\ recent_command_ids' = IF full THEN Tail(ids) ELSE ids
     /\ recent_command_id_set' =
          (recent_command_id_set \cup {i}) \ (IF full THEN {Head(ids)} ELSE {})
     /\ since' = [j \in Ids |-> IF j = i THEN {} ELSE since[j] \cup {i}]

\* Mutant: an expired command is remembered before it is turned away.
ExpiredRemembered(i) ==
  /\ i \notin DeviceIds
  /\ Delivers(i)
  /\ IF i \in recent_command_id_set
     THEN UNCHANGED <<recent_command_ids, recent_command_id_set, since>>
     ELSE Remembers(i)
  /\ UNCHANGED <<intake_workers, executed>>

\* is_command_expired() turns a command away before its id is looked at.  Device messages
\* do not expire, one for another robot is dropped as early.
TurnedAway(i) ==
  /\ Delivers(i)
  /\ NoTrace

Duplicate(i) ==
  /\ i \in recent_command_id_set
  /\ Delivers(i)
  /\ NoTrace

ExecutedAtOnce(i) ==
  /\ i \in MotionIds \cup DeviceIds
  /\ i \notin recent_command_id_set
  /\ Delivers(i)
  /\ Remembers(i)
  /\ executed' = [executed EXCEPT ![i] = @ + 1]
  /\ UNCHANGED intake_workers

GetsThread(i) ==
  /\ i \in OtherIds
  /\ i \notin recent_command_id_set
  /\ Delivers(i)
  /\ Remembers(i)
  /\ intake_workers' = [intake_workers EXCEPT ![i] = @ + 1]
  /\ UNCHANGED executed

ThreadExecutes(i) ==
  /\ intake_workers[i] > 0
  /\ intake_workers' = [intake_workers EXCEPT ![i] = @ - 1]
  /\ executed' = [executed EXCEPT ![i] = @ + 1]
  /\ UNCHANGED <<recent_command_ids, recent_command_id_set, delivered, since>>

IntakeNext ==
  \E i \in Ids : \/ TurnedAway(i) \/ Duplicate(i) \/ ExecutedAtOnce(i)
                 \/ GetsThread(i) \/ ThreadExecutes(i)

IntakeSpec == IntakeInit /\ [][IntakeNext]_intake_vars

-----------------------------------------------------------------------------
(***************************************************************************)
(* Safety.                                                                 *)
(***************************************************************************)

\* The two memories are one: what the set refuses is what the queue will release again.
\* An id left in the set alone would be refused for ever.
MemoriesAgree ==
  /\ recent_command_id_set = Range(recent_command_ids)
  /\ IsInjective(recent_command_ids)

\* A command is refused as a duplicate only if a copy of it was executed or has a thread
\* that will: the copy that was too old does not stop the retry that is in time.
RefusedWasDone ==
  \A i \in recent_command_id_set : executed[i] + intake_workers[i] > 0

\* The filter is_duplicate_command(): it refuses what it can release again, and only
\* what was done.
RefusedRightly == MemoriesAgree /\ RefusedWasDone

\* A command is taken a second time only after CacheLimit others were taken in between.
TakenAgain(i) ==
  executed[i] + intake_workers[i] > 0
    /\ executed'[i] + intake_workers'[i] > executed[i] + intake_workers[i]

RetriesFiltered ==
  [][\A i \in Ids : TakenAgain(i) =>
       Cardinality(since[i]) >= CacheLimit]_intake_vars
=============================================================================
