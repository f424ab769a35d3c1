------------------------------ MODULE TaskState ------------------------------
(***************************************************************************)
(* Pausing and resuming a navigation task, beside Navigation.  The robot   *)
(* offers a service that toggles, the cloud asks for a state, so the       *)
(* gateway keeps a record of the robot's state, a queue of requests and at *)
(* most one toggle under way.  The record is also written by the lines the *)
(* robot prints when it pauses and resumes, which arrive later.            *)
(***************************************************************************)
EXTENDS Navigation, SequencesExt

CONSTANTS
  MaxRequests,  \* bound: no request is admitted while so many are queued
  MaxSaid       \* bound: the robot is toggled only while fewer lines are unread

ASSUME TaskBoundsAssumption == MaxRequests \in Nat /\ MaxSaid \in Nat

Wanted == {"paused", "running"}
NoToggle == "none"
Toggle == "toggle"  \* the service is being called, under the mutex

\* No thread has the toggle's name, and the lines about pausing are the ones of this module.
ASSUME ToggleAssumption    == Toggle \notin Workers
ASSUME TaskLinesAssumption == Lines \cap {"paused", "resumed"} = {}

VARIABLES
  task_paused,   \* task_paused_, as the state it records
  requested,     \* task_state_requests_
  working,       \* task_state_worker_running_
  transition,    \* active_task_state_request_ and task_state_transition_active_
  togglers,      \* service threads that wait for the mutex, by their generation
  standing,      \* the state the robot is really in
  said           \* the lines the robot has printed and the gateway has not read

record == <<task_paused, requested, working, transition, togglers>>
robot == <<standing, said>>
task_vars == <<record, robot>>
both_vars == <<vars, task_vars>>

TaskTypeOK ==
  /\ lock \in Holders \cup Workers \cup {Free, Toggle}
  /\ task_paused \in Wanted
  /\ requested \in Seq(Wanted) /\ Len(requested) <= MaxRequests
  /\ working \in BOOLEAN
  /\ transition \in Wanted \cup {NoToggle}
  /\ togglers \subseteq 0..fsm.generation
  /\ standing \in Wanted
  /\ said \in Seq(Wanted)

TaskInit ==
  /\ Init
  /\ task_paused = "running"
  /\ requested = <<>>
  /\ working = FALSE
  /\ transition = NoToggle
  /\ togglers = {}
  /\ standing = "running"
  /\ said = <<>>

-----------------------------------------------------------------------------
\* process_next_task_state_request() over the queue q when the record says paused:
\* requests for that state are answered at once, the first other one is carried out.
ProcessNext(q, paused) ==
  LET first == SelectInSeq(q, LAMBDA target : target # paused) IN
  IF first = 0
  THEN /\ requested' = <<>>
       /\ working' = FALSE
       /\ transition' = NoToggle
       /\ UNCHANGED togglers
  ELSE /\ requested' = SubSeq(q, first + 1, Len(q))
       /\ working' = TRUE
       /\ transition' = q[first]
       /\ togglers' = togglers \cup {fsm.generation}

\* pause_task and resume_task: enqueue_task_state_request() under the mutex.
TaskStateRequested(target) ==
  /\ lock = Free
  /\ admit_behavior_command("pause_task")
  /\ Len(requested) < MaxRequests
  /\ IF working
     THEN /\ requested' = Append(requested, target)
          /\ UNCHANGED <<working, transition, togglers>>
     ELSE ProcessNext(Append(requested, target), task_paused)
  /\ UNCHANGED <<vars, task_paused, robot>>

\* exec_rosservice_cmd() of a generation that is over: the transition is left as it is.
ToggleTooLate(g) ==
  /\ lock = Free
  /\ g \in togglers
  /\ ~navigation_current(fsm, g)
  /\ togglers' = togglers \ {g}
  /\ UNCHANGED <<vars, task_paused, requested, working, transition, robot>>

ToggleCalled(g) ==
  /\ lock = Free
  /\ g \in togglers
  /\ navigation_current(fsm, g)
  /\ togglers' = togglers \ {g}
  /\ lock' = Toggle
  /\ UNCHANGED <<fsm, active_command, requests, threads, flags, machine,
                 task_paused, requested, working, transition, robot>>

\* The robot toggles and says so.
Toggled ==
  /\ Len(said) < MaxSaid
  /\ standing' \in Wanted \ {standing}
  /\ said' = Append(said, standing')

\* Mutant: a failed toggle leaves its transition active.
ToggleReturnsOnSuccess(success) ==
  /\ lock = Toggle
  /\ lock' = Free
  /\ IF success THEN Toggled ELSE Toggled \/ UNCHANGED robot
  /\ task_paused' = IF success THEN transition ELSE task_paused
  /\ fsm' = IF success THEN task_state(fsm, IF transition = "paused" THEN "Paused" ELSE "Running")
            ELSE fsm
  /\ IF success THEN ProcessNext(requested, task_paused')
     ELSE UNCHANGED <<requested, working, transition, togglers>>
  /\ UNCHANGED <<active_command, requests, threads, flags, machine>>

\* complete_task_state_transition(): a call that failed may have toggled all the same.
ToggleReturns(success) ==
  /\ lock = Toggle
  /\ lock' = Free
  /\ IF success THEN Toggled ELSE Toggled \/ UNCHANGED robot
  /\ task_paused' = IF success THEN transition ELSE task_paused
  /\ fsm' = IF success THEN task_state(fsm, IF transition = "paused" THEN "Paused" ELSE "Running")
            ELSE fsm
  /\ ProcessNext(requested, task_paused')
  /\ UNCHANGED <<active_command, requests, threads, flags, machine>>

\* Mutant: the line is only passed on to the cloud and the state machine.
TaskStateLineIgnored ==
  /\ lock = Free
  /\ said # <<>>
  /\ said' = Tail(said)
  /\ fsm' = task_state(fsm, IF Head(said) = "paused" THEN "Paused" ELSE "Running")
  /\ UNCHANGED <<lock, active_command, requests, threads, flags, machine, record, standing>>

\* The lines 任务暂停 and 检测到从暂停中恢复, in the order they were printed.
TaskStateLineRead ==
  /\ lock = Free
  /\ said # <<>>
  /\ said' = Tail(said)
  /\ fsm' = task_state(fsm, IF Head(said) = "paused" THEN "Paused" ELSE "Running")
  /\ task_paused' = IF is_navigation(fsm) THEN Head(said) ELSE task_paused
  /\ UNCHANGED <<lock, active_command, requests, threads, flags, machine,
                 requested, working, transition, togglers, standing>>

\* A task that was started runs, unless requests about the last one are under way.
TaskServiceReturns(w, success) ==
  /\ ServiceReturns(w, success)
  /\ IF success /\ worker[w].type = "start_task" /\ navigation_current(fsm, worker[w].generation)
     THEN /\ task_paused' = IF working THEN task_paused ELSE "running"
          /\ standing' \in {standing, "running"}
     ELSE UNCHANGED <<task_paused, standing>>
  /\ UNCHANGED <<requested, working, transition, togglers, said>>

\* Mutant: a stop does not clear the requests.
StopKeepsTask == StopBegins /\ UNCHANGED task_vars

\* The part of invalidate_navigation_requests() about the task.
StopForgetsTask ==
  /\ StopBegins
  /\ task_paused' = "running"
  /\ requested' = <<>>
  /\ working' = FALSE
  /\ transition' = NoToggle
  /\ UNCHANGED <<togglers, robot>>

-----------------------------------------------------------------------------
NavigationWorkerStep(w) ==
  \/ PreparedTooLate(w)
  \/ PreparationFails(w)
  \/ EnvironmentLaunched(w)
  \/ ServiceTooLate(w)
  \/ ServiceCalled(w)

NavigationStep ==
  \/ CloudStep
  \/ StartStep
  \/ StopCleansUp
  \/ StopVerifies
  \/ \E w \in Workers : NavigationWorkerStep(w)
  \/ \E t \in timers : TimeoutFires(t[1], t[2])
  \/ \E t \in thrown : ExceptionHandled(t[1], t[2])
  \/ LineRead
  \/ MachineStep

ToggleStep ==
  \/ \E g \in togglers : ToggleTooLate(g) \/ ToggleCalled(g)
  \/ \E success \in BOOLEAN : ToggleReturns(success)

TaskNext ==
  \/ NavigationStep /\ UNCHANGED task_vars
  \/ StopForgetsTask
  \/ \E w \in Workers, success \in BOOLEAN : TaskServiceReturns(w, success)
  \/ \E target \in Wanted : TaskStateRequested(target)
  \/ ToggleStep
  \/ TaskStateLineRead

TaskSpec == TaskInit /\ [][TaskNext]_both_vars

\* As in Navigation; and a line that was printed is delivered.
TaskFairness ==
  /\ WF_both_vars((StartStep \/ StopCleansUp \/ StopVerifies) /\ UNCHANGED task_vars)
  /\ WF_both_vars(StopForgetsTask)
  /\ \A w \in Workers :
       WF_both_vars(\/ NavigationWorkerStep(w) /\ UNCHANGED task_vars
                    \/ \E success \in BOOLEAN : TaskServiceReturns(w, success))
  /\ WF_both_vars(ToggleStep)
  /\ WF_both_vars(TaskStateLineRead)

FairTaskSpec == TaskSpec /\ TaskFairness

-----------------------------------------------------------------------------
(***************************************************************************)
(* Safety.                                                                 *)
(***************************************************************************)

\* The queue is never stuck: the flag that makes enqueue_task_state_request() leave
\* the work to others is up only while there are others, a thread of this very
\* generation that is about to call the service or is calling it.
QueueHasWorker ==
  /\ working <=> transition # NoToggle
  /\ requested # <<>> => working
  /\ working => lock = Toggle \/ \E g \in togglers : navigation_current(fsm, g)

\* The two records of the task's state are written by different calls in different
\* orders; the state machine never shows Paused while the queue takes the task for
\* a running one and would pause it again, which resumes it.
PauseRecordsAgree == fsm.task_status = "Paused" => task_paused = "paused"

\* The safety of the pause queue: the types, a worker, records that agree.
TaskInv == TaskTypeOK /\ QueueHasWorker /\ PauseRecordsAgree

\* When every line has been read the record is right, whatever toggles failed or took
\* effect late and whatever is under way; a later request for the other state toggles the
\* robot the right way.  A stop and a task that is started assume that the robot runs, so
\* it holds of the first generation until a task has been started.
QuietRecordIsRight ==
  /\ said = <<>>
  /\ fsm.generation <= 1
  /\ \A w \in Workers : worker[w].type # "start_task"
  => task_paused = standing

-----------------------------------------------------------------------------
(***************************************************************************)
(* Liveness, under FairTaskSpec.                                           *)
(***************************************************************************)

\* A cloud that stops asking gets its answers: the queue empties, by answering the
\* requests or by a stop that drops them.
RequestsAnswered ==
  \/ working ~> ~working
  \/ []<><<\E target \in Wanted : TaskStateRequested(target)>>_both_vars
=============================================================================
