------------------------------ MODULE Shutdown ------------------------------
(***************************************************************************)
(* The end of main(): gateway::stop(), then ~CommandExecutor(), then       *)
(* ~gateway(), against the threads of either.  Threads of the gateway      *)
(* execute commands and diagnose the network; they and the client thread   *)
(* call the executor.  Threads of the executor download maps, wait for     *)
(* timeouts and call services; some launch others when they are about to   *)
(* end.                                                                    *)
(*                                                                         *)
(* main() has left ros::spin(): there are no ROS callbacks.  The telemetry *)
(* thread, which is joined like a worker, and the other parts that main()  *)
(* stops are left out.                                                     *)
(***************************************************************************)
CONSTANTS
  GatewayThreads,   \* the threads of workers_ there may ever be
  ExecutorThreads   \* ... and of background_workers_

VARIABLES
  main_pc,             \* how far main() is
  stopping,            \* stopping_
  shutting_down,       \* shutting_down_
  client_thread,       \* what the client thread does
  gateway_thread,      \* what each thread of the gateway does
  waited_for,          \* the threads whose futures main() has taken out of workers_
  workers,             \* workers_
  executor_thread,     \* what each thread of the executor does
  background_workers,  \* background_workers_
  joining              \* the threads that ~CommandExecutor() has taken out of it

gateway_vars == <<stopping, client_thread, gateway_thread, waited_for, workers>>
executor_vars == <<shutting_down, executor_thread, background_workers, joining>>
shutdown_vars == <<main_pc, gateway_vars, executor_vars>>

MainSteps == <<"running", "stopping", "joining_client", "taking_workers", "waiting_workers",
               "gateway_stopped", "destroying", "joining_background", "executor_gone">>

ShutdownTypeOK ==
  /\ main_pc \in {MainSteps[i] : i \in DOMAIN MainSteps}
  /\ stopping \in BOOLEAN /\ shutting_down \in BOOLEAN
  /\ client_thread \in {"waiting", "in_callback", "ended"}
  /\ gateway_thread \in [GatewayThreads -> {"unborn", "busy", "sending", "ended"}]
  /\ waited_for \in SUBSET GatewayThreads /\ workers \in SUBSET GatewayThreads
  /\ executor_thread \in [ExecutorThreads -> {"unborn", "busy", "sending", "ended"}]
  /\ background_workers \in SUBSET ExecutorThreads /\ joining \in SUBSET ExecutorThreads

ShutdownInit ==
  /\ main_pc = "running"
  /\ stopping = FALSE /\ shutting_down = FALSE
  /\ client_thread = "waiting"
  /\ gateway_thread = [t \in GatewayThreads |-> "unborn"]
  /\ waited_for = {} /\ workers = {}
  /\ executor_thread = [t \in ExecutorThreads |-> "unborn"]
  /\ background_workers = {} /\ joining = {}

-----------------------------------------------------------------------------
\* The client thread.

MessageTaken ==
  /\ client_thread = "waiting" /\ main_pc \in {"running", "stopping"}
  /\ client_thread' = "in_callback"
  /\ UNCHANGED <<main_pc, stopping, gateway_thread, waited_for, workers, executor_vars>>

MessageDone ==
  /\ client_thread = "in_callback"
  /\ client_thread' = "waiting"
  /\ UNCHANGED <<main_pc, stopping, gateway_thread, waited_for, workers, executor_vars>>

\* ws_client.stop() makes run() return once no handler runs.
ClientThreadEnds ==
  /\ client_thread = "waiting" /\ main_pc = "joining_client"
  /\ client_thread' = "ended"
  /\ UNCHANGED <<main_pc, stopping, gateway_thread, waited_for, workers, executor_vars>>

\* Whoever executes a command, finds the connection lost or has ended a piece of work.
SomebodyBusy ==
  \/ client_thread = "in_callback"
  \/ \E t \in GatewayThreads : gateway_thread[t] = "busy"
  \/ \E t \in ExecutorThreads : executor_thread[t] = "busy"

\* Mutant: stopping_ is not looked at.
StartedAnyway(t) ==
  /\ SomebodyBusy
  /\ gateway_thread[t] = "unborn"
  /\ gateway_thread' = [gateway_thread EXCEPT ![t] = "busy"]
  /\ workers' = {u \in workers : gateway_thread[u] # "ended"} \cup {t}
  /\ UNCHANGED <<main_pc, stopping, client_thread, waited_for, executor_vars>>

\* start_background_task(), for a command or for the diagnosis of a lost connection.
\* stopping_ is read and the thread entered in workers_ under one mutex.
BackgroundTaskStarted(t) ==
  /\ SomebodyBusy /\ ~stopping
  /\ gateway_thread[t] = "unborn"
  /\ gateway_thread' = [gateway_thread EXCEPT ![t] = "busy"]
  /\ workers' = {u \in workers : gateway_thread[u] # "ended"} \cup {t}
  /\ UNCHANGED <<main_pc, stopping, client_thread, waited_for, executor_vars>>

\* launch_background_task(), by a command or by a thread of the executor that has
\* downloaded a map or called a service.  The threads that have ended are joined first.
Launched(t) ==
  /\ SomebodyBusy
  /\ executor_thread[t] = "unborn"
  /\ executor_thread' = [executor_thread EXCEPT ![t] = "busy"]
  /\ background_workers' = {u \in background_workers : executor_thread[u] # "ended"} \cup {t}
  /\ UNCHANGED <<main_pc, gateway_vars, shutting_down, joining>>

GatewayThreadGoes(t, from, to) ==
  /\ gateway_thread[t] = from
  /\ gateway_thread' = [gateway_thread EXCEPT ![t] = to]
  /\ UNCHANGED <<main_pc, stopping, client_thread, waited_for, workers, executor_vars>>

ExecutorThreadGoes(t, from, to) ==
  /\ executor_thread[t] = from
  /\ executor_thread' = [executor_thread EXCEPT ![t] = to]
  /\ UNCHANGED <<main_pc, gateway_vars, shutting_down, background_workers, joining>>

GatewayThreadEnds(t) == GatewayThreadGoes(t, "busy", "ended")
ExecutorThreadEnds(t) == ExecutorThreadGoes(t, "busy", "ended")

\* sendToWeb() posts the message to the client thread and waits.
SendPosted ==
  /\ ~stopping
  /\ \/ \E t \in GatewayThreads : GatewayThreadGoes(t, "busy", "sending")
     \/ \E t \in ExecutorThreads : ExecutorThreadGoes(t, "busy", "sending")

\* Mutant: it waits until the client thread answers.
GatewaySendAnswered(t) == client_thread # "ended" /\ GatewayThreadGoes(t, "sending", "busy")

\* The client thread may answer; if it runs nothing any more, two seconds end the wait.
GatewaySendReturns(t) == GatewayThreadGoes(t, "sending", "busy")
ExecutorSendReturns(t) == ExecutorThreadGoes(t, "sending", "busy")

-----------------------------------------------------------------------------
\* main().

MainGoes(from, to) == main_pc = from /\ main_pc' = to

StopRequested ==
  /\ MainGoes("running", "stopping")
  /\ stopping' = TRUE
  /\ UNCHANGED <<client_thread, gateway_thread, waited_for, workers, executor_vars>>

ClientStopped ==
  /\ MainGoes("stopping", "joining_client")
  /\ UNCHANGED <<gateway_vars, executor_vars>>

ClientJoined ==
  /\ client_thread = "ended"
  /\ MainGoes("joining_client", "taking_workers")
  /\ UNCHANGED <<gateway_vars, executor_vars>>

WorkersTaken ==
  /\ MainGoes("taking_workers", "waiting_workers")
  /\ waited_for' = workers
  /\ workers' = {}
  /\ UNCHANGED <<stopping, client_thread, gateway_thread, executor_vars>>

WorkersEnded ==
  /\ \A t \in waited_for : gateway_thread[t] = "ended"
  /\ MainGoes("waiting_workers", "gateway_stopped")
  /\ UNCHANGED <<gateway_vars, executor_vars>>

\* ~CommandExecutor(), up to its second look at background_workers_.
DestructorBegins ==
  /\ MainGoes("gateway_stopped", "destroying")
  /\ shutting_down' = TRUE
  /\ UNCHANGED <<gateway_vars, executor_thread, background_workers, joining>>

BackgroundTaken ==
  /\ MainGoes("destroying", "joining_background")
  /\ joining' = background_workers
  /\ background_workers' = {}
  /\ UNCHANGED <<gateway_vars, shutting_down, executor_thread>>

BackgroundJoined ==
  /\ \A t \in joining : executor_thread[t] = "ended"
  /\ MainGoes("joining_background", "executor_gone")
  /\ UNCHANGED <<gateway_vars, executor_vars>>

MainGoesOn ==
  \/ ClientStopped \/ ClientJoined \/ WorkersTaken \/ WorkersEnded
  \/ DestructorBegins \/ BackgroundTaken \/ BackgroundJoined

ThreadsEnd ==
  \/ MessageDone \/ ClientThreadEnds
  \/ \E t \in GatewayThreads : GatewayThreadEnds(t) \/ GatewaySendReturns(t)
  \/ \E t \in ExecutorThreads : ExecutorThreadEnds(t) \/ ExecutorSendReturns(t)

ShutdownNext ==
  \/ MessageTaken \/ StopRequested \/ MainGoesOn \/ ThreadsEnd \/ SendPosted
  \/ \E t \in GatewayThreads : BackgroundTaskStarted(t)
  \/ \E t \in ExecutorThreads : Launched(t)

ShutdownSpec == ShutdownInit /\ [][ShutdownNext]_shutdown_vars

\* main() goes on, and what a thread does has an end.
FairShutdownSpec ==
  /\ ShutdownSpec
  /\ WF_shutdown_vars(MainGoesOn)
  /\ WF_shutdown_vars(MessageDone) /\ WF_shutdown_vars(ClientThreadEnds)
  /\ \A t \in GatewayThreads :
       WF_shutdown_vars(GatewaySendReturns(t)) /\ WF_shutdown_vars(GatewayThreadEnds(t))
  /\ \A t \in ExecutorThreads :
       WF_shutdown_vars(ExecutorSendReturns(t)) /\ WF_shutdown_vars(ExecutorThreadEnds(t))

-----------------------------------------------------------------------------
(***************************************************************************)
(* Properties.                                                             *)
(***************************************************************************)

\* Nobody but the executor's own threads runs its code any more when its destructor
\* begins: a command that came while main() was stopping is refused or waited for.
CallbacksEndFirst ==
  main_pc \in {"gateway_stopped", "destroying", "joining_background", "executor_gone"} =>
    client_thread = "ended" /\ \A t \in GatewayThreads : gateway_thread[t] \in {"unborn", "ended"}

\* The threads that main() joins may be waiting for threads it has joined before; still,
\* a stop that has begun comes to its end.
ShutdownEnds == main_pc = "stopping" ~> main_pc = "executor_gone"

\* What the comments in main() and in ~CommandExecutor() say of the destructor: it waits
\* for the executor's threads, and the gateway is there until they have ended.
\* A thread that is left in background_workers_ ends the program (std::terminate).
ExecutorThreadsJoined ==
  main_pc = "executor_gone" =>
    background_workers = {} /\ \A t \in ExecutorThreads : executor_thread[t] \in {"unborn", "ended"}
=============================================================================
