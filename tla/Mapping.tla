------------------------------- MODULE Mapping -------------------------------
(***************************************************************************)
(* The mapping workflow of CommandExecutor and MappingHandle, beside       *)
(* navigation and follow, with which it shares the state machine, the      *)
(* mutex and the busy gate: start_mapping forks the capture,               *)
(* stop_and_uploadmap ends it on a background thread and uploads the map,  *)
(* nav-upload-successful completes the map on the thread of its command,   *)
(* holding the mutex over downloads and a script of up to ten minutes.     *)
(* The uploader never takes the mutex but in finish_command().  Scripts,   *)
(* files and uploads come down to whether they worked.                     *)
(***************************************************************************)
EXTENDS Follow

CONSTANTS
  MaxProcessing  \* bound: no upload is requested after this many processing attempts

ASSUME ProcessingAssumption == MaxProcessing \in Nat

StartMapping == "start_mapping"
StopUpload == "stop_and_uploadmap"
NavUpload  == "nav-upload-successful"

ASSUME MappingWorkersAssumption == {StartMapping, NavUpload} \cap Workers = {}

VARIABLES
  mapping_process,    \* mapping_process_: no pid, a live process, or one that has exited
  uploader,           \* the thread of stop_and_uploadmap_async()
  processing_attempt, \* mapping_processing_attempt_id_
  processing_timers   \* the processing timeout threads, by attempt

mapping_vars == <<mapping_process, uploader, processing_attempt, processing_timers>>
every_var == <<all_vars, mapping_vars>>

UploaderPc == {"none", "begun", "reaped", "unreaped", "arming", "reported", "leaving",
               "erring", "erred"}

\* stop_upload_running_ is cleared by the last thing the uploader does, or by the
\* unwinding of its stack before the error handler runs.
stop_upload_running == uploader \notin {"none", "erring", "erred"}

is_running == mapping_process # "none"

MappingFieldsOK ==
  /\ FieldsOK
  /\ mapping_process \in {"none", "running", "exited"}
  /\ uploader \in UploaderPc
  /\ processing_attempt \in Nat
  /\ processing_timers \subseteq 1..processing_attempt

MappingTypeOK ==
  /\ FollowFieldsOK
  /\ MappingFieldsOK
  /\ lock \in Holders \cup FollowHolders \cup Workers \cup {Free, StartMapping, NavUpload}
  /\ active_command \in Managed \cup {StartMapping, StopUpload, NavUpload, NoCommand}

MappingInit ==
  /\ FollowInit
  /\ mapping_process = "none"
  /\ uploader = "none"
  /\ processing_attempt = 0
  /\ processing_timers = {}

-----------------------------------------------------------------------------
\* start_mapping: admission, gate and begin_mapping().
MappingBegins ==
  /\ lock = Free
  /\ fsm.motion_mode = "Idle"
  /\ active_command = NoCommand
  /\ fsm.generation < MaxGeneration
  /\ fsm' = begin_mapping(fsm)
  /\ active_command' = StartMapping
  /\ lock' = StartMapping
  /\ UNCHANGED <<requests, threads, flags, machine, mapping_vars>>

\* No process is left if the last map cannot be removed, the script is missing or
\* the fork fails; a recorded one is kept.
MappingStarted ==
  /\ lock = StartMapping
  /\ mapping_process' \in IF is_running THEN {mapping_process} ELSE {"none", "running"}
  /\ finish_command(StartMapping, mapping(fsm, is_running'))
  /\ lock' = Free
  /\ UNCHANGED <<requests, threads, flags, machine, uploader,
                 processing_attempt, processing_timers>>

CaptureExits ==
  /\ mapping_process = "running"
  /\ mapping_process' = "exited"
  /\ UNCHANGED <<vars, uploader, processing_attempt, processing_timers>>

\* handle_stop_and_uploadmap(): a request that finds the flag up is dropped, and
\* drops the gate it has taken with it.
StopAndUploadmap ==
  /\ lock = Free
  /\ fsm.motion_mode = "Mapping"
  /\ active_command = NoCommand
  /\ processing_attempt < MaxProcessing
  /\ active_command' = StopUpload
  /\ uploader' = IF stop_upload_running THEN uploader ELSE "begun"
  /\ UNCHANGED <<fsm, lock, requests, threads, flags, machine,
                 mapping_process, processing_attempt, processing_timers>>

-----------------------------------------------------------------------------
\* stop_and_uploadmap_async(), without the mutex.

UploaderMoves(from, to) == uploader = from /\ uploader' = to

\* A name that is not a string: the exception leaves before the capture is touched.
UploaderThrows ==
  /\ UploaderMoves("begun", "erring")
  /\ UNCHANGED <<vars, mapping_process, processing_attempt, processing_timers>>

\* Mutant: an upload that failed is a fault even with the capture running.
UploadErrorFails ==
  /\ UploaderMoves("erring", "erred")
  /\ fsm' = mapping_failed(fsm)
  /\ UNCHANGED <<lock, active_command, requests, threads, flags, machine,
                 mapping_process, processing_attempt, processing_timers>>

\* The error handler: with the capture still running, the operator may try again.
UploadErrorHandled ==
  /\ UploaderMoves("erring", "erred")
  /\ fsm' = IF is_running THEN mapping(fsm, TRUE) ELSE mapping_failed(fsm)
  /\ UNCHANGED <<lock, active_command, requests, threads, flags, machine,
                 mapping_process, processing_attempt, processing_timers>>

\* SIGINT, then SIGKILL; the pid is forgotten even if the process cannot be reaped.
CaptureStopped ==
  /\ is_running
  /\ UploaderMoves("begun", "reaped") \/ UploaderMoves("begun", "unreaped")
  /\ mapping_process' = "none"
  /\ UNCHANGED <<vars, processing_attempt, processing_timers>>

\* No capture to stop, one that would not die, a script that failed or an upload
\* that got no storage path.
UploadFailed ==
  /\ \/ ~is_running /\ UploaderMoves("begun", "reported")
     \/ UploaderMoves("unreaped", "reported")
     \/ UploaderMoves("reaped", "reported")
  /\ fsm' = mapping_failed(fsm)
  /\ UNCHANGED <<lock, active_command, requests, threads, flags, machine,
                 mapping_process, processing_attempt, processing_timers>>

\* The timeout is armed only if the state machine took the map for processing.
Uploaded ==
  /\ UploaderMoves("reaped", IF fsm.motion_mode = "Mapping" THEN "arming" ELSE "reported")
  /\ fsm' = mapping_processing(fsm)
  /\ UNCHANGED <<lock, active_command, requests, threads, flags, machine,
                 mapping_process, processing_attempt, processing_timers>>

\* start_mapping_processing_timeout()
ProcessingTimeoutArmed ==
  /\ UploaderMoves("arming", "reported")
  /\ processing_attempt' = processing_attempt + 1
  /\ processing_timers' = processing_timers \cup {processing_attempt'}
  /\ UNCHANGED <<vars, mapping_process>>

UploadFinished ==
  /\ lock = Free
  /\ UploaderMoves("reported", "leaving") \/ UploaderMoves("erred", "none")
  /\ finish_command(StopUpload, fsm)
  /\ UNCHANGED <<lock, requests, threads, flags, machine,
                 mapping_process, processing_attempt, processing_timers>>

FlagCleared ==
  /\ UploaderMoves("leaving", "none")
  /\ UNCHANGED <<vars, mapping_process, processing_attempt, processing_timers>>

-----------------------------------------------------------------------------
\* nav-upload-successful, under the mutex.

NavUploadBegins ==
  /\ lock = Free
  /\ fsm.motion_mode = "MappingProcessing"
  /\ active_command = NoCommand
  /\ active_command' = NavUpload
  /\ lock' = NavUpload
  /\ UNCHANGED <<fsm, requests, threads, flags, machine, mapping_vars>>

NavUploadEnds(success) ==
  /\ lock = NavUpload
  /\ finish_command(NavUpload, IF success THEN mapping(fsm, FALSE) ELSE mapping_failed(fsm))
  /\ lock' = Free
  /\ UNCHANGED <<requests, threads, flags, machine, mapping_vars>>

\* The timeout thread looks every second whether it is still wanted, and looks
\* again when it has the mutex.
Wanted(a) == a = processing_attempt /\ fsm.motion_mode = "MappingProcessing"

ProcessingTimeoutLeaves(a) ==
  /\ a \in processing_timers
  /\ ~Wanted(a)
  /\ processing_timers' = processing_timers \ {a}
  /\ UNCHANGED <<vars, mapping_process, uploader, processing_attempt>>

ProcessingTimesOut(a) ==
  /\ lock = Free
  /\ a \in processing_timers
  /\ Wanted(a)
  /\ processing_timers' = processing_timers \ {a}
  /\ fsm' = mapping_failed(fsm)
  /\ UNCHANGED <<lock, active_command, requests, threads, flags, machine,
                 mapping_process, uploader, processing_attempt>>

-----------------------------------------------------------------------------
UploaderStep ==
  \/ UploaderThrows
  \/ UploadErrorHandled
  \/ CaptureStopped
  \/ UploadFailed
  \/ Uploaded
  \/ ProcessingTimeoutArmed
  \/ UploadFinished
  \/ FlagCleared

MappingStep ==
  \/ MappingBegins
  \/ MappingStarted
  \/ CaptureExits
  \/ StopAndUploadmap
  \/ UploaderStep
  \/ NavUploadBegins
  \/ \E success \in BOOLEAN : NavUploadEnds(success)
  \/ \E a \in processing_timers : ProcessingTimeoutLeaves(a) \/ ProcessingTimesOut(a)

MappingNext ==
  \/ FollowNext /\ UNCHANGED mapping_vars
  \/ MappingStep /\ UNCHANGED follow_vars

MappingSpec == MappingInit /\ [][MappingNext]_every_var

\* Threads run on, scripts and transfers are under a time limit, sleeps end and a
\* thread that waits for a mutex which stays free gets it.  Nothing is assumed of
\* the cloud, nor of the capture.
MappingFairness ==
  /\ WF_every_var(StartStep /\ UNCHANGED <<follow_vars, mapping_vars>>)
  /\ WF_every_var(StopStep /\ UNCHANGED mapping_vars)
  /\ \A w \in Workers : WF_every_var(WorkerStep(w) /\ UNCHANGED <<follow_vars, mapping_vars>>)
  /\ \A t \in FollowThreads : WF_every_var(FollowThreadStep(t) /\ UNCHANGED mapping_vars)
  /\ WF_every_var(FollowStartStep /\ UNCHANGED mapping_vars)
  /\ WF_every_var(MappingStarted /\ UNCHANGED follow_vars)
  /\ WF_every_var(UploaderStep /\ UNCHANGED follow_vars)
  /\ WF_every_var(\E success \in BOOLEAN : NavUploadEnds(success) /\ UNCHANGED follow_vars)
  /\ WF_every_var(\E a \in processing_timers : ProcessingTimesOut(a) /\ UNCHANGED follow_vars)

FairMappingSpec == MappingSpec /\ MappingFairness

-----------------------------------------------------------------------------
(***************************************************************************)
(* Safety.                                                                 *)
(***************************************************************************)

\* As long as the gateway has a capture on its books the state machine says Mapping,
\* so stop_and_uploadmap can reach it; and no navigation runs beside it, not even
\* one whose worker was still downloading when the mapping began.
CaptureAlone ==
  is_running =>
    /\ fsm.motion_mode = "Mapping"
    /\ nav_process # "running"
    /\ \A k \in Kind : ~pending[k]

\* MappingProcessing rejects stop_navigation, so it must not wait for the cloud
\* alone: somebody is always left who ends it - the thread that completes the map,
\* the timeout of the current attempt, or the uploader that is about to arm it.
ProcessingHasEnd ==
  fsm.motion_mode = "MappingProcessing" =>
    \/ lock = NavUpload
    \/ uploader = "arming"
    \/ processing_attempt \in processing_timers

\* Nor does the follow engine move the robot beside a capture, but for what defeats
\* EngineOnlyInFollow; a follow that runs finds no mapping command on the gate, not even
\* an upload that went on after its map had failed; and a follow in the queue is not
\* forgotten for the commands of mapping that take the mutex.
FollowBesideMapping == FollowingAlone /\ EngineOnlyInFollow /\ QueuedFollowHasDrainer

\* The safety of the three behaviours together: the types, a capture alone, an end of
\* processing, and all that follow promises.
MappingInv == MappingTypeOK /\ CaptureAlone /\ ProcessingHasEnd /\ FollowBesideMapping

\* Navigation, follow and mapping together drive the behaviour only as the arbiter allows.
MappingImplementsArbiter == Arbiter!ArbiterSpec

-----------------------------------------------------------------------------
(***************************************************************************)
(* What the repository says of mapping and the code does not do.           *)
(***************************************************************************)

\* robot_bt(): a command that comes to nothing releases the busy slot "instead of
\* leaving the gate stuck".  While stop_and_uploadmap occupies the gate its thread
\* is there to release it.
UploadGateOwned == active_command = StopUpload => uploader # "none"

-----------------------------------------------------------------------------
(***************************************************************************)
(* Liveness, under FairMappingSpec.                                        *)
(***************************************************************************)

\* A map that waits for nav-upload-successful is completed or becomes a fault.
ProcessingEnds ==
  fsm.motion_mode = "MappingProcessing" ~> fsm.motion_mode # "MappingProcessing"

\* stop_and_uploadmap ends the capture, unless it throws; its thread always ends.
UploaderEnds == uploader # "none" ~> uploader = "none"

\* The mapping workflow never gets stuck, neither in the upload nor after it.
MappingEnds == ProcessingEnds /\ UploaderEnds
=============================================================================
