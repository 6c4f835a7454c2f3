--------------------------- MODULE CaptureService ---------------------------
(***************************************************************************)
(* applications/common_ipc: runCaptureService() (CaptureService.cpp) of a  *)
(* board whose camera encodes: what it puts together and takes apart, any  *)
(* step of which may fail, the event loop it runs in, the recordings that  *)
(* alarms start, and the source of encoded video (EncodedVideo) whose      *)
(* thread pushes packets into the pipeline meanwhile.                      *)
(***************************************************************************)
EXTENDS EncodedVideo

CONSTANT MaxAlarms   \* bound on the alarms that are recorded

Alarms == 1 .. MaxAlarms

VARIABLES
  at,         \* the step of runCaptureService()
  watched,    \* the signal fd is open and watched
  monitor,    \* the network monitor runs
  pipeline,   \* "none", "made", "started"
  sinks,      \* of the pipeline: 0 for the recorder and the RTSP server, the alarms'
  timers,     \* alarm recordings that a timer will end
  raised,     \* alarms raised so far
  quit        \* a signal has come or a task is posted that calls quit()
serviceVars == <<watched, monitor, pipeline, sinks, timers, raised, quit>>
vars == <<at, serviceVars, sourceVars>>

Init ==
  /\ SourceInit /\ at = "signals" /\ watched = FALSE /\ monitor = FALSE
  /\ pipeline = "none" /\ sinks = {} /\ timers = {} /\ raised = 0 /\ quit = FALSE

-----------------------------------------------------------------------------
(* Start-up.  A step that fails leaves; the sinks are attached before the  *)
(* pipeline is started, the source is started after it.                    *)

Watch ==
  /\ at = "signals"
  /\ \/ watched' = TRUE /\ at' = "network"
     \/ at' = "returned" /\ UNCHANGED watched
  /\ UNCHANGED <<monitor, pipeline, sinks, timers, raised, quit, sourceVars>>

\* The service does without a monitor that does not start, not without alarms.
StartMonitor ==
  /\ at = "network"
  /\ \/ at' = "create" /\ monitor' \in BOOLEAN
     \/ at' = "leave" /\ UNCHANGED monitor
  /\ UNCHANGED <<watched, pipeline, sinks, timers, raised, quit, sourceVars>>

Create ==
  /\ at = "create"
  /\ \/ pipeline' = "made" /\ sinks' = {0} /\ at' = "pipeline"
     \/ pipeline' \in {"none", "made"} /\ sinks' \in {{}, {0}} /\ at' = "leave"
  /\ UNCHANGED <<watched, monitor, timers, raised, quit, sourceVars>>

StartPipeline ==
  /\ at = "pipeline"
  /\ \/ pipeline' = "started" /\ at' = "video"
     \/ at' = "leave" /\ UNCHANGED pipeline
  /\ UNCHANGED <<watched, monitor, sinks, timers, raised, quit, sourceVars>>

StartVideo ==
  /\ at = "video"
  /\ \E ok \in BOOLEAN : StartSource(ok) /\ at' = IF ok THEN "preview" ELSE "stopPipeline"
  /\ UNCHANGED serviceVars

\* Mutant of ShowPreview: only the pipeline is stopped when there is no preview.
ShowPreviewLeaves ==
  /\ at = "preview"
  /\ \/ at' = "run" /\ UNCHANGED sourceVars
     \/ \E ok \in BOOLEAN : StartPreview(ok) /\ at' = IF ok THEN "run" ELSE "stopPipeline"
  /\ UNCHANGED serviceVars

\* A board without a display runs without a preview.
ShowPreview ==
  /\ at = "preview"
  /\ \/ at' = "run" /\ UNCHANGED sourceVars
     \/ \E ok \in BOOLEAN : StartPreview(ok) /\ at' = IF ok THEN "run" ELSE "stopVideo"
  /\ UNCHANGED serviceVars

-----------------------------------------------------------------------------
(* loop->run() *)

\* SIGINT or SIGTERM, also before the loop runs.
Signal == watched /\ ~quit /\ quit' = TRUE
          /\ UNCHANGED <<at, watched, monitor, pipeline, sinks, timers, raised, sourceVars>>

\* Mutant of RecordAlarm: the recorder stays when its timer cannot be scheduled.
RecordAlarmStays ==
  /\ at = "run" /\ raised < MaxAlarms /\ raised' = raised + 1
  /\ \/ UNCHANGED <<sinks, timers>>
     \/ sinks' = sinks \cup {raised + 1} /\ timers' \in {timers, timers \cup {raised + 1}}
  /\ UNCHANGED <<at, watched, monitor, pipeline, quit, sourceVars>>

\* An alarm's action: a recorder is attached, and a timer to remove it again;
\* whichever fails, there is neither.
RecordAlarm ==
  /\ at = "run" /\ raised < MaxAlarms /\ raised' = raised + 1
  /\ \/ UNCHANGED <<sinks, timers>>
     \/ sinks' = sinks \cup {raised + 1} /\ timers' = timers \cup {raised + 1}
  /\ UNCHANGED <<at, watched, monitor, pipeline, quit, sourceVars>>

EndRecording(alarm) ==
  /\ at = "run" /\ alarm \in timers
  /\ sinks' = sinks \ {alarm} /\ timers' = timers \ {alarm}
  /\ UNCHANGED <<at, watched, monitor, pipeline, raised, quit, sourceVars>>

Quit == at = "run" /\ quit /\ at' = "stopVideo" /\ UNCHANGED <<serviceVars, sourceVars>>

-----------------------------------------------------------------------------
(* Shut-down: the source first, so that nobody pushes into a pipeline that *)
(* is stopped; the destructors take the pipeline before the source.        *)

StopVideo == at = "stopVideo" /\ StopSource /\ at' = "joinVideo" /\ UNCHANGED serviceVars
VideoStopped == at = "joinVideo" /\ SourceStopped /\ at' = "stopPipeline" /\ UNCHANGED serviceVars

StopPipeline ==
  /\ at = "stopPipeline" /\ pipeline' = "made" /\ at' = "leave"
  /\ UNCHANGED <<watched, monitor, sinks, timers, raised, quit, sourceVars>>

\* Mutant of Leave: the signal fd is left in the loop.
LeaveWatched ==
  /\ at = "leave" /\ pipeline' = "none" /\ sinks' = {} /\ at' = "destroyVideo"
  /\ UNCHANGED <<watched, monitor, timers, raised, quit, sourceVars>>

\* The signal fd is closed, the pipeline destroyed.
Leave ==
  /\ at = "leave" /\ watched' = FALSE /\ pipeline' = "none" /\ sinks' = {}
  /\ at' = "destroyVideo" /\ UNCHANGED <<monitor, timers, raised, quit, sourceVars>>

DestroyVideo == at = "destroyVideo" /\ StopSource /\ at' = "videoGone" /\ UNCHANGED serviceVars

\* The monitor, the alarms and at last the loop with its timers.
Return ==
  /\ at = "videoGone" /\ SourceStopped /\ monitor' = FALSE /\ timers' = {} /\ at' = "returned"
  /\ UNCHANGED <<watched, pipeline, sinks, raised, quit>>

-----------------------------------------------------------------------------
(* The source's thread; its error handler posts a task that quits.         *)
Packets ==
  /\ (\E time \in 1 .. MaxTime : NextPacket(time)) \/ Delivered
  /\ UNCHANGED <<at, serviceVars>>

\* Mutant of VideoFails: the error is only logged.
VideoFailsLogged == ReportFailure /\ UNCHANGED <<at, serviceVars>>

VideoFails ==
  /\ ReportFailure /\ quit' = TRUE
  /\ UNCHANGED <<at, watched, monitor, pipeline, sinks, timers, raised>>

Serve ==
  \/ Watch \/ StartMonitor \/ Create \/ StartPipeline \/ StartVideo \/ ShowPreview
  \/ Quit \/ StopVideo \/ VideoStopped \/ StopPipeline \/ Leave \/ DestroyVideo \/ Return

Next ==
  \/ Serve \/ Signal \/ RecordAlarm \/ Packets \/ VideoFails
  \/ \E alarm \in Alarms : EndRecording(alarm)

\* The service's thread and the source's run on, a call of the camera returns
\* in time, and so do the handlers; timers fire.
Fairness ==
  /\ WF_vars(Serve) /\ WF_vars(VideoFails)
  /\ WF_vars(Packets /\ (thread = "wait" => ~running))
  /\ \A alarm \in Alarms : WF_vars(EndRecording(alarm))

Spec == Init /\ [][Next]_vars /\ Fairness

-----------------------------------------------------------------------------
(* Correctness. *)

(* Whichever step failed, and however it ended, nothing runs on or stays    *)
(* open when the service returns.                                           *)
LeavesNothing ==
  at = "returned" =>
    /\ Idle /\ SourceHoldsWhatItUses /\ ~handlers
    /\ pipeline = "none" /\ sinks = {} /\ ~monitor /\ ~watched /\ timers = {}

(* The thread pushes into a pipeline that is there: started before the     *)
(* source, and not stopped, nor destroyed, under its thread.               *)
PushesIntoPipeline == thread # "off" => pipeline = "started"

(* Every recording of an alarm has a timer that ends it; it does not       *)
(* outlast the pipeline.                                                   *)
RecordingsAreTimed == at = "run" => sinks \ {0} = timers

(* A recording that an alarm started ends, and the service does when its   *)
(* video fails or it is signalled.                                         *)
RecordingsEnd == \A alarm \in Alarms : alarm \in sinks ~> alarm \notin sinks
ServiceEnds == (quit \/ thread = "failed") ~> at = "returned"
===============================================================================
