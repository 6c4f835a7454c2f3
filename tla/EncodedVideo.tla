---------------------------- MODULE EncodedVideo ----------------------------
(***************************************************************************)
(* applications/common_ipc: the sources of encoded video packets           *)
(* (CameraEncodedVideo.cpp), a camera's encoder or an H.264 file, and the  *)
(* thread that hands their packets on.  Calls are made one at a time: the  *)
(* camera's mutex_ sees to that, the file has none and is called from one  *)
(* thread.  stop() joins the thread inside.                                *)
(***************************************************************************)
EXTENDS Integers

CONSTANT MaxTime   \* bound on timestamps, counted in frame durations

VARIABLES
  kind,         \* "camera" or "file", as createCameraEncodedVideo() found
  running,
  thread,       \* captureLoop() or run(): "off", "wait", "deliver", "failed", "ended";
                \* "terminated" when one was begun over it while it was joinable
  encoded,      \* the camera's encoded output is started
  preview, display,  \* previewStarted_; displayDevice_ is open and started
  handlers,     \* packetHandler_ and errorHandler_ (and a file's frames_) are set
  last,         \* lastTimestampNs_, 0 when no packet has been stamped
  stopping      \* stop() joins the thread
sourceVars == <<kind, running, thread, encoded, preview, display, handlers, last, stopping>>
outputVars == <<encoded, preview, display>>

SourceInit ==
  /\ kind \in {"camera", "file"} /\ running = FALSE /\ thread = "off"
  /\ encoded = FALSE /\ preview = FALSE /\ display = FALSE
  /\ handlers = FALSE /\ last = 0 /\ stopping = FALSE

Idle == ~stopping /\ thread = "off"

\* thread_ is assigned: over a thread that nobody has joined, std::terminate().
Begins == running' = TRUE /\ thread' = IF thread = "off" THEN "wait" ELSE "terminated"

\* Mutant of StartCamera: the camera's output stays on when no thread can be made.
StartCameraKeeps(ok) ==
  /\ kind = "camera"
  /\ \/ ok /\ Begins /\ encoded' = TRUE /\ handlers' = TRUE /\ last' = 0
     \/ ~ok /\ UNCHANGED <<running, thread, encoded, handlers, last>>
     \/ ~ok /\ encoded' = TRUE /\ handlers' = FALSE /\ last' = 0 /\ UNCHANGED <<running, thread>>

\* CameraEncodedVideo::start(): refused before anything is begun, or without a
\* thread, when the output is stopped and the handlers go.
StartCamera(ok) ==
  /\ kind = "camera"
  /\ \/ ok /\ Begins /\ encoded' = TRUE /\ handlers' = TRUE /\ last' = 0
     \/ ~ok /\ UNCHANGED <<running, thread, encoded, handlers, last>>
     \/ ~ok /\ encoded' = FALSE /\ handlers' = FALSE /\ last' = 0 /\ UNCHANGED <<running, thread>>

\* FileEncodedVideo::start(): without a thread the handlers and frames stay.
StartFile(ok) ==
  /\ kind = "file" /\ UNCHANGED encoded
  /\ \/ ok /\ Begins /\ handlers' = TRUE /\ last' = 0
     \/ ~ok /\ UNCHANGED <<running, thread, handlers, last>>
     \/ ~ok /\ handlers' = TRUE /\ UNCHANGED <<running, thread, last>>

StartSource(ok) ==
  /\ ~stopping /\ ~running
  /\ StartCamera(ok) \/ StartFile(ok)
  /\ UNCHANGED <<kind, preview, display, stopping>>

\* Mutant of StartPreview: the display stays open when the camera refuses.
StartPreviewKeeps(ok) ==
  /\ ~stopping
  /\ IF ok THEN (preview \/ (running /\ kind = "camera")) /\ preview' = TRUE /\ display' = TRUE
     ELSE UNCHANGED preview /\ display' \in {display, running /\ kind = "camera"}
  /\ UNCHANGED <<kind, running, thread, encoded, handlers, last, stopping>>

\* startPreview(): done when there is one; a file has none, nor has a source that
\* does not run.
StartPreview(ok) ==
  /\ ~stopping
  /\ IF ok THEN (preview \/ (running /\ kind = "camera")) /\ preview' = TRUE /\ display' = TRUE
     ELSE UNCHANGED <<preview, display>>
  /\ UNCHANGED <<kind, running, thread, encoded, handlers, last, stopping>>

\* Mutant of StopSource: the thread is not told.
StopSourceSilent ==
  ~stopping /\ stopping' = TRUE /\ UNCHANGED <<kind, running, thread, outputVars, handlers, last>>

\* stop(), also of the destructor, and when the thread has been joined
StopSource ==
  /\ ~stopping /\ stopping' = TRUE /\ running' = FALSE
  /\ UNCHANGED <<kind, thread, outputVars, handlers, last>>

\* Mutant of SourceStopped: the thread is not joined.
SourceStoppedEarly ==
  /\ stopping /\ stopping' = FALSE
  /\ encoded' = FALSE /\ preview' = FALSE /\ display' = FALSE /\ handlers' = FALSE
  /\ UNCHANGED <<kind, running, thread, last>>

SourceStopped ==
  /\ stopping /\ thread \in {"off", "ended"} /\ stopping' = FALSE /\ thread' = "off"
  /\ encoded' = FALSE /\ preview' = FALSE /\ display' = FALSE /\ handlers' = FALSE
  /\ UNCHANGED <<kind, running, last>>

-----------------------------------------------------------------------------
(* captureLoop() and run() *)

\* Mutant of Stamp: a camera's timestamp is kept as it comes.
StampAsItComes(time) == IF last # 0 /\ kind = "file" THEN last + 1 ELSE time

\* A camera's timestamp, or now if it has none, that does not go on is replaced
\* by the next frame's; a file's frames are stamped one after the other.
Stamp(time) ==
  IF last # 0 /\ (kind = "file" \/ time <= last) THEN last + 1 ELSE time

\* A packet comes or the source fails; there may be none for a while.
NextPacket(time) ==
  /\ thread = "wait"
  /\ \/ ~running /\ thread' = "ended" /\ UNCHANGED last
     \/ running /\ Stamp(time) <= MaxTime /\ last' = Stamp(time) /\ thread' = "deliver"
     \/ running /\ thread' = "failed" /\ UNCHANGED last
  /\ UNCHANGED <<kind, running, outputVars, handlers, stopping>>

\* packetHandler_() returns or throws.
Delivered ==
  /\ thread = "deliver" /\ thread' \in {"wait", "failed"}
  /\ UNCHANGED <<kind, running, outputVars, handlers, last, stopping>>

\* errorHandler_()
ReportFailure ==
  /\ thread = "failed" /\ thread' = "ended" /\ running' = FALSE
  /\ UNCHANGED <<kind, outputVars, handlers, last, stopping>>

-----------------------------------------------------------------------------
(* Correctness. *)

(* A source that is not in use holds nothing: neither the camera's output,  *)
(* nor a preview, nor the display under it; only a file that failed to      *)
(* start keeps its handlers, until it is stopped.  The thread never calls   *)
(* handlers that are gone, and none is begun over one that is not joined.   *)
SourceHoldsWhatItUses ==
  /\ Idle => ~encoded /\ ~preview /\ ~display /\ ~running /\ (handlers => kind = "file")
  /\ preview = display
  /\ thread # "off" => handlers /\ (encoded <=> kind = "camera")
  /\ thread # "terminated"

(* Timestamps of a run go on, whatever the camera's do. *)
StampsIncrease == [][last # 0 /\ last' \notin {0, last} => last' > last]_last
===============================================================================
