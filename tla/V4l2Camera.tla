------------------------------ MODULE V4l2Camera ------------------------------
(***************************************************************************)
(* platform/shared/linux/camera/camera_v4l2.c: a V4L2 camera whose driver  *)
(* fills a ring of mapped buffers.  A frame is dequeued, converted into a  *)
(* buffer of the device's own and queued again, which the driver may       *)
(* refuse; with a callback at start() a thread does that, without one      *)
(* capture() does, and nobody calls capture() beside the thread.  Calls    *)
(* are made one at a time and are atomic except where stop() joins.  Which *)
(* callback is set is not told apart, so the two stores of cb and cb_ctx   *)
(* under a running thread are one step.                                    *)
(***************************************************************************)
EXTENDS Integers, FiniteSets

CONSTANT Buffers   \* the buffers the driver has, as many as UVC_NUM_BUFS at most

VARIABLES
  callback,          \* cb is set
  streaming, running,
  n_bufs,            \* the buffers the driver has granted
  mapped,            \* the buffers that the start() of this stream has mapped
  left,              \* buffers a failed start() has mapped: nobody unmaps them
  on, queued,        \* the driver streams; the buffers it may fill
  refused,           \* buffers the driver has not taken back in this stream
  thread,            \* place of uvc_capture_thread()
  held,              \* the buffer being converted, or {}
  stopping,          \* stop() waits in pthread_join()
  shown              \* the quality of the last frame handed on, or "none"
vars == <<callback, streaming, running, n_bufs, mapped, left, on, queued, refused, thread, held,
          stopping, shown>>
driver == <<n_bufs, mapped, left, on, queued, refused>>

\* linux_v4l2_camera_open()
Init ==
  /\ callback = FALSE /\ streaming = FALSE /\ running = FALSE
  /\ n_bufs = {} /\ mapped = {} /\ left = {} /\ on = FALSE /\ queued = {} /\ refused = {}
  /\ thread = "off" /\ held = {} /\ stopping = FALSE /\ shown = "none"

Idle == ~stopping

\* The thread looks at cb before each call, and goes on without one.
SetFrameCallback(set) ==
  /\ Idle /\ callback' = set
  /\ UNCHANGED <<streaming, running, driver, thread, held, stopping, shown>>

\* start(): the driver grants some buffers; they are mapped and queued one by one,
\* so that one at most is touched, mapped but not queued.  A failure returns at
\* once and leaves what was mapped.
Start(granted, touched, reached, ok) ==
  /\ Idle /\ ~streaming
  /\ reached \subseteq touched /\ touched \subseteq granted /\ Cardinality(touched \ reached) <= 1
  /\ \/ ~ok /\ UNCHANGED <<driver, streaming, running, thread>>   \* VIDIOC_REQBUFS fails
     \/ /\ ~ok /\ n_bufs' = granted /\ left' = left \cup touched /\ queued' = reached
        /\ UNCHANGED <<mapped, on, refused, streaming, running, thread>>
     \/ /\ ~ok /\ callback /\ n_bufs' = granted /\ left' = left \cup granted
        /\ queued' = {}   \* no thread: streaming is undone
        /\ UNCHANGED <<mapped, on, refused, streaming, running, thread>>
     \/ /\ ok /\ reached = granted /\ n_bufs' = granted /\ mapped' = granted
        /\ queued' = granted /\ refused' = {} /\ on' = TRUE
        /\ streaming' = TRUE /\ running' = callback
        /\ thread' = IF callback THEN "dequeue" ELSE "off"
        /\ UNCHANGED left
  /\ UNCHANGED <<callback, held, stopping, shown>>

\* Mutant of Stop: the thread is not told.
StopSilent ==
  /\ Idle /\ streaming /\ streaming' = FALSE /\ stopping' = TRUE
  /\ UNCHANGED <<callback, running, driver, thread, held, shown>>

Stop ==
  /\ Idle /\ streaming /\ streaming' = FALSE /\ running' = FALSE /\ stopping' = TRUE
  /\ UNCHANGED <<callback, driver, thread, held, shown>>

\* Mutant of Stopped: the thread is not joined.
StoppedAtOnce ==
  /\ stopping /\ stopping' = FALSE
  /\ on' = FALSE /\ queued' = {} /\ refused' = {} /\ mapped' = mapped \ n_bufs /\ n_bufs' = {}
  /\ UNCHANGED <<left, callback, streaming, running, thread, held, shown>>

\* The rest of stop(), after the thread has been joined.
Stopped ==
  /\ stopping /\ thread = "off" /\ stopping' = FALSE
  /\ on' = FALSE /\ queued' = {} /\ refused' = {} /\ mapped' = mapped \ n_bufs /\ n_bufs' = {}
  /\ UNCHANGED <<left, callback, streaming, running, thread, held, shown>>

-----------------------------------------------------------------------------
(* grab_one_frame(): ok tells whether the driver takes the buffer back.      *)
Qualities == {"bad", "broken", "whole"}

\* Mutant of Handed: what the driver marks as bad is shown.
HandedAll(quality, ok) == quality # "broken" /\ ok

\* mjpeg_to_nv12() takes a frame that libjpeg only warns of for a whole one; one
\* whose buffer the driver does not take back is not handed on.
Handed(quality, ok) == quality = "whole" /\ ok

\* Mutant of Requeued: a buffer that cannot be converted is not offered to the driver.
RequeuedIfConverted(quality, b, ok) ==
  /\ queued' = IF ok /\ quality # "broken" THEN queued \cup b ELSE queued \ b
  /\ refused' = IF ok THEN refused ELSE refused \cup b

\* The buffer is offered to the driver, also unread when the driver has marked it
\* as bad and after a failed conversion.
Requeued(quality, b, ok) ==
  /\ queued' = IF ok THEN queued \cup b ELSE queued \ b
  /\ refused' = IF ok THEN refused ELSE refused \cup b

Capture(quality, ok) ==
  /\ Idle /\ streaming /\ thread = "off" /\ \E b \in queued : Requeued(quality, {b}, ok)
  /\ shown' = IF Handed(quality, ok) THEN quality ELSE shown
  /\ UNCHANGED <<callback, streaming, running, n_bufs, mapped, left, on, thread, held, stopping>>

\* uvc_capture_thread(): running is looked at, a filled buffer awaited.
Dequeue ==
  /\ thread = "dequeue"
  /\ \/ ~running /\ thread' = "off" /\ UNCHANGED <<queued, held>>
     \/ running /\ \E b \in queued : queued' = queued \ {b} /\ held' = {b} /\ thread' = "convert"
  /\ UNCHANGED <<callback, streaming, running, n_bufs, mapped, left, on, refused, stopping, shown>>

\* The buffer is converted and offered again, the frame handed on if there is a
\* callback.  The thread ends when the driver refuses because the device is gone,
\* which it does not look at with a frame that is marked as bad.
Convert(quality, ok) ==
  /\ thread = "convert" /\ held' = {} /\ Requeued(quality, held, ok)
  /\ thread' \in IF ok \/ quality = "bad" THEN {"dequeue"} ELSE {"dequeue", "off"}
  /\ shown' = IF callback /\ Handed(quality, ok) THEN quality ELSE shown
  /\ UNCHANGED <<callback, streaming, running, n_bufs, mapped, left, on, stopping>>

\* The device is unplugged: the thread ends, the flags stay.
Unplugged ==
  /\ thread = "dequeue" /\ running /\ thread' = "off"
  /\ UNCHANGED <<callback, streaming, running, driver, held, stopping, shown>>

ThreadStep ==
  Dequeue \/ Unplugged \/ \E quality \in Qualities, ok \in BOOLEAN : Convert(quality, ok)

Next ==
  \/ \E set \in BOOLEAN : SetFrameCallback(set)
  \/ \E granted \in SUBSET Buffers \ {{}} : \E touched, reached \in SUBSET granted, ok \in BOOLEAN :
       Start(granted, touched, reached, ok)
  \/ Stop \/ Stopped \/ (\E quality \in Qualities, ok \in BOOLEAN : Capture(quality, ok))
  \/ ThreadStep

Spec == Init /\ [][Next]_vars

\* poll() times out, so the thread looks at running again.
Fairness == WF_vars(ThreadStep) /\ WF_vars(Stopped)

-----------------------------------------------------------------------------
(* Correctness. *)

(* No buffer is lost to the ring: while the device streams each is the       *)
(* driver's, the thread's for the time of one conversion, or one that was   *)
(* offered to the driver and refused.  Only a refusal shrinks the ring.     *)
NoBufferLost ==
  streaming => /\ n_bufs = queued \cup held \cup refused
               /\ queued \cap held = {} /\ refused \cap (queued \cup held) = {}

(* The driver and the thread only touch buffers of the stream's that are    *)
(* mapped, and a device that has stopped has none mapped of the streams it  *)
(* had, and no thread.  What a failed start() has mapped, left, stays:      *)
(* nobody unmaps it.                                                        *)
TouchesMapped ==
  /\ on \/ thread = "convert" => queued \cup held \subseteq mapped
  /\ ~streaming /\ Idle => mapped = {} /\ ~on /\ thread = "off"

(* Frames the driver marks as bad are never handed on.                     *)
BadFramesDropped == shown # "bad" /\ shown # "broken"

(* stop() returns, after a frame, a timeout or the loss of the device.     *)
StopReturns == stopping ~> ~stopping
===============================================================================
