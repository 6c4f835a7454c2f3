------------------------------ MODULE HostCamera ------------------------------
(***************************************************************************)
(* platform/ubuntu_x86_64/camera/camera_host_x86.c: a camera that draws    *)
(* its frames, in a buffer it keeps, which grows with the format.  With a  *)
(* callback at start() a thread draws them, else capture() does, and       *)
(* nobody calls capture() beside the thread.  Calls are made one at a      *)
(* time; format and callback may be set at any time, also under the thread *)
(* that reads them without a lock: each is taken to be stored in one step. *)
(***************************************************************************)
EXTENDS Integers

CONSTANT Sizes   \* the sizes of frame of the formats, natural numbers

VARIABLES
  open,
  fmt, buf,          \* the size of a frame; the size of the buffer, 0 for none
  raced,             \* a format was set since the thread looked at the buffer for this frame
  callback,          \* cb is set
  streaming, running,
  thread,            \* place of generate_thread()
  call               \* "stop" or "close" while it waits in pthread_join()
vars == <<open, fmt, buf, raced, callback, streaming, running, thread, call>>

\* host_camera_open()
Init ==
  /\ open = TRUE /\ fmt \in Sizes /\ (\A s \in Sizes : fmt <= s) /\ buf = 0
  /\ raced = FALSE /\ callback = FALSE /\ streaming = FALSE /\ running = FALSE
  /\ thread = "off" /\ call = "none"

Idle == open /\ call = "none"

SetFormat(size) ==
  /\ Idle /\ fmt' = size /\ raced' = (raced \/ thread = "fill")
  /\ UNCHANGED <<open, buf, callback, streaming, running, thread, call>>

SetFrameCallback(set) ==
  /\ Idle /\ callback' = set
  /\ UNCHANGED <<open, fmt, buf, raced, streaming, running, thread, call>>

Start(ok) ==
  /\ Idle /\ ~streaming /\ streaming' = (callback => ok) /\ running' = (callback /\ ok)
  /\ thread' = IF callback /\ ok THEN "ensure" ELSE "off"
  /\ raced' = FALSE /\ UNCHANGED <<open, fmt, buf, callback, call>>

\* Mutant of Ensure: a buffer that is there is taken to be large enough.
EnsureAny(ok) == buf' = IF buf = 0 /\ ok THEN fmt ELSE buf

\* ensure_buf(): the buffer grows when the frame does; realloc() may fail.
Ensure(ok) == buf' = IF buf < fmt /\ ok THEN fmt ELSE buf

Capture(ok) ==
  /\ Idle /\ streaming /\ thread = "off" /\ Ensure(ok)
  /\ UNCHANGED <<open, fmt, raced, callback, streaming, running, thread, call>>

\* Mutant of Stop: the thread is not told.
StopSilent(c) ==
  /\ Idle /\ streaming /\ running /\ streaming' = FALSE /\ call' = c
  /\ UNCHANGED <<open, fmt, buf, raced, callback, running, thread>>

\* stop() and close() with a thread, which they tell and join.
Stop(c) ==
  /\ Idle /\ streaming /\ running /\ streaming' = FALSE /\ running' = FALSE /\ call' = c
  /\ UNCHANGED <<open, fmt, buf, raced, callback, thread>>

Freed == open' = FALSE /\ buf' = 0

\* Mutant of Joined: the thread is not joined.
JoinedAtOnce ==
  /\ call # "none" /\ call' = "none"
  /\ IF call = "close" THEN Freed ELSE UNCHANGED <<open, buf>>
  /\ UNCHANGED <<fmt, raced, callback, streaming, running, thread>>

Joined ==
  /\ call # "none" /\ thread = "off" /\ call' = "none"
  /\ IF call = "close" THEN Freed ELSE UNCHANGED <<open, buf>>
  /\ UNCHANGED <<fmt, raced, callback, streaming, running, thread>>

\* The same without a thread; close() of a camera that is stopped.
StopAtOnce ==
  /\ Idle /\ streaming /\ ~running /\ streaming' = FALSE
  /\ UNCHANGED <<open, fmt, buf, raced, callback, running, thread, call>>
Close ==
  /\ Idle /\ ~running /\ streaming' = FALSE /\ Freed
  /\ UNCHANGED <<fmt, raced, callback, running, thread, call>>

-----------------------------------------------------------------------------
(* generate_thread()                                                        *)

\* The thread ends when it is told, or has no memory for a frame.
Prepare ==
  /\ thread = "ensure"
  /\ \/ ~running /\ thread' = "off" /\ UNCHANGED buf
     \/ running /\ \E ok \in BOOLEAN : Ensure(ok) /\ thread' = IF buf < fmt /\ ~ok THEN "off" ELSE "fill"
  /\ UNCHANGED <<open, fmt, raced, callback, streaming, running, call>>

\* A frame is drawn and handed to the callback if there is one, and the thread sleeps.
Fill ==
  /\ thread = "fill" /\ thread' = "ensure" /\ raced' = FALSE
  /\ UNCHANGED <<open, fmt, buf, callback, streaming, running, call>>

ThreadStep == Prepare \/ Fill

Next ==
  \/ (\E size \in Sizes : SetFormat(size)) \/ (\E set \in BOOLEAN : SetFrameCallback(set))
  \/ (\E ok \in BOOLEAN : Start(ok) \/ Capture(ok)) \/ (\E c \in {"stop", "close"} : Stop(c))
  \/ Joined \/ StopAtOnce \/ Close \/ ThreadStep

Spec == Init /\ [][Next]_vars

\* Callbacks and sleeps return.
Fairness == WF_vars(ThreadStep) /\ WF_vars(Joined)

-----------------------------------------------------------------------------
(* Correctness. *)

(* A frame is drawn into a buffer that is there and has room for it, of a   *)
(* device that is open, however formats and runs followed.  A frame is left *)
(* out when a format is set between its ensure_buf() and the end of its     *)
(* drawing, which nothing in the code prevents.                             *)
DrawsInRoom == /\ thread # "off" => open
               /\ thread = "fill" /\ ~raced => buf >= fmt

(* A camera that is stopped, or that failed to start, has no thread, and    *)
(* one that is closed no buffer.                                           *)
StoppedIsQuiet ==
  /\ ~streaming /\ call = "none" => thread = "off" /\ ~running
  /\ ~open => buf = 0

(* stop() and close() return, also after the thread has ended by itself.    *)
StopReturns == (call # "none") ~> (call = "none")
===============================================================================
