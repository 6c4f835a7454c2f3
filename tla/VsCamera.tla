------------------------------- MODULE VsCamera -------------------------------
(***************************************************************************)
(* platform/vendors/visinextek: one device of the VS816 camera HAL         *)
(* (camera_vs816.c).  Both modes build the same route, of input, scaler and *)
(* their binding; start() adds a thread that hands frames to a callback,   *)
(* encoded_start() an encoder bound to the route.  The application makes   *)
(* one call at a time; a call is atomic except where stop() joins.         *)
(***************************************************************************)
EXTENDS Integers, Sequences

CONSTANT MaxFrames   \* bound on the frames of the sensor

VARIABLES
  hw,            \* what the vendor's layer holds
  flags,         \* sys_acquired, route_started, vpp_*, vii_vpp_bound, venc_*, by name
  streaming, encoded,
  thread_run, thread,   \* place of capture_thread()
  frames,        \* frames the sensor may still deliver
  held,          \* frames acquired and not released
  stopping       \* stop() waits in pthread_join()
vars == <<hw, flags, streaming, encoded, thread_run, thread, frames, held, stopping>>
threads == <<thread_run, thread, frames, held>>

Route == <<"sys", "vii", "vpp", "vppchn", "vppgrp", "bind">>
Encoder == <<"venc", "vencrecv", "vencbind">>
Reached(steps, n) == {steps[i] : i \in 1 .. n}

\* open_device()
Init ==
  /\ hw = {} /\ flags = {} /\ streaming = FALSE /\ encoded = FALSE
  /\ thread_run = FALSE /\ thread = "off" /\ frames = MaxFrames /\ held = 0
  /\ stopping = FALSE

Idle == ~stopping

\* Mutant of RouteStop: the group is destroyed only when it was bound.
RouteStopBound(up) == IF "bind" \in up THEN up \ Reached(Route, 6) ELSE up \ {"sys", "vii"}

\* route_stop(): what is up, without the route.
RouteStop(up) == up \ Reached(Route, 6)

\* route_start(): step n is the last that succeeds; a failure stops the route.
RouteStart(n) == IF n = 6 THEN Reached(Route, 6) ELSE RouteStop(Reached(Route, n))

\* venc_destroy(): the channel is also stopped.
VencDestroy(up) == up \ Reached(Encoder, 3)

\* start(): the route, then the thread.
Start(n, threaded) ==
  /\ Idle /\ ~streaming /\ ~encoded
  /\ IF n = 6 /\ threaded
     THEN /\ hw' = RouteStart(n) /\ flags' = RouteStart(n)
          /\ streaming' = TRUE /\ thread_run' = TRUE /\ thread' = "acquire"
     ELSE /\ hw' = RouteStop(RouteStart(n)) /\ flags' = RouteStop(RouteStart(n))
          /\ UNCHANGED <<streaming, thread_run, thread>>
  /\ UNCHANGED <<encoded, frames, held, stopping>>

\* encoded_start(): the route, then m steps of venc_create().
EncodedStart(n, m) ==
  LET made == RouteStart(n) \cup IF n = 6 THEN Reached(Encoder, m) ELSE {}
      kept == IF n = 6 /\ m = 3 THEN made ELSE RouteStop(VencDestroy(made)) IN
  /\ Idle /\ ~streaming /\ ~encoded
  /\ hw' = kept /\ flags' = kept /\ encoded' = (n = 6 /\ m = 3)
  /\ UNCHANGED <<streaming, threads, stopping>>

EncodedStop ==
  /\ Idle /\ encoded
  /\ hw' = RouteStop(VencDestroy(hw)) /\ flags' = RouteStop(VencDestroy(flags))
  /\ encoded' = FALSE /\ UNCHANGED <<streaming, threads, stopping>>

\* capture(): a frame is acquired, copied and released, beside the thread.
Capture ==
  /\ Idle /\ streaming /\ frames > 0 /\ frames' = frames - 1
  /\ UNCHANGED <<hw, flags, streaming, encoded, thread_run, thread, held, stopping>>

\* Mutant of Stop: the thread is not told.
StopSilent ==
  /\ Idle /\ streaming /\ stopping' = TRUE
  /\ UNCHANGED <<hw, flags, streaming, encoded, thread_run, thread, frames, held>>

Stop ==
  /\ Idle /\ streaming /\ stopping' = TRUE /\ thread_run' = FALSE
  /\ UNCHANGED <<hw, flags, streaming, encoded, thread, frames, held>>

\* Mutant of Joined: the thread is asked, not awaited.
JoinedNot ==
  /\ stopping /\ stopping' = FALSE /\ streaming' = FALSE
  /\ hw' = RouteStop(hw) /\ flags' = RouteStop(flags)
  /\ UNCHANGED <<encoded, threads>>

Joined ==
  /\ stopping /\ thread = "off" /\ stopping' = FALSE /\ streaming' = FALSE
  /\ hw' = RouteStop(hw) /\ flags' = RouteStop(flags)
  /\ UNCHANGED <<encoded, threads>>

-----------------------------------------------------------------------------
(* capture_thread() *)

\* A frame is waited for while thread_run is set; there may be none.
Acquire ==
  /\ thread = "acquire"
  /\ \/ ~thread_run /\ thread' = "off" /\ UNCHANGED <<frames, held>>
     \/ /\ thread_run /\ frames > 0 /\ frames' = frames - 1 /\ held' = held + 1
        /\ thread' = "callback"
  /\ UNCHANGED <<hw, flags, streaming, encoded, thread_run, stopping>>

\* The callback may ask for the end; the frame goes back either way.
Callback(more) ==
  /\ thread = "callback" /\ thread' = "acquire" /\ held' = held - 1
  /\ thread_run' = (thread_run /\ more)
  /\ UNCHANGED <<hw, flags, streaming, encoded, frames, stopping>>

ThreadStep == Acquire \/ \E more \in BOOLEAN : Callback(more)

Next ==
  \/ \E n \in 0 .. 6 :
       \/ \E threaded \in BOOLEAN : Start(n, threaded)
       \/ \E m \in 0 .. 3 : EncodedStart(n, m)
  \/ EncodedStop \/ Capture \/ Stop \/ Joined \/ ThreadStep

Spec == Init /\ [][Next]_vars

\* Frames are acquired with a timeout, so the thread looks at thread_run again.
Fairness == WF_vars(ThreadStep) /\ WF_vars(Joined)

-----------------------------------------------------------------------------
(* Correctness. *)

(* Whatever failed, an idle device holds nothing, and one in use holds its *)
(* whole route: no step is skipped on the way down.                        *)
HoldsItsMode ==
  /\ flags = hw
  /\ Idle => hw = IF streaming THEN Reached(Route, 6)
                  ELSE IF encoded THEN Reached(Route, 6) \cup Reached(Encoder, 3) ELSE {}

(* A frame is released before the route it came from is stopped, and the   *)
(* thread does not outlive it.                                             *)
FramesHaveRoute == held > 0 \/ thread # "off" => Reached(Route, 6) \subseteq hw

(* stop() returns: the thread sees the flag, also when its callback or the *)
(* sensor has nothing more for it.                                         *)
StopReturns == stopping ~> ~stopping
===============================================================================
