---------------------------- MODULE MediaPipeline ----------------------------
(***************************************************************************)
(* SvcKit/subsystems/media: the node graph of a MediaPipeline              *)
(* (NodeMediaPipeline and PacketMediaPipeline in media_pipeline.cpp), with *)
(* the fanouts as parts that start, report sink errors and stop            *)
(* (SinkFanout details them).                                              *)
(*                                                                         *)
(* A stream is "video" or "audio".  Coded streams go source -> frame queue *)
(* -> encode worker -> fanout; the video of a PacketMediaPipeline comes in *)
(* through pushVideoPacket() and has only a fanout.  Both classes start    *)
(* and stop the parts they have in the same order.  Frames are counted,    *)
(* not told apart.                                                         *)
(***************************************************************************)
EXTENDS Integers, Sequences

CONSTANTS
  Clients,        \* application threads that call start and stop
  Streams,        \* the streams that have a fanout
  Coded,          \* those with a source, a queue and an encode worker
  Encoded,        \* those whose worker calls an encoder (the source of the
                  \* others is an AudioPacketSource)
  Capacity,       \* MediaQueueConfig::capacity of the frame queues
  MaxFrames,      \* bound on the frames captured per stream
  MaxErrors,      \* bound on the errors reported after a start()
  EventCapacity,  \* size of the event ring (128 in the code)
  NoClient

ASSUME StreamsAssumption ==
  /\ Streams \subseteq {"video", "audio"} /\ Coded \subseteq Streams
  /\ Encoded \subseteq Coded
ASSUME BoundsAssumption ==
  /\ Capacity \in Nat \ {0} /\ EventCapacity \in Nat \ {0}
  /\ MaxFrames \in Nat /\ MaxErrors \in Nat
ASSUME NoClientAssumption == NoClient \notin Clients

Parts ==
  ({"encoder"} \X Encoded) \cup ({"fanout"} \X Streams)
    \cup ({"worker", "source"} \X Coded)

\* start() goes through the parts in this order, leaving out those it has not...
StartOrder ==
  <<<<"encoder", "video">>, <<"encoder", "audio">>, <<"fanout", "video">>,
    <<"fanout", "audio">>, <<"worker", "video">>, <<"worker", "audio">>,
    <<"source", "audio">>, <<"source", "video">>>>

\* Mutant of StopOrder: the encoders are stopped before their workers are joined.
StopOrderEncodersFirst ==
  <<<<"source", "video">>, <<"source", "audio">>, <<"encoder", "video">>,
    <<"encoder", "audio">>, <<"worker", "video">>, <<"worker", "audio">>,
    <<"fanout", "video">>, <<"fanout", "audio">>>>

\* ...and teardown() in this one.
StopOrder ==
  <<<<"source", "video">>, <<"source", "audio">>, <<"worker", "video">>,
    <<"worker", "audio">>, <<"encoder", "video">>, <<"encoder", "audio">>,
    <<"fanout", "video">>, <<"fanout", "audio">>>>

\* Threads that report errors; a stream's sink workers report as one thread.
Reporters == ({"source", "worker"} \X Coded) \cup ({"sink"} \X Streams)

VARIABLES
  state, accepting, lifecycle,   \* state_, accepting_, owner of lifecycleMutex_
  up,                            \* the parts whose ...Started_ flag or thread is set
  queued, closed,                \* frames in each queue, BoundedQueue::closed_
  captured, dropped,             \* statistics of each stream
  handled,                       \* frames the worker took through encode()
  errors,                        \* errors reported since the last start()
  events, seen,                  \* the event ring, last state pulled from it
  at,                            \* where each reporter is
  pc, result                     \* where each client is; what teardown leaves

frameVars == <<queued, captured, dropped, handled>>
eventVars == <<events, seen>>
vars == <<state, accepting, lifecycle, up, queued, closed, captured, dropped,
          handled, errors, events, seen, at, pc, result>>

Running == {"Running", "Degraded"}

\* Mutant of WithEvent: a ring without a limit.
WithEventUnbounded(ring, event) == Append(ring, event)

\* pushEvent() on a full ring gives up the oldest event.
WithEvent(ring, event) ==
  Append(IF Len(ring) >= EventCapacity THEN Tail(ring) ELSE ring, event)

PushEvent(event) == events' = WithEvent(events, event)

Goto(c, label) == pc' = [pc EXCEPT ![c] = label]

Init ==
  /\ state = "Created" /\ accepting = FALSE /\ lifecycle = NoClient /\ up = {}
  /\ queued = [s \in Coded |-> 0] /\ closed = [s \in Coded |-> FALSE]
  /\ captured = [s \in Coded |-> 0] /\ dropped = [s \in Coded |-> 0]
  /\ handled = [s \in Coded |-> 0]
  /\ errors = 0 /\ events = <<"Created">> /\ seen = "none"
  /\ at = [r \in Reporters |-> "off"]
  /\ pc = [c \in Clients |-> "idle"] /\ result = "none"

-----------------------------------------------------------------------------
(* start().  While running it returns -EALREADY and changes nothing. *)
Start(c) ==
  /\ pc[c] = "idle" /\ lifecycle = NoClient /\ state \notin Running
  /\ lifecycle' = c /\ state' = "Starting" /\ PushEvent("Starting")
  /\ queued' = [s \in Coded |-> 0] /\ closed' = [s \in Coded |-> FALSE]
  /\ accepting' = TRUE /\ errors' = 0
  /\ Goto(c, "start")
  /\ UNCHANGED <<up, captured, dropped, handled, seen, at, result>>

\* p is the part start() is at.
IsNextToStart(c, p) ==
  /\ pc[c] = "start" /\ p \notin up
  /\ \E i \in DOMAIN StartOrder :
       /\ StartOrder[i] = p
       /\ \A j \in 1 .. i - 1 : StartOrder[j] \in Parts => StartOrder[j] \in up

\* A source calls back from the moment its thread runs, before start() returns.
LaunchSource(c, s) ==
  /\ IsNextToStart(c, <<"source", s>>) /\ at[<<"source", s>>] = "off"
  /\ at' = [at EXCEPT ![<<"source", s>>] = "idle"]
  /\ UNCHANGED <<state, accepting, lifecycle, up, frameVars, closed, errors,
                 eventVars, pc, result>>

StartPart(c, p) ==
  /\ IsNextToStart(c, p)
  /\ p[1] = "source" => at[p] # "off"
  /\ up' = up \cup {p}
  /\ at' = CASE p[1] = "worker" -> [at EXCEPT ![p] = "idle"]
             [] p[1] = "fanout" ->
                  [at EXCEPT ![<<"sink", p[2]>>] = IF @ = "off" THEN "idle" ELSE @]
             [] OTHER -> at
  /\ UNCHANGED <<state, accepting, lifecycle, frameVars, closed, errors,
                 eventVars, pc, result>>

\* Mutant of StartPartFails: start() returns the error without failStart().
StartPartFailsLeak(c, p) ==
  /\ IsNextToStart(c, p)
  /\ accepting' = FALSE /\ state' = "Failed" /\ lifecycle' = NoClient
  /\ Goto(c, "idle")
  /\ UNCHANGED <<up, frameVars, closed, errors, eventVars, at, result>>

(* The part does not start (a source that called back has no thread left): *)
(* failStart() tears the others down.                                      *)
StartPartFails(c, p) ==
  /\ IsNextToStart(c, p)
  /\ IF p[1] = "source"
     THEN at[p] \in {"off", "idle"} /\ at' = [at EXCEPT ![p] = "off"]
     ELSE UNCHANGED at
  /\ accepting' = FALSE /\ result' = "Failed"
  /\ Goto(c, "teardown")
  /\ UNCHANGED <<state, lifecycle, up, frameVars, closed, errors, eventVars>>

\* setState(Running): the store first, the event after it.
StartDone(c) ==
  /\ pc[c] = "start" /\ up = Parts
  /\ state' = "Running"
  /\ Goto(c, "announce")
  /\ UNCHANGED <<accepting, lifecycle, up, frameVars, closed, errors, eventVars,
                 at, result>>

AnnounceRunning(c) ==
  /\ pc[c] = "announce"
  /\ PushEvent("Running") /\ lifecycle' = NoClient
  /\ Goto(c, "idle")
  /\ UNCHANGED <<state, accepting, up, frameVars, closed, errors, seen, at, result>>

(* stop().  In Created or Stopped it returns 0 and changes nothing. *)
Stop(c) ==
  /\ pc[c] = "idle" /\ lifecycle = NoClient /\ state \notin {"Created", "Stopped"}
  /\ lifecycle' = c /\ state' = "Stopping" /\ PushEvent("Stopping")
  /\ accepting' = FALSE /\ result' = "Stopped"
  /\ Goto(c, "teardown")
  /\ UNCHANGED <<up, frameVars, closed, errors, seen, at>>

(* teardown(): the part to stop is the first of StopOrder that is up. *)
IsNextToStop(p) ==
  /\ p \in up
  /\ \E i \in DOMAIN StopOrder :
       StopOrder[i] = p /\ \A j \in 1 .. i - 1 : StopOrder[j] \notin up

\* What stopping p leaves of result: stop() of a part may fail, a join cannot.
Outcomes(p) == IF p[1] = "worker" THEN {result} ELSE {result, "Failed"}

\* A source's stop() returns when its thread is out of the callbacks.
StopSource(c, p) ==
  /\ pc[c] = "teardown" /\ IsNextToStop(p) /\ p[1] = "source"
  /\ at[p] = "idle" /\ at' = [at EXCEPT ![p] = "off"]
  /\ up' = up \ {p} /\ result' \in Outcomes(p)
  /\ UNCHANGED <<state, accepting, lifecycle, frameVars, closed, errors,
                 eventVars, pc>>

\* Mutant of CloseQueues: the workers are joined with their queues open.
CloseNoQueues(c) ==
  /\ pc[c] = "teardown" /\ \A s \in Coded : <<"source", s>> \notin up
  /\ Goto(c, "join")
  /\ UNCHANGED <<state, accepting, lifecycle, up, frameVars, closed, errors,
                 eventVars, at, result>>

\* Mutant of CloseQueues: the queues are closed before the sources are stopped.
CloseQueuesFirst(c) ==
  /\ pc[c] = "teardown"
  /\ closed' = [s \in Coded |-> TRUE]
  /\ Goto(c, "join")
  /\ UNCHANGED <<state, accepting, lifecycle, up, frameVars, errors, eventVars,
                 at, result>>

CloseQueues(c) ==
  /\ pc[c] = "teardown" /\ \A s \in Coded : <<"source", s>> \notin up
  /\ closed' = [s \in Coded |-> TRUE]
  /\ Goto(c, "join")
  /\ UNCHANGED <<state, accepting, lifecycle, up, frameVars, errors, eventVars,
                 at, result>>

(* The rest: a worker is joined when it has drained its queue; a fanout    *)
(* joins its sink workers, all but one that a concurrent remove() is still *)
(* waiting for.                                                            *)
StopPart(c, p) ==
  /\ pc[c] = "join" /\ IsNextToStop(p)
  /\ p[1] = "worker" => at[p] = "off"
  /\ up' = up \ {p} /\ result' \in Outcomes(p)
  /\ UNCHANGED <<state, accepting, lifecycle, frameVars, closed, errors,
                 eventVars, at, pc>>

StopDone(c) ==
  /\ pc[c] = "join" /\ up = {}
  /\ state' = result
  /\ events' = IF state = "Starting" THEN WithEvent(WithEvent(events, "error"), result)
               ELSE WithEvent(events, result)
  /\ lifecycle' = NoClient /\ result' = "none"
  /\ Goto(c, "idle")
  /\ UNCHANGED <<accepting, up, frameVars, closed, errors, seen, at>>

-----------------------------------------------------------------------------
(* Source threads: onVideoFrame, onAudioFrame, onEncodedAudioPacket. *)
CaptureFrame(s) ==
  /\ at[<<"source", s>>] = "idle" /\ accepting /\ captured[s] < MaxFrames
  /\ captured' = [captured EXCEPT ![s] = @ + 1]
  /\ at' = [at EXCEPT ![<<"source", s>>] = "push"]
  /\ UNCHANGED <<state, accepting, lifecycle, up, queued, closed, dropped,
                 handled, errors, eventVars, pc, result>>

PushFrame(s) ==
  /\ at[<<"source", s>>] = "push"
  /\ at' = [at EXCEPT ![<<"source", s>>] = "idle"]
  /\ \/ closed[s] /\ UNCHANGED <<queued, dropped, events>>
     \/ /\ ~closed[s] /\ queued[s] < Capacity
        /\ queued' = [queued EXCEPT ![s] = @ + 1]
        /\ UNCHANGED <<dropped, events>>
     \/ /\ ~closed[s] /\ queued[s] = Capacity
        /\ dropped' = [dropped EXCEPT ![s] = @ + 1] /\ PushEvent("drop")
        /\ UNCHANGED queued
  /\ UNCHANGED <<state, accepting, lifecycle, up, closed, captured, handled,
                 errors, seen, pc, result>>

(* Encode workers: videoEncodeLoop, audioEncodeLoop. *)
PopFrame(s) ==
  /\ at[<<"worker", s>>] = "idle" /\ queued[s] > 0
  /\ queued' = [queued EXCEPT ![s] = @ - 1]
  /\ at' = [at EXCEPT ![<<"worker", s>>] = "encode"]
  /\ UNCHANGED <<state, accepting, lifecycle, up, closed, captured, dropped,
                 handled, errors, eventVars, pc, result>>

\* encode() gives a packet, or none yet; dispatch() follows a packet.
Encode(s) ==
  /\ at[<<"worker", s>>] = "encode"
  /\ handled' = [handled EXCEPT ![s] = @ + 1]
  /\ \E next \in {"dispatch", "idle"} : at' = [at EXCEPT ![<<"worker", s>>] = next]
  /\ UNCHANGED <<state, accepting, lifecycle, up, queued, closed, captured,
                 dropped, errors, eventVars, pc, result>>

EncodeFails(s) ==
  /\ at[<<"worker", s>>] = "encode" /\ s \in Encoded /\ errors < MaxErrors
  /\ handled' = [handled EXCEPT ![s] = @ + 1]
  /\ errors' = errors + 1 /\ PushEvent("error")
  /\ at' = [at EXCEPT ![<<"worker", s>>] = "degrade"]
  /\ UNCHANGED <<state, accepting, lifecycle, up, queued, closed, captured,
                 dropped, seen, pc, result>>

Dispatch(s) ==
  /\ at[<<"worker", s>>] = "dispatch"
  /\ at' = [at EXCEPT ![<<"worker", s>>] = "idle"]
  /\ UNCHANGED <<state, accepting, lifecycle, up, frameVars, closed, errors,
                 eventVars, pc, result>>

EncoderExit(s) ==
  /\ at[<<"worker", s>>] = "idle" /\ queued[s] = 0 /\ closed[s]
  /\ at' = [at EXCEPT ![<<"worker", s>>] = "off"]
  /\ UNCHANGED <<state, accepting, lifecycle, up, frameVars, closed, errors,
                 eventVars, pc, result>>

(* onSourceError and onSinkError: the latter from a sink worker, from the  *)
(* dispatching worker when a sink's queue is full, or from pushVideoPacket.*)
ReportError(r) ==
  /\ \/ at[r] = "idle" /\ r[1] \in {"source", "sink"}
     \/ at[r] = "dispatch"
  /\ errors < MaxErrors
  /\ errors' = errors + 1 /\ PushEvent("error")
  /\ at' = [at EXCEPT ![r] = "degrade"]
  /\ UNCHANGED <<state, accepting, lifecycle, up, frameVars, closed, seen, pc, result>>

\* Mutant of MarkDegraded: a plain store instead of the compare-exchange.
MarkDegradedStore(r) ==
  /\ at[r] = "degrade"
  /\ state' = "Degraded" /\ at' = [at EXCEPT ![r] = "announce"]
  /\ UNCHANGED <<accepting, lifecycle, up, frameVars, closed, errors, eventVars,
                 pc, result>>

\* markDegraded(): compare-exchange from Running, then the event.
MarkDegraded(r) ==
  /\ at[r] = "degrade"
  /\ IF state = "Running"
     THEN state' = "Degraded" /\ at' = [at EXCEPT ![r] = "announce"]
     ELSE at' = [at EXCEPT ![r] = "idle"] /\ UNCHANGED state
  /\ UNCHANGED <<accepting, lifecycle, up, frameVars, closed, errors, eventVars,
                 pc, result>>

AnnounceDegraded(r) ==
  /\ at[r] = "announce"
  /\ PushEvent("Degraded") /\ at' = [at EXCEPT ![r] = "idle"]
  /\ UNCHANGED <<state, accepting, lifecycle, up, frameVars, closed, errors,
                 seen, pc, result>>

\* The application pulls an event.
WaitEvent ==
  /\ events # <<>>
  /\ events' = Tail(events)
  /\ seen' = IF Head(events) \in {"error", "drop"} THEN seen ELSE Head(events)
  /\ UNCHANGED <<state, accepting, lifecycle, up, frameVars, closed, errors, at,
                 pc, result>>

-----------------------------------------------------------------------------
\* The steps of a client inside start() or stop().
ClientStep(c) ==
  \/ StartDone(c) \/ AnnounceRunning(c) \/ CloseQueues(c) \/ StopDone(c)
  \/ \E s \in Coded : LaunchSource(c, s)
  \/ \E p \in Parts :
       StartPart(c, p) \/ StartPartFails(c, p) \/ StopSource(c, p) \/ StopPart(c, p)

WorkerStep(s) ==
  \/ PopFrame(s) \/ Encode(s) \/ EncodeFails(s) \/ Dispatch(s) \/ EncoderExit(s)

CallbackStep(r) == MarkDegraded(r) \/ AnnounceDegraded(r)

Next ==
  \/ \E c \in Clients : Start(c) \/ Stop(c) \/ ClientStep(c)
  \/ \E s \in Coded : CaptureFrame(s) \/ PushFrame(s) \/ WorkerStep(s)
  \/ \E r \in Reporters : ReportError(r) \/ CallbackStep(r)
  \/ WaitEvent

Spec == Init /\ [][Next]_vars

\* Threads inside a call, a callback or the encode loop run on.  Nobody has to
\* call start or stop, to capture a frame or to fail; stop() of a source gets
\* its turn between two callbacks.
FairSpec ==
  /\ Spec
  /\ \A c \in Clients : SF_vars(ClientStep(c))
  /\ \A s \in Coded : WF_vars(WorkerStep(s)) /\ WF_vars(PushFrame(s))
  /\ \A r \in Reporters : WF_vars(CallbackStep(r))

-----------------------------------------------------------------------------
(* Correctness. *)

States == {"Created", "Starting", "Running", "Degraded", "Stopping", "Stopped", "Failed"}

TypeOK ==
  /\ state \in States /\ accepting \in BOOLEAN
  /\ lifecycle \in Clients \cup {NoClient} /\ up \subseteq Parts
  /\ queued \in [Coded -> 0 .. Capacity] /\ closed \in [Coded -> BOOLEAN]
  /\ captured \in [Coded -> 0 .. MaxFrames] /\ dropped \in [Coded -> 0 .. MaxFrames]
  /\ handled \in [Coded -> 0 .. MaxFrames] /\ errors \in 0 .. MaxErrors
  /\ events \in Seq(States \cup {"error", "drop"}) /\ Len(events) <= EventCapacity
  /\ seen \in States \cup {"none"}
  /\ at \in [Reporters -> {"off", "idle", "push", "encode", "dispatch",
                           "degrade", "announce"}]
  /\ pc \in [Clients -> {"idle", "start", "announce", "teardown", "join"}]
  /\ result \in {"none", "Stopped", "Failed"}

(* state_ is stored by start() and stop() and compare-exchanged by data    *)
(* threads at any time, and still only moves along the life cycle: an      *)
(* error that is late never brings a stopped pipeline back to Degraded.    *)
LegalStep ==
  \/ state \in {"Created", "Stopped", "Failed"} /\ state' = "Starting"
  \/ state = "Starting" /\ state' \in {"Running", "Failed"}
  \/ state = "Running" /\ state' \in {"Degraded", "Stopping"}
  \/ state \in {"Degraded", "Failed"} /\ state' = "Stopping"
  \/ state = "Stopping" /\ state' \in {"Stopped", "Failed"}
StateSteps == [][LegalStep]_state

(* Between calls all parts are up or none is, also after a start() that    *)
(* failed half way or a stop() that reported an error: no part leaks.      *)
AllOrNothing ==
  lifecycle = NoClient =>
    /\ state \in Running => up = Parts
    /\ state \notin Running => up = {} /\ ~accepting
    /\ \A r \in Reporters \ ({"sink"} \X Streams) : at[r] # "off" => r \in up

(* A worker calls the encoder and the fanout only while they are started. *)
EncodeWhileUp ==
  \A s \in Coded :
    /\ at[<<"worker", s>>] = "encode" /\ s \in Encoded => <<"encoder", s>> \in up
    /\ at[<<"worker", s>>] = "dispatch" => <<"fanout", s>> \in up

(* Every frame that capturedFrames counts has been encoded or is counted   *)
(* as dropped by the time the pipeline is at rest: none is left in a queue *)
(* or pushed into a closed one.                                            *)
DrainedAtRest ==
  lifecycle = NoClient /\ state \notin Running =>
    \A s \in Coded : captured[s] = handled[s] + dropped[s]

(* Nothing of a session is left between calls: neither a part that is up,  *)
(* nor a frame.                                                            *)
NothingLeft == AllOrNothing /\ DrainedAtRest

(* start() and stop() come to an end, whatever the parts report meanwhile. *)
LifecycleEnds == \A c \in Clients : pc[c] # "idle" ~> pc[c] = "idle"

-----------------------------------------------------------------------------
(* What the design document says of the pipeline and the code does not do. *)

Reporting == {r \in Reporters : at[r] \in {"degrade", "announce"}}

\* StateChanged(Degraded) follows StateChanged(Running): who has pulled every
\* event knows the state.
ListenerKnowsState ==
  lifecycle = NoClient /\ Reporting = {} /\ events = <<>> => seen = state
=============================================================================
