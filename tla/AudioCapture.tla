----------------------------- MODULE AudioCapture -----------------------------
(***************************************************************************)
(* SvcKit/subsystems/media: PlatformAudioSource (media_factory.cpp), which *)
(* reads whatever the audio HAL has in a thread of its own and hands it on *)
(* in frames of a fixed size, stamped by the time of their first sample.    *)
(* Samples are numbered by the clock that stamps them, one per tick; those *)
(* the HAL loses are never read.  The calls start() and stop() hold mutex_. *)
(***************************************************************************)
EXTENDS Integers, Sequences, FiniteSetsExt

CONSTANTS
  Frame,       \* framesPerBuffer
  Capacity,    \* size of readBuffer_ at first
  MaxChunk,    \* the most the HAL has at once
  MaxTime      \* bound on the clock

VARIABLES
  started, running, stopping,
  device,      \* the HAL's input runs
  handler,     \* handler_ and errorHandler_ are set
  thread,      \* captureLoop(): "off", "read", "deliver"
  capacity,    \* readBuffer_.size()
  pending,     \* pending_, as the samples in it
  stamp,       \* pendingTimestampNs_
  clock,       \* the next sample of the HAL
  unread,      \* samples read in this run and not delivered: a ghost count
  last         \* the last frame: its samples and its stamp
vars == <<started, running, stopping, device, handler, thread, capacity, pending, stamp, clock,
          unread, last>>
buffers == <<capacity, pending, stamp, clock, unread, last>>

NoFrame == [samples |-> <<>>, stamp |-> -1]

Init ==
  /\ started = FALSE /\ running = FALSE /\ stopping = FALSE /\ device = FALSE
  /\ handler = FALSE /\ thread = "off" /\ capacity = Capacity
  /\ pending = <<>> /\ stamp = 0 /\ clock = 0 /\ unread = 0 /\ last = NoFrame

\* start(): the HAL or the thread may fail.
Start(ok) ==
  /\ ~stopping /\ ~started
  /\ started' = ok /\ running' = ok /\ device' = ok /\ handler' = ok
  /\ thread' = IF ok THEN "read" ELSE "off"
  /\ UNCHANGED <<stopping, buffers>>

\* Mutant of Stop: the thread is not told.
StopSilent ==
  /\ ~stopping /\ started /\ stopping' = TRUE
  /\ UNCHANGED <<started, running, device, handler, thread, buffers>>

Stop ==
  /\ ~stopping /\ started /\ stopping' = TRUE /\ running' = FALSE
  /\ UNCHANGED <<started, device, handler, thread, buffers>>

\* Mutant of Stopped: what is pending is left for the next run.
StoppedKeeps ==
  /\ stopping /\ thread = "off" /\ stopping' = FALSE /\ started' = FALSE /\ device' = FALSE
  /\ handler' = FALSE /\ UNCHANGED <<running, thread, buffers>>

\* The rest of stop(), after the thread has been joined.
Stopped ==
  /\ stopping /\ thread = "off"
  /\ stopping' = FALSE /\ started' = FALSE /\ device' = FALSE /\ handler' = FALSE
  /\ pending' = <<>> /\ unread' = 0 /\ UNCHANGED <<running, thread, capacity, stamp, clock, last>>

-----------------------------------------------------------------------------
(* captureLoop() *)

Ends == thread' = "off" /\ UNCHANGED <<started, stopping, device, handler>>
Goes(to) == thread' = to /\ UNCHANGED <<started, stopping, device, handler>>

\* running_ is looked at before and after the read.
Leave == thread = "read" /\ ~running /\ Ends /\ UNCHANGED <<running, buffers>>

\* Samples the HAL lost while nobody read.
Lose ==
  /\ device /\ clock < MaxTime /\ clock' = clock + 1
  /\ UNCHANGED <<started, running, stopping, device, handler, thread, capacity, pending, stamp,
                 unread, last>>

\* The buffer was too small: it grows, or the loop ends; what there was is lost.
Grow(size, ok) ==
  /\ thread = "read" /\ running /\ size > capacity
  /\ clock' = Min({clock + size, MaxTime})
  /\ capacity' = (IF ok THEN size ELSE capacity) /\ running' = ok
  /\ Goes("read") /\ UNCHANGED <<pending, stamp, unread, last>>

\* A failing read, or one that claims more than was asked for.
Fail == thread = "read" /\ running /\ running' = FALSE /\ Ends /\ UNCHANGED buffers

\* Mutant of Stamped: every chunk sets the time of what is pending.
StampedAlways(chunk) == clock

\* The time of the oldest sample pending.
Stamped(chunk) == IF pending = <<>> THEN clock ELSE stamp

Read(size) ==
  LET chunk == [i \in 1 .. size |-> clock + i - 1] IN
  /\ thread = "read" /\ running /\ size <= capacity /\ clock + size <= MaxTime
  /\ pending' = pending \o chunk /\ stamp' = Stamped(chunk) /\ clock' = clock + size
  /\ unread' = unread + size
  /\ Goes("deliver") /\ UNCHANGED <<running, capacity, last>>

\* Mutant of Rest: all that is pending goes with the frame.
RestNone == <<>>

\* What stays when a frame is taken from the front.
Rest == SubSeq(pending, Frame + 1, Len(pending))

\* Mutant of NextStamp: the time of the first sample ever.
NextStampOfFirst == stamp

NextStamp == stamp + Frame

\* A frame is handed on, whatever the handler throws; then the next, or the HAL.
Deliver ==
  /\ thread = "deliver"
  /\ IF Len(pending) >= Frame /\ running
     THEN /\ last' = [samples |-> SubSeq(pending, 1, Frame), stamp |-> stamp]
          /\ pending' = Rest /\ stamp' = NextStamp /\ unread' = unread - Frame
          /\ Goes("deliver")
     ELSE Goes("read") /\ UNCHANGED <<last, pending, stamp, unread>>
  /\ UNCHANGED <<running, capacity, clock>>

\* The frame cannot be copied: the loop ends.
DeliverFails ==
  /\ thread = "deliver" /\ running /\ Len(pending) >= Frame /\ running' = FALSE
  /\ Goes("read") /\ UNCHANGED buffers

ThreadStep ==
  Leave \/ Fail \/ Deliver \/ DeliverFails
  \/ \E size \in 1 .. MaxChunk : Read(size) \/ \E ok \in BOOLEAN : Grow(size, ok)

Next == Stop \/ Stopped \/ Lose \/ ThreadStep \/ \E ok \in BOOLEAN : Start(ok)

Spec == Init /\ [][Next]_vars

\* read() has a timeout of 100 ms.
Fairness == WF_vars(Leave) /\ WF_vars(Deliver) /\ WF_vars(Stopped)

-----------------------------------------------------------------------------
(* Correctness. *)

(* At rest nothing runs, no callback is kept, and no sample of one run is  *)
(* left to be delivered, with a wrong time, in the next.                   *)
NothingOfARunIsLeft ==
  /\ ~started => thread = "off" /\ ~device /\ ~handler /\ pending = <<>>
  /\ thread # "off" => device /\ handler

(* Cutting the stream into frames loses no sample: what was read and not   *)
(* delivered is pending, in every run.                                     *)
NoSampleLost == Len(pending) = unread

(* Frames are handed on in the order of capture, and do not overlap, also  *)
(* in time.                                                                *)
FramesInOrder ==
  [][last' # last => /\ \A i \in 1 .. Len(last.samples) : last.samples[i] < last'.samples[1]
                     /\ last'.stamp >= last.stamp + (IF last = NoFrame THEN 0 ELSE Frame)]_vars

(* No frame is stamped with a time at which its first sample was not yet   *)
(* captured; one that follows losses may be stamped too early.             *)
NeverFromTheFuture == last # NoFrame => last.stamp <= last.samples[1]

(* stop() returns.                                                         *)
StopReturns == stopping ~> ~stopping
===============================================================================
