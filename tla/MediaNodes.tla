------------------------------ MODULE MediaNodes ------------------------------
(***************************************************************************)
(* SvcKit/subsystems/media: the sources and the encoder that stand between *)
(* a media pipeline and a HAL (media_factory.cpp).                         *)
(*   "video": PlatformVideoSource, called back from a thread of the HAL;    *)
(*   "packet": PlatformAudioPacketSource, with a thread of its own;        *)
(*   "encoder": PlatformVideoEncoder, which waits for nobody.              *)
(* start() and stop() of a source hold its mutex_ throughout.  A node whose *)
(* own thread has ended is not running, and has to be stopped all the same. *)
(***************************************************************************)
EXTENDS Naturals

CONSTANT Kinds

VARIABLES
  life,        \* of the node: "none", "alive", "dying" in its destructor
  open,        \* how often its device has been opened and not closed
  running,     \* running_
  device,      \* the HAL was started
  handler,     \* handler_ is set, and with it the callback of the HAL
  thread,      \* the thread that delivers: "off", "wait", "deliver", "ended"
  stopping     \* stop() waits for that thread
vars == <<life, open, running, device, handler, thread, stopping>>
node == <<life, open>>

Init ==
  /\ open = [k \in Kinds |-> 0] /\ life = [k \in Kinds |-> "none"]
  /\ running = [k \in Kinds |-> FALSE] /\ device = [k \in Kinds |-> FALSE]
  /\ handler = [k \in Kinds |-> FALSE] /\ thread = [k \in Kinds |-> "off"]
  /\ stopping = [k \in Kinds |-> FALSE]

Set(f, k, x) == [f EXCEPT ![k] = x]

\* Mutant of Closed: a device whose format cannot be negotiated is not closed.
ClosedNot(step) == IF step = "operations" THEN 1 ELSE 0

\* createPlatform...(): what a failure after the device was opened closes again.
Closed(step) == IF step \in {"operations", "format", "capacity"} THEN 1 ELSE 0

\* createPlatform...(): the module, the device, its operations, the format that both
\* sides negotiate, the capacity that follows; step is the one that fails, or "none".
Create(k, step) ==
  /\ life[k] = "none"
  /\ open' = Set(open, k, IF step \in {"module", "device"} THEN 0 ELSE 1 - Closed(step))
  /\ life' = Set(life, k, IF step = "none" THEN "alive" ELSE "none")
  /\ UNCHANGED <<running, device, handler, thread, stopping>>

\* The destructor calls stop(), and closes the device when that has returned.
Destroy(k) ==
  /\ life[k] = "alive" /\ ~stopping[k] /\ life' = Set(life, k, "dying")
  /\ UNCHANGED <<open, running, device, handler, thread, stopping>>

\* Mutant of Destroyed: a node that has failed is closed without being stopped.
DestroyedFailed(k) ==
  /\ life[k] = "dying" /\ ~stopping[k] /\ ~running[k]
  /\ open' = Set(open, k, open[k] - 1) /\ life' = Set(life, k, "none")
  /\ UNCHANGED <<running, device, handler, thread, stopping>>

Destroyed(k) ==
  /\ life[k] = "dying" /\ ~stopping[k] /\ ~running[k] /\ thread[k] = "off"
  /\ open' = Set(open, k, open[k] - 1) /\ life' = Set(life, k, "none")
  /\ UNCHANGED <<running, device, handler, thread, stopping>>

\* Mutant of HalStart: the HAL does not look whether it was started.
HalStartAgain(k, ok) == ok

\* start() of the HAL may fail, and does when it was started.
HalStart(k, ok) == ok /\ ~device[k]

\* A node that is running refuses; the thread of a packet source may fail, too.
Start(k, ok, threaded) ==
  LET up == HalStart(k, ok) /\ (k = "packet" => threaded) IN
  /\ life[k] = "alive" /\ ~stopping[k] /\ ~running[k]
  /\ running' = Set(running, k, up)
  /\ device' = Set(device, k, device[k] \/ up)
  /\ handler' = Set(handler, k, IF k = "packet" /\ ~HalStart(k, ok) THEN handler[k] ELSE up)
  /\ IF up /\ k # "encoder" THEN thread' = Set(thread, k, "wait") ELSE UNCHANGED thread
  /\ UNCHANGED <<stopping, node>>

\* Mutant of Stop: a packet source whose thread has ended is not stopped.
StopRunning(k) ==
  /\ ~stopping[k] /\ running[k]
  /\ running' = Set(running, k, FALSE)
  /\ IF k = "encoder" THEN device' = Set(device, k, FALSE) /\ handler' = Set(handler, k, FALSE) /\ UNCHANGED stopping
     ELSE stopping' = Set(stopping, k, TRUE) /\ UNCHANGED <<device, handler>>
  /\ UNCHANGED <<thread, node>>

Stop(k) ==
  /\ ~stopping[k]
  /\ running[k] \/ (k = "packet" /\ thread[k] # "off")
  /\ running' = Set(running, k, FALSE)
  /\ IF k = "encoder" THEN device' = Set(device, k, FALSE) /\ handler' = Set(handler, k, FALSE) /\ UNCHANGED stopping
     ELSE stopping' = Set(stopping, k, TRUE) /\ UNCHANGED <<device, handler>>
  /\ UNCHANGED <<thread, node>>

\* Mutant of Stopped: the callbacks are cleared while the thread may use them.
StoppedEarly(k) ==
  /\ stopping[k]
  /\ stopping' = Set(stopping, k, FALSE) /\ device' = Set(device, k, FALSE) /\ handler' = Set(handler, k, FALSE)
  /\ UNCHANGED <<running, thread, node>>

\* The thread has been joined, by the HAL's stop() or before it.
Stopped(k) ==
  /\ stopping[k] /\ thread[k] \in {"off", "ended"}
  /\ stopping' = Set(stopping, k, FALSE) /\ device' = Set(device, k, FALSE) /\ handler' = Set(handler, k, FALSE)
  /\ thread' = Set(thread, k, "off") /\ UNCHANGED <<running, node>>

-----------------------------------------------------------------------------
(* onHalFrame() and PlatformAudioPacketSource::captureLoop()                *)

\* A frame comes: it is delivered while the source runs.  The thread of a packet
\* source leaves when it does not, that of a HAL when it is stopped.
Wait(k) ==
  /\ thread[k] = "wait"
  /\ \/ running[k] /\ thread' = Set(thread, k, "deliver")
     \/ ~running[k] /\ thread' = Set(thread, k, "ended")
  /\ UNCHANGED <<running, device, handler, stopping, node>>

Deliver(k) ==
  /\ thread[k] = "deliver" /\ thread' = Set(thread, k, "wait")
  /\ UNCHANGED <<running, device, handler, stopping, node>>

\* A read that fails, an oversized packet, a handler that throws.
Fail(k) ==
  /\ k = "packet" /\ thread[k] # "off" /\ thread[k] # "ended" /\ running[k]
  /\ running' = Set(running, k, FALSE) /\ thread' = Set(thread, k, "ended")
  /\ UNCHANGED <<device, handler, stopping, node>>

Next ==
  \E k \in Kinds :
    \/ \E ok, threaded \in BOOLEAN : Start(k, ok, threaded)
    \/ \E step \in {"module", "device", "operations", "format", "capacity", "none"} : Create(k, step)
    \/ Destroy(k) \/ Destroyed(k) \/ Stop(k) \/ Stopped(k) \/ Wait(k) \/ Deliver(k) \/ Fail(k)

Spec == Init /\ [][Next]_vars

\* The HALs deliver or time out.
Fairness ==
  \A k \in Kinds : /\ WF_vars(Stopped(k)) /\ WF_vars(Wait(k) \/ Deliver(k))
                   /\ WF_vars(life[k] = "dying" /\ Stop(k)) /\ WF_vars(Destroyed(k))

-----------------------------------------------------------------------------
(* Correctness. *)

(* A thread that delivers has a handler to call, and the HAL behind it is   *)
(* started: neither is taken from it before it has been joined.            *)
DeliversToHandler ==
  \A k \in Kinds : thread[k] \in {"wait", "deliver"} => handler[k] /\ device[k]

(* A thread is never started while the last one has not been joined, which *)
(* std::thread answers by ending the program: a source that failed cannot   *)
(* be started again before it is stopped, for its HAL refuses.             *)
OneThread == [][\A k \in Kinds : thread[k] = "ended" => thread'[k] \in {"ended", "off"}]_vars

(* A node that was stopped holds nothing.                                  *)
StoppedHoldsNothing ==
  \A k \in Kinds : ~running[k] /\ ~stopping[k] /\ thread[k] = "off" => ~device[k] /\ ~handler[k]

(* A device is open while its node lives, whichever step of its creation   *)
(* failed, and is never closed while it is started.                        *)
OpenWhileAlive ==
  \A k \in Kinds : /\ open[k] = IF life[k] = "none" THEN 0 ELSE 1
                   /\ device[k] \/ thread[k] # "off" => open[k] = 1

(* stop() returns and leaves the HAL free; a destructor closes the device.  *)
StopReturns == \A k \in Kinds : (stopping[k] ~> ~device[k]) /\ (life[k] = "dying" ~> life[k] = "none")
===============================================================================
