------------------------------ MODULE HostBluetooth ------------------------------
(***************************************************************************)
(* platform/ubuntu_x86_64/bluetooth/bluetooth_host_x86.c: an adapter whose *)
(* discovery is a thread that shows devices to a callback, until it is     *)
(* stopped or the callback has seen enough.  Calls are made one at a time  *)
(* and not from the callback; they are atomic except where they join.     *)
(***************************************************************************)

VARIABLES
  open,         \* the device is open, its priv allocated
  on,           \* state is BT_STATE_ON
  discovering,
  started,      \* thread_started: there is a thread to be joined
  thread,       \* place of discovery_thread()
  call          \* the call that waits in pthread_join(), or "none"
vars == <<open, on, discovering, started, thread, call>>

Calls == {"stop", "disable", "close"}

\* host_bt_open()
Init ==
  /\ open = TRUE /\ on = FALSE /\ discovering = FALSE /\ started = FALSE
  /\ thread = "off" /\ call = "none"

Idle == open /\ call = "none"

Enable ==
  /\ Idle /\ on' = TRUE
  /\ UNCHANGED <<open, discovering, started, thread, call>>

\* Mutant of StartDiscovery: a discovery that goes on is not looked for.
StartDiscoveryAnew(ok) ==
  /\ Idle /\ on
  /\ discovering' = ok /\ started' = (started \/ ok)
  /\ thread' = (IF ok THEN "check" ELSE thread)
  /\ UNCHANGED <<open, on, call>>

\* start_discovery(); the thread may not come to be.
StartDiscovery(ok) ==
  /\ Idle /\ on /\ ~discovering
  /\ discovering' = ok /\ started' = (started \/ ok)
  /\ thread' = (IF ok THEN "check" ELSE thread)
  /\ UNCHANGED <<open, on, call>>

\* Whether a call has a thread to join: disable() only looks at discovering.
Joins(c) == IF c = "disable" THEN discovering ELSE discovering \/ started

\* What a call leaves.
Leaves(c) ==
  /\ on' = (on /\ c = "stop") /\ open' = (open /\ c # "close")

\* A call that has nothing to stop.
AtOnce(c) ==
  /\ Idle /\ ~Joins(c) /\ Leaves(c)
  /\ UNCHANGED <<discovering, started, thread, call>>

\* Mutant of StopDiscovery: the thread is not told.
StopDiscoverySilent(c) ==
  /\ Idle /\ Joins(c) /\ call' = c
  /\ UNCHANGED <<open, on, discovering, started, thread>>

\* stop_discovery(), also as a part of disable() and of close().
StopDiscovery(c) ==
  /\ Idle /\ Joins(c) /\ discovering' = FALSE /\ call' = c
  /\ UNCHANGED <<open, on, started, thread>>

\* Mutant of Joined: the thread is not waited for.
JoinedAtOnce ==
  /\ call # "none" /\ started' = FALSE /\ Leaves(call) /\ call' = "none"
  /\ UNCHANGED <<discovering, thread>>

Joined ==
  /\ call # "none" /\ thread = "off" /\ started' = FALSE /\ Leaves(call) /\ call' = "none"
  /\ UNCHANGED <<discovering, thread>>

-----------------------------------------------------------------------------
(* discovery_thread()                                                       *)

\* discovering is looked at, between devices and while the thread sleeps.
Check ==
  /\ thread = "check" /\ thread' = IF discovering THEN "show" ELSE "end"
  /\ UNCHANGED <<open, on, discovering, started, call>>

\* A device is shown to the callback, which may have seen enough.
Show ==
  /\ thread = "show" /\ thread' \in {"check", "end"}
  /\ UNCHANGED <<open, on, discovering, started, call>>

\* Mutant of End: a discovery that was ended by its callback seems to go on.
EndQuietly ==
  /\ thread = "end" /\ thread' = "off"
  /\ UNCHANGED <<open, on, discovering, started, call>>

End ==
  /\ thread = "end" /\ discovering' = FALSE /\ thread' = "off"
  /\ UNCHANGED <<open, on, started, call>>

ThreadStep == Check \/ Show \/ End

Next ==
  \/ Enable \/ (\E ok \in BOOLEAN : StartDiscovery(ok))
  \/ (\E c \in Calls : AtOnce(c) \/ StopDiscovery(c)) \/ Joined \/ ThreadStep

Spec == Init /\ [][Next]_vars

\* Callbacks return.
Fairness == WF_vars(ThreadStep) /\ WF_vars(Joined)

-----------------------------------------------------------------------------
(* Correctness. *)

(* While a device is shown the adapter is on and the device open, or the    *)
(* call that ends that waits for the thread: no callback comes after it.   *)
ShowsWhileOn == thread # "off" => open /\ on /\ started

(* Discovery is said to go on just while its thread does, so the next one   *)
(* can be started when the callback has ended the last; a device that is    *)
(* closed has joined its thread.                                           *)
DiscoveringIsTrue ==
  /\ discovering => thread # "off"
  /\ call = "none" /\ ~discovering => thread = "off"
  /\ ~open => ~started

(* A thread is begun only when the one before has ended.  It need not have  *)
(* been joined: when the callback has ended a discovery and the next is     *)
(* started without a stop in between, the code forgets the old thread.      *)
OneDiscovery == [][thread' # thread /\ thread' = "check" => thread \in {"off", "show"}]_vars

(* Stopping, disabling and closing return.                                 *)
StopReturns == (call # "none") ~> (call = "none")
===============================================================================
