------------------------------ MODULE HostSensors ------------------------------
(***************************************************************************)
(* platform/ubuntu_x86_64/sensors/sensors_host_x86.c: sensors that are     *)
(* polled.  One thread is in poll(), another activates sensors and sets    *)
(* their intervals; both take the device's mutex, and poll() gives it up   *)
(* in pthread_cond_wait().  Times are what is left of them, in ticks.      *)
(***************************************************************************)
EXTENDS Integers, FiniteSets

CONSTANTS
  Sensors,     \* slots[], numbered in order
  MaxDelay,    \* bound on the interval of a sensor
  MaxTimeout,  \* bound on the time limit of a poll()
  MaxCalls     \* bound on the calls of activate() and set_delay()

VARIABLES
  enabled,     \* the sensors whose enabled is set
  delay, due,  \* delay_us, and what is left until next_due_ns
  at,          \* place of poll(): "out", "look" or, without the mutex, "waiting"
  room,        \* max_count
  deadline,    \* what is left of the time limit
  until,       \* what is left of the time given to the wait
  hastened,    \* sensors set_delay() has set since the wait began
  calls
vars == <<enabled, delay, due, at, room, deadline, until, hastened, calls>>
polling == <<at, room, deadline, until, hastened>>

Never == MaxDelay + MaxTimeout + 1   \* UINT64_MAX: longer than every time

\* host_sensors_open(): nothing is active or due.
Init ==
  /\ enabled = {} /\ delay = [s \in Sensors |-> MaxDelay] /\ due = [s \in Sensors |-> 0]
  /\ at = "out" /\ room = 1 /\ deadline = 0 /\ until = 0 /\ hastened = {} /\ calls = 0

\* pthread_cond_broadcast(): a poll() that waits looks again.
Broadcast == at' = IF at = "waiting" THEN "look" ELSE at

\* Mutant of Activate: poll() is not woken.
ActivateSilent(s, on) ==
  /\ calls < MaxCalls /\ calls' = calls + 1
  /\ IF on THEN enabled' = enabled \cup {s} /\ due' = [due EXCEPT ![s] = delay[s]]
           ELSE enabled' = enabled \ {s} /\ UNCHANGED due
  /\ UNCHANGED <<delay, polling>>

Activate(s, on) ==
  /\ calls < MaxCalls /\ calls' = calls + 1
  /\ IF on THEN enabled' = enabled \cup {s} /\ due' = [due EXCEPT ![s] = delay[s]] /\ Broadcast
           ELSE enabled' = enabled \ {s} /\ UNCHANGED <<due, at>>
  /\ UNCHANGED <<delay, room, deadline, until, hastened>>

\* set_delay() plans anew but wakes no one.
SetDelay(s, d) ==
  /\ calls < MaxCalls /\ calls' = calls + 1
  /\ delay' = [delay EXCEPT ![s] = d]
  /\ due' = IF s \in enabled THEN [due EXCEPT ![s] = d] ELSE due
  /\ hastened' = IF at = "waiting" THEN hastened \cup {s} ELSE hastened
  /\ UNCHANGED <<enabled, at, room, deadline, until>>

Poll(n, timeout) ==
  /\ at = "out" /\ at' = "look" /\ room' = n /\ deadline' = timeout
  /\ UNCHANGED <<enabled, delay, due, until, hastened, calls>>

-----------------------------------------------------------------------------
(* One round of poll()'s loop, which ends in a return or in a wait.         *)
Earliest == CHOOSE t \in {Never} \cup {due[s] : s \in enabled} : \A s \in enabled : t <= due[s]
Due == {s \in enabled : due[s] = 0}

\* Sensors that are due are told in the order of the slots, while there is room.
Told == {s \in Due : Cardinality({r \in Due : r <= s}) <= room}

Report ==
  /\ at = "look" /\ Due # {} /\ at' = "out"
  /\ due' = [s \in Sensors |-> IF s \in Told THEN delay[s] ELSE due[s]]
  /\ UNCHANGED <<enabled, delay, room, deadline, until, hastened, calls>>

TimeOut ==
  /\ at = "look" /\ Due = {} /\ deadline = 0 /\ at' = "out"
  /\ UNCHANGED <<enabled, delay, due, room, deadline, until, hastened, calls>>

Least(a, b) == IF a < b THEN a ELSE b

\* Mutant of Wait: the time limit is all that ends the wait.
WaitForLimit ==
  /\ at = "look" /\ Due = {} /\ deadline > 0
  /\ at' = "waiting" /\ until' = deadline /\ hastened' = {}
  /\ UNCHANGED <<enabled, delay, due, room, deadline, calls>>

Wait ==
  /\ at = "look" /\ Due = {} /\ deadline > 0
  /\ at' = "waiting" /\ until' = Least(Earliest, deadline) /\ hastened' = {}
  /\ UNCHANGED <<enabled, delay, due, room, deadline, calls>>

\* A wait for a time is over with it.
Expire ==
  /\ at = "waiting" /\ until = 0 /\ at' = "look"
  /\ UNCHANGED <<enabled, delay, due, room, deadline, until, hastened, calls>>

\* Or earlier: the condition variable counts in real time, in which a monotonic
\* time is usually long past.
ExpireEarly ==
  /\ at = "waiting" /\ until # Never /\ at' = "look"
  /\ UNCHANGED <<enabled, delay, due, room, deadline, until, hastened, calls>>

\* A tick passes, on a clock of the device's own.
Sooner(t) == IF t \in {0, Never} THEN t ELSE t - 1
Tick ==
  /\ due' = [s \in Sensors |-> IF s \in enabled THEN Sooner(due[s]) ELSE due[s]]
  /\ deadline' = (IF at = "out" THEN deadline ELSE Sooner(deadline))
  /\ until' = IF at = "waiting" THEN Sooner(until) ELSE until
  /\ UNCHANGED <<enabled, delay, at, room, hastened, calls>>

PollStep == Report \/ TimeOut \/ Wait \/ Expire

Next ==
  \/ \E s \in Sensors : (\E on \in BOOLEAN : Activate(s, on))
                        \/ \E d \in 1..MaxDelay : SetDelay(s, d)
  \/ \E n \in 1..Cardinality(Sensors), timeout \in (0..MaxTimeout) \cup {Never} : Poll(n, timeout)
  \/ PollStep \/ ExpireEarly \/ Tick

Spec == Init /\ [][Next]_vars

\* poll() runs on once it is called, and time passes.
Fairness == WF_vars(PollStep) /\ WF_vars(Tick)

-----------------------------------------------------------------------------
(* Correctness. *)

(* poll() does not sleep past its time limit, nor past the next reading of  *)
(* an active sensor, whatever was activated while it slept, unless          *)
(* set_delay() has brought the reading forward in the meantime.            *)
WakesInTime ==
  at = "waiting" => /\ until <= deadline
                    /\ \A s \in enabled \ hastened : until <= due[s]

(* A sensor that stays active gets poll() to return, also one that was      *)
(* activated while poll() waited without a time limit; so does a limit.     *)
PollReturns ==
  /\ (at # "out" /\ enabled # {}) ~> (at = "out" \/ enabled = {})
  /\ (at # "out" /\ deadline # Never) ~> (at = "out")
===============================================================================
