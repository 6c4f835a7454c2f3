------------------------------ MODULE EventLoop ------------------------------
(***************************************************************************)
(* SvcKit/base/runtime: EpollEventLoop (EventLoop.cpp), the reactor that   *)
(* runs posted tasks, timers and one-shot fd callbacks in the thread of    *)
(* run(), while any thread calls its operations.                           *)
(*                                                                         *)
(* Critical sections of mutex_ are single steps; what an operation does    *)
(* after it, wake(), is a step of its own.  A task, timer task or fd       *)
(* callback is user code in the loop's thread: it calls the operations     *)
(* too.  An fd number is reused: owner[f] counts its descriptions, and     *)
(* closing one takes it out of the epoll set.  Owners call unwatchFd()     *)
(* before close(), as the callers in the repository do.                    *)
(***************************************************************************)
EXTENDS Integers, Sequences, SequencesExt

CONSTANTS
  Clients,    \* threads other than the loop's
  Loop,       \* the thread in run()
  Tasks,      \* tasks that can be posted, each at most once
  Timers,     \* timers that can be scheduled, each at most once
  Delays,     \* initial delays to schedule with
  Intervals,  \* intervals to schedule with; 0 makes a one-shot timer
  Fds,        \* fd numbers
  MaxOwner,   \* bound on the descriptions behind one fd number
  MaxTime     \* bound on the clock

ASSUME LoopAssumption == Loop \notin Clients
ASSUME BoundsAssumption ==
  Delays \subseteq Nat /\ Intervals \subseteq Nat /\ MaxTime \in Nat /\ MaxOwner \in Nat \ {0}

Threads == Clients \cup {Loop}
Never == MaxTime + 1   \* a deadline beyond the clock; saturatingAdd() ends here too
WakeEvent == "wake"

VARIABLES
  quitting, tasks,     \* quitting_, tasks_
  timers,              \* timers_: id -> deadline and interval
  callbacks,           \* callbacks_: fd -> the owner that watches it, 0 if none
  owner,               \* the description an fd number stands for now
  interest, armed,     \* the epoll set: the owner registered, 0 if none, and
                       \* whether its one-shot is still due
  wakeFd,              \* the eventfd is readable
  at, ready, due,      \* where run() is, its copies of tasks and due timers
  until, batch,        \* when epoll_wait() times out, events still to handle
  serving,             \* owner of the event and of the callback being run
  waking,              \* threads between a critical section and wake()
  now,                 \* the monotonic clock
  posted, ran, early,  \* tasks in the order of post(), those run, those posted
                       \* before quit()
  passed               \* when each timer was last taken as due, -1 if never

tableVars == <<callbacks, interest, armed>>
loopVars == <<at, ready, due, until, batch, serving>>
historyVars == <<posted, ran, early, passed>>
vars == <<quitting, tasks, timers, callbacks, owner, interest, armed, wakeFd, at,
          ready, due, until, batch, serving, waking, now, posted, ran, early, passed>>

Off == [deadline |-> Never, every |-> -1]   \* not in timers_

\* Mutant of After: the sum is not saturated.
AfterUnbounded(delay) == now + delay

After(delay) == IF now + delay > MaxTime THEN Never ELSE now + delay
Scheduled == {i \in Timers : timers[i] # Off}

Init ==
  /\ quitting = FALSE /\ tasks = <<>> /\ timers = [i \in Timers |-> Off]
  /\ callbacks = [f \in Fds |-> 0] /\ owner = [f \in Fds |-> 1]
  /\ interest = [f \in Fds |-> 0] /\ armed = [f \in Fds |-> FALSE]
  /\ wakeFd = FALSE
  /\ at = "top" /\ ready = <<>> /\ due = {} /\ until = 0 /\ batch = {}
  /\ serving = <<0, 0>> /\ waking = {} /\ now = 0
  /\ posted = <<>> /\ ran = <<>> /\ early = {} /\ passed = [i \in Timers |-> -1]

-----------------------------------------------------------------------------
(* The operations, called by thread t. *)

UserCode == {"inTask", "inTimer", "inCallback", "inLastTask"}

\* Calls after run() has returned are left out: nothing would act on them.
CanCall(t) == t \notin waking /\ at # "done" /\ (t = Loop => at \in UserCode)

\* Mutants of Post: the new task goes to the front; the loop is not woken.
PostFront(t, k) ==
  /\ CanCall(t) /\ k \notin ToSet(posted)
  /\ tasks' = <<k>> \o tasks /\ posted' = Append(posted, k)
  /\ early' = IF quitting THEN early ELSE early \cup {k}
  /\ waking' = waking \cup {t}
  /\ UNCHANGED <<quitting, timers, tableVars, owner, wakeFd, loopVars, now, ran, passed>>

PostNoWake(t, k) ==
  /\ CanCall(t) /\ k \notin ToSet(posted)
  /\ tasks' = Append(tasks, k) /\ posted' = Append(posted, k)
  /\ early' = IF quitting THEN early ELSE early \cup {k}
  /\ UNCHANGED waking
  /\ UNCHANGED <<quitting, timers, tableVars, owner, wakeFd, loopVars, now, ran, passed>>

Post(t, k) ==
  /\ CanCall(t) /\ k \notin ToSet(posted)
  /\ tasks' = Append(tasks, k) /\ posted' = Append(posted, k)
  /\ early' = IF quitting THEN early ELSE early \cup {k}
  /\ waking' = waking \cup {t}
  /\ UNCHANGED <<quitting, timers, tableVars, owner, wakeFd, loopVars, now, ran, passed>>

\* Mutant of ScheduleEvery: the loop is not woken for the new timer.
ScheduleNoWake(t, i, delay, every) ==
  /\ CanCall(t) /\ i \notin Scheduled /\ passed[i] = -1
  /\ timers' = [timers EXCEPT ![i] = [deadline |-> After(delay), every |-> every]]
  /\ UNCHANGED <<quitting, tasks, tableVars, owner, wakeFd, loopVars, waking, now, historyVars>>

ScheduleEvery(t, i, delay, every) ==
  /\ CanCall(t) /\ i \notin Scheduled /\ passed[i] = -1
  /\ timers' = [timers EXCEPT ![i] = [deadline |-> After(delay), every |-> every]]
  /\ waking' = waking \cup {t}
  /\ UNCHANGED <<quitting, tasks, tableVars, owner, wakeFd, loopVars, now, historyVars>>

Cancel(t, i) ==
  /\ CanCall(t) /\ i \in Scheduled
  /\ timers' = [timers EXCEPT ![i] = Off] /\ waking' = waking \cup {t}
  /\ UNCHANGED <<quitting, tasks, tableVars, owner, wakeFd, loopVars, now, historyVars>>

\* Mutant of Quit: the loop is not woken.
QuitNoWake(t) ==
  /\ CanCall(t) /\ ~quitting /\ quitting' = TRUE
  /\ UNCHANGED <<tasks, timers, tableVars, owner, wakeFd, loopVars, waking, now, historyVars>>

Quit(t) ==
  /\ CanCall(t) /\ ~quitting
  /\ quitting' = TRUE /\ waking' = waking \cup {t}
  /\ UNCHANGED <<tasks, timers, tableVars, owner, wakeFd, loopVars, now, historyVars>>

\* wake() writes the eventfd.
Wake(t) ==
  /\ t \in waking
  /\ waking' = waking \ {t} /\ wakeFd' = TRUE
  /\ UNCHANGED <<quitting, tasks, timers, tableVars, owner, loopVars, now, historyVars>>

(* watchFd(): EPOLL_CTL_ADD when the table does not know the fd, else MOD; *)
(* the kernel refuses an ADD of a registered fd and a MOD of another.      *)
WatchFd(t, f) ==
  /\ CanCall(t) /\ (callbacks[f] = 0) = (interest[f] = 0)
  /\ callbacks' = [callbacks EXCEPT ![f] = owner[f]]
  /\ interest' = [interest EXCEPT ![f] = owner[f]] /\ armed' = [armed EXCEPT ![f] = TRUE]
  /\ UNCHANGED <<quitting, tasks, timers, owner, wakeFd, loopVars, waking, now, historyVars>>

UnwatchFd(t, f) ==
  /\ CanCall(t)
  /\ callbacks' = [callbacks EXCEPT ![f] = 0]
  /\ interest' = [interest EXCEPT ![f] = 0] /\ armed' = [armed EXCEPT ![f] = FALSE]
  /\ UNCHANGED <<quitting, tasks, timers, owner, wakeFd, loopVars, waking, now, historyVars>>

\* The owner of an unwatched fd closes it and the number is given out again.
Reopen(t, f) ==
  /\ CanCall(t) /\ callbacks[f] = 0 /\ owner[f] < MaxOwner
  /\ owner' = [owner EXCEPT ![f] = @ + 1]
  /\ interest' = [interest EXCEPT ![f] = 0] /\ armed' = [armed EXCEPT ![f] = FALSE]
  /\ UNCHANGED <<quitting, tasks, timers, callbacks, wakeFd, loopVars, waking, now, historyVars>>

-----------------------------------------------------------------------------
(* run() *)

Move(label) == at' = label

\* Mutant of LoopTop: no runTasks() after the loop.
LoopTopNoLastRun ==
  /\ at = "top" /\ Move(IF quitting THEN "done" ELSE "swap")
  /\ UNCHANGED <<quitting, tasks, timers, tableVars, owner, wakeFd, ready, due,
                 until, batch, serving, waking, now, historyVars>>

LoopTop ==
  /\ at = "top" /\ Move(IF quitting THEN "lastSwap" ELSE "swap")
  /\ UNCHANGED <<quitting, tasks, timers, tableVars, owner, wakeFd, ready, due,
                 until, batch, serving, waking, now, historyVars>>

\* runTasks(), in the loop or once more after it: swap, then run outside mutex_.
SwapTasks ==
  /\ at \in {"swap", "lastSwap"}
  /\ ready' = tasks /\ tasks' = <<>>
  /\ Move(IF at = "swap" THEN "tasks" ELSE "lastTasks")
  /\ UNCHANGED <<quitting, timers, tableVars, owner, wakeFd, due, until, batch,
                 serving, waking, now, historyVars>>

RunTask ==
  /\ at \in {"tasks", "lastTasks"} /\ ready # <<>>
  /\ ran' = Append(ran, Head(ready)) /\ ready' = Tail(ready)
  /\ Move(IF at = "tasks" THEN "inTask" ELSE "inLastTask")
  /\ UNCHANGED <<quitting, tasks, timers, tableVars, owner, wakeFd, due, until,
                 batch, serving, waking, now, posted, early, passed>>

TasksDone ==
  /\ at \in {"tasks", "lastTasks"} /\ ready = <<>>
  /\ Move(IF at = "tasks" THEN "timers" ELSE "done")
  /\ UNCHANGED <<quitting, tasks, timers, tableVars, owner, wakeFd, ready, due,
                 until, batch, serving, waking, now, historyVars>>

\* Mutant of RunDueTimers: the next deadline is counted from the last one.
RunDueTimersCatchUp ==
  /\ at = "timers"
  /\ due' = {i \in Timers : timers[i].deadline <= now}
  /\ timers' = [i \in Timers |->
       IF i \notin due' THEN timers[i]
       ELSE IF timers[i].every = 0 THEN Off
       ELSE [timers[i] EXCEPT !.deadline = After(@ - now + timers[i].every)]]
  /\ passed' = [i \in Timers |-> IF i \in due' THEN now ELSE passed[i]]
  /\ Move("due")
  /\ UNCHANGED <<quitting, tasks, tableVars, owner, wakeFd, ready, until, batch,
                 serving, waking, now, posted, ran, early>>

(* runDueTimers() copies the due timers, erases the one-shots and sets the *)
(* others one interval from now.                                           *)
RunDueTimers ==
  /\ at = "timers"
  /\ due' = {i \in Timers : timers[i].deadline <= now}
  /\ timers' = [i \in Timers |->
       IF i \notin due' THEN timers[i]
       ELSE IF timers[i].every = 0 THEN Off
       ELSE [timers[i] EXCEPT !.deadline = After(timers[i].every)]]
  /\ passed' = [i \in Timers |-> IF i \in due' THEN now ELSE passed[i]]
  /\ Move("due")
  /\ UNCHANGED <<quitting, tasks, tableVars, owner, wakeFd, ready, until, batch,
                 serving, waking, now, posted, ran, early>>

RunTimer(i) ==
  /\ at = "due" /\ i \in due
  /\ due' = due \ {i} /\ Move("inTimer")
  /\ UNCHANGED <<quitting, tasks, timers, tableVars, owner, wakeFd, ready, until,
                 batch, serving, waking, now, historyVars>>

(* The second look at quitting_, and waitTimeoutMs(). *)
Prepare ==
  /\ at = "due" /\ due = {}
  /\ IF quitting THEN Move("lastSwap") /\ UNCHANGED until
     ELSE /\ Move("wait")
          /\ until' = IF tasks # <<>> THEN 0
                      ELSE CHOOSE d \in 0 .. Never :
                             /\ \A i \in Scheduled : d <= timers[i].deadline
                             /\ d = Never \/ \E i \in Scheduled : d = timers[i].deadline
  /\ UNCHANGED <<quitting, tasks, timers, tableVars, owner, wakeFd, ready, due,
                 batch, serving, waking, now, historyVars>>

\* epoll_wait() returns the wake event and some ready fds, disarming them, or
\* times out.
EpollWait ==
  /\ at = "wait"
  /\ \E S \in SUBSET {f \in Fds : armed[f]} :
       /\ S # {} \/ wakeFd \/ until <= now
       /\ batch' = {<<f, interest[f]>> : f \in S}
                     \cup (IF wakeFd THEN {<<WakeEvent, 0>>} ELSE {})
       /\ armed' = [f \in Fds |-> armed[f] /\ f \notin S]
  /\ Move("batch")
  /\ UNCHANGED <<quitting, tasks, timers, callbacks, owner, interest, wakeFd, ready,
                 due, until, serving, waking, now, historyVars>>

\* EINTR: back to the top of the loop.
EpollInterrupted ==
  /\ at = "wait" /\ Move("top")
  /\ UNCHANGED <<quitting, tasks, timers, tableVars, owner, wakeFd, ready, due,
                 until, batch, serving, waking, now, historyVars>>

DrainWake ==
  /\ at = "batch" /\ <<WakeEvent, 0>> \in batch
  /\ wakeFd' = FALSE /\ batch' = batch \ {<<WakeEvent, 0>>}
  /\ UNCHANGED <<quitting, tasks, timers, tableVars, owner, at, ready, due, until,
                 serving, waking, now, historyVars>>

\* Mutant of HandleFd: the fd stays in the epoll set.
HandleFdNoDel(f, g) ==
  /\ at = "batch" /\ <<f, g>> \in batch /\ f \in Fds
  /\ batch' = batch \ {<<f, g>>}
  /\ IF callbacks[f] = 0 THEN UNCHANGED <<tableVars, serving, at>>
     ELSE /\ serving' = <<g, callbacks[f]>> /\ Move("inCallback")
          /\ callbacks' = [callbacks EXCEPT ![f] = 0]
          /\ UNCHANGED <<interest, armed>>
  /\ UNCHANGED <<quitting, tasks, timers, owner, wakeFd, ready, due, until, waking,
                 now, historyVars>>

(* An fd event: the callback found under the number is taken out of the    *)
(* table and of the epoll set, then run; an event without one is ignored.  *)
HandleFd(f, g) ==
  /\ at = "batch" /\ <<f, g>> \in batch /\ f \in Fds
  /\ batch' = batch \ {<<f, g>>}
  /\ IF callbacks[f] = 0 THEN UNCHANGED <<tableVars, serving, at>>
     ELSE /\ serving' = <<g, callbacks[f]>> /\ Move("inCallback")
          /\ callbacks' = [callbacks EXCEPT ![f] = 0]
          /\ interest' = [interest EXCEPT ![f] = 0]
          /\ armed' = [armed EXCEPT ![f] = FALSE]
  /\ UNCHANGED <<quitting, tasks, timers, owner, wakeFd, ready, due, until, waking,
                 now, historyVars>>

BatchDone ==
  /\ at = "batch" /\ batch = {} /\ Move("top")
  /\ UNCHANGED <<quitting, tasks, timers, tableVars, owner, wakeFd, ready, due,
                 until, batch, serving, waking, now, historyVars>>

\* User code returns or throws: run() goes on.
UserReturns ==
  /\ at \in UserCode /\ Loop \notin waking
  /\ Move(CASE at = "inTask" -> "tasks" [] at = "inTimer" -> "due"
            [] at = "inCallback" -> "batch" [] at = "inLastTask" -> "lastTasks")
  /\ serving' = <<0, 0>>
  /\ UNCHANGED <<quitting, tasks, timers, tableVars, owner, wakeFd, ready, due,
                 until, batch, waking, now, historyVars>>

Tick ==
  /\ now < MaxTime /\ now' = now + 1
  /\ UNCHANGED <<quitting, tasks, timers, tableVars, owner, wakeFd, loopVars, waking, historyVars>>

-----------------------------------------------------------------------------
Run ==
  \/ LoopTop \/ SwapTasks \/ RunTask \/ TasksDone \/ RunDueTimers \/ Prepare
  \/ EpollWait \/ DrainWake \/ BatchDone \/ UserReturns
  \/ \E i \in Timers : RunTimer(i)
  \/ \E f \in Fds, g \in 1 .. MaxOwner : HandleFd(f, g)

Operation(t) ==
  \/ \E k \in Tasks : Post(t, k)
  \/ \E i \in Timers : Cancel(t, i)
  \/ \E i \in Timers, delay \in Delays, every \in Intervals : ScheduleEvery(t, i, delay, every)
  \/ \E f \in Fds : WatchFd(t, f) \/ UnwatchFd(t, f) \/ Reopen(t, f)
  \/ Quit(t)

Next ==
  \/ Run \/ EpollInterrupted \/ Tick
  \/ \E t \in Threads : Operation(t) \/ Wake(t)

Spec == Init /\ [][Next]_vars

\* The loop's thread and a thread inside an operation run on, user code
\* returns, time passes.  Nobody has to call an operation.
FairSpec ==
  /\ Spec /\ WF_vars(Run) /\ SF_vars(UserReturns) /\ WF_vars(Tick)
  /\ \A t \in Threads : WF_vars(Wake(t))

-----------------------------------------------------------------------------
(* Correctness. *)

Labels == UserCode \cup {"top", "swap", "tasks", "timers", "due", "wait", "batch",
                         "lastSwap", "lastTasks", "done"}

TypeOK ==
  /\ quitting \in BOOLEAN /\ wakeFd \in BOOLEAN /\ waking \subseteq Threads
  /\ tasks \in Seq(Tasks) /\ ready \in Seq(Tasks) /\ early \subseteq Tasks
  /\ posted \in Seq(Tasks) /\ ran \in Seq(Tasks)
  /\ timers \in [Timers -> [deadline : 0 .. Never, every : Intervals \cup {-1}]]
  /\ callbacks \in [Fds -> 0 .. MaxOwner] /\ interest \in [Fds -> 0 .. MaxOwner]
  /\ owner \in [Fds -> 1 .. MaxOwner] /\ armed \in [Fds -> BOOLEAN]
  /\ at \in Labels /\ due \subseteq Timers /\ until \in 0 .. Never
  /\ batch \subseteq (Fds \X (1 .. MaxOwner)) \cup {<<WakeEvent, 0>>}
  /\ serving \in (0 .. MaxOwner) \X (0 .. MaxOwner)
  /\ now \in 0 .. MaxTime /\ passed \in [Timers -> -1 .. MaxTime]

(* Tasks run in the order of post(), each at most once, and none is lost   *)
(* between the threads that post and the swaps of run().                   *)
TasksInOrder == posted = ran \o ready \o tasks

(* What was posted before quit() has run when run() returns. *)
EarlyTasksRun == at = "done" => early \subseteq ToSet(ran)

(* The callback table and the epoll set know the same fds, and the owner   *)
(* that registered: an ADD never meets EEXIST, nor a MOD ENOENT.           *)
TablesAgree ==
  \A f \in Fds :
    /\ callbacks[f] = interest[f]
    /\ armed[f] => interest[f] # 0
    /\ interest[f] \in {0, owner[f]}

(* A repeating timer never runs in bursts: however late the loop is, two   *)
(* passes that take it are an interval apart; a one-shot is taken once.    *)
NoBurst ==
  [][\A i \in Timers : at = "timers" /\ at' = "due" /\ i \in due' /\ passed[i] # -1 =>
       timers[i].every > 0 /\ now - passed[i] >= timers[i].every]_vars

TasksRun == \A k \in Tasks :
  k \in ToSet(posted) /\ ~quitting ~> k \in ToSet(ran)
TimersFire == \A i \in Timers :
  timers[i].deadline <= MaxTime ~>
    quitting \/ i \notin Scheduled \/ passed[i] # -1
QuitEnds == quitting ~> at = "done"

(* No wake-up is lost between an operation, wake() and epoll_wait(): a     *)
(* posted task runs, a timer whose time comes runs or is cancelled, and    *)
(* run() returns after quit().                                             *)
NoLostWakeUp == TasksRun /\ TimersFire /\ QuitEnds

-----------------------------------------------------------------------------
(* What comments say and the code does not do. *)

\* A closed fd number does not collide with the connection that reuses it: a
\* callback gets the events of the descriptor it watches.
OwnEventsOnly == serving[1] = serving[2]
=============================================================================
