---------------------------- MODULE EventLoopProofs ----------------------------
(***************************************************************************)
(* Proofs about EventLoop for any threads, tasks, timers and fds.          *)
(***************************************************************************)
EXTENDS EventLoop, SequenceTheorems, WellFoundedInduction, TLAPS

-----------------------------------------------------------------------------
(* The callback table and the epoll set. *)

TableTypes ==
  /\ callbacks \in [Fds -> Nat] /\ interest \in [Fds -> Nat]
  /\ owner \in [Fds -> Nat \ {0}] /\ armed \in [Fds -> BOOLEAN]

TableInv == TableTypes /\ TablesAgree

\* In the constructed loop both are empty.
LEMMA TableInit == Init => TableInv
  BY DEF Init, TableInv, TableTypes, TablesAgree

\* Every operation and every event keeps them in agreement.
LEMMA TableNext == TableInv /\ [Next]_vars => TableInv'
<1> SUFFICES ASSUME TableInv, [Next]_vars PROVE TableInv'
  OBVIOUS
<1> USE DEF TableInv, TableTypes, TablesAgree
<1>1. ASSUME NEW t \in Threads, NEW f \in Fds, WatchFd(t, f) PROVE TableInv'
  BY <1>1 DEF WatchFd
<1>2. ASSUME NEW t \in Threads, NEW f \in Fds, UnwatchFd(t, f) PROVE TableInv'
  BY <1>2 DEF UnwatchFd
<1>3. ASSUME NEW t \in Threads, NEW f \in Fds, Reopen(t, f) PROVE TableInv'
  BY <1>3 DEF Reopen
<1>4. ASSUME EpollWait PROVE TableInv'
  BY <1>4 DEF EpollWait
<1>5. ASSUME NEW f \in Fds, NEW g \in 1 .. MaxOwner, HandleFd(f, g) PROVE TableInv'
  <2>1. CASE callbacks[f] = 0
    BY <1>5, <2>1 DEF HandleFd, tableVars
  <2>2. CASE callbacks[f] # 0
    <3>1. /\ callbacks' = [callbacks EXCEPT ![f] = 0]
          /\ interest' = [interest EXCEPT ![f] = 0]
          /\ armed' = [armed EXCEPT ![f] = FALSE]
          /\ UNCHANGED owner
      BY <1>5, <2>2 DEF HandleFd
    <3> QED
      BY <3>1
  <2> QED
    BY <2>1, <2>2
<1>6. ASSUME UNCHANGED <<tableVars, owner>> PROVE TableInv'
  BY <1>6 DEF tableVars
<1>7. \/ UNCHANGED <<tableVars, owner>> \/ EpollWait
      \/ \E t \in Threads, f \in Fds : WatchFd(t, f) \/ UnwatchFd(t, f) \/ Reopen(t, f)
      \/ \E f \in Fds, g \in 1 .. MaxOwner : HandleFd(f, g)
  BY DEF Next, Run, Operation, vars, LoopTop, SwapTasks, RunTask, TasksDone,
         RunDueTimers, RunTimer, Prepare, EpollInterrupted, DrainWake, BatchDone,
         UserReturns, Tick, Post, ScheduleEvery, Cancel, Quit, Wake, tableVars
<1> QED
  BY <1>1, <1>2, <1>3, <1>4, <1>5, <1>6, <1>7

(* watchFd() never adds an fd that epoll knows nor modifies one that it    *)
(* does not, and what it watches is the description the number stands for. *)
THEOREM TablesAgreeHolds == Spec => []TablesAgree
<1>1. TableInv => TablesAgree
  BY DEF TableInv
<1> QED
  BY TableInit, TableNext, <1>1, PTL DEF Spec

-----------------------------------------------------------------------------
(* The queue of posted tasks. *)

LastPass == {"lastTasks", "inLastTask", "done"}

\* run() holds tasks only while it runs them, and is past its loop only after
\* quit(); then nothing posted before quit() is in the queue it left behind.
QueueInv ==
  /\ tasks \in Seq(Tasks) /\ ready \in Seq(Tasks) /\ ran \in Seq(Tasks)
  /\ posted \in Seq(Tasks)
  /\ TasksInOrder
  /\ ready # <<>> => at \in {"tasks", "inTask", "lastTasks", "inLastTask"}
  /\ at \in LastPass \cup {"lastSwap"} => quitting
  /\ early \subseteq ToSet(posted)
  /\ at \in LastPass => early \subseteq ToSet(ran \o ready)

\* The elements of a concatenation.
LEMMA ToSetConcat ==
  ASSUME NEW S, NEW s \in Seq(S), NEW u \in Seq(S)
  PROVE  ToSet(s \o u) = ToSet(s) \cup ToSet(u)
<1>1. DOMAIN s = 1 .. Len(s) /\ DOMAIN u = 1 .. Len(u)
      /\ DOMAIN (s \o u) = 1 .. Len(s) + Len(u) /\ Len(s) \in Nat /\ Len(u) \in Nat
  BY ConcatProperties, LenProperties
<1>2. \A i \in 1 .. Len(s) + Len(u) : (s \o u)[i] = IF i <= Len(s) THEN s[i] ELSE u[i - Len(s)]
  BY ConcatProperties
<1>3. ToSet(s \o u) \subseteq ToSet(s) \cup ToSet(u)
  BY <1>1, <1>2 DEF ToSet
<1>4. ToSet(s) \subseteq ToSet(s \o u)
  BY <1>1, <1>2 DEF ToSet
<1>5. ASSUME NEW i \in 1 .. Len(u) PROVE u[i] \in ToSet(s \o u)
  <2>1. Len(s) + i \in 1 .. Len(s) + Len(u) /\ (s \o u)[Len(s) + i] = u[i]
    BY <1>1, <1>2
  <2> QED
    BY <2>1, <1>1 DEF ToSet
<1> QED
  BY <1>1, <1>3, <1>4, <1>5 DEF ToSet

\* The constructed loop has no task.
LEMMA QueueInit == Init => QueueInv
<1> SUFFICES ASSUME Init PROVE QueueInv
  OBVIOUS
<1>1. <<>> \in Seq(Tasks) /\ <<>> \o <<>> \o <<>> = <<>>
  BY EmptySeq, ConcatEmptySeq
<1> QED
  BY <1>1 DEF Init, QueueInv, TasksInOrder, LastPass

\* post() appends to the queue and to the order of posting.
LEMMA QueuePost ==
  ASSUME QueueInv, NEW t \in Threads, NEW k \in Tasks, Post(t, k)
  PROVE  QueueInv'
<1> USE DEF QueueInv
<1>1. posted' = posted \o <<k>> /\ tasks' = tasks \o <<k>> /\ <<k>> \in Seq(Tasks)
  BY AppendIsConcat DEF Post
<1>2. UNCHANGED <<ran, ready, at, quitting>>
  BY DEF Post, loopVars
<1>3. ran \o ready \in Seq(Tasks) /\ (ran \o ready) \o tasks = posted
  BY ConcatProperties DEF TasksInOrder
<1>4. posted' = (ran \o ready) \o tasks'
  <2>1. posted' = ((ran \o ready) \o tasks) \o <<k>>
    BY <1>1, <1>3
  <2>2. ((ran \o ready) \o tasks) \o <<k>> = (ran \o ready) \o (tasks \o <<k>>)
    <3> HIDE DEF QueueInv
    <3>1. tasks \in Seq(Tasks)
      BY DEF QueueInv
    <3> DEFINE s == ran \o ready
    <3>2. s \in Seq(Tasks)
      BY <1>3
    <3> HIDE DEF s
    <3>3. (s \o tasks) \o <<k>> = s \o (tasks \o <<k>>)
      BY <1>1, <3>1, <3>2, ConcatAssociative
    <3> QED
      BY <3>3 DEF s
  <2> QED
    BY <1>1, <2>1, <2>2
<1>5. posted' \in Seq(Tasks) /\ tasks' \in Seq(Tasks)
  BY <1>1, ConcatProperties
<1>6. ToSet(posted') = ToSet(posted) \cup {k}
  <2>1. ToSet(<<k>>) = {k}
    BY DEF ToSet
  <2> HIDE DEF QueueInv
  <2>2. posted \in Seq(Tasks)
    BY DEF QueueInv
  <2>3. <<k>> \in Seq(Tasks)
    BY <1>1
  <2>4. ToSet(posted \o <<k>>) = ToSet(posted) \cup ToSet(<<k>>)
    BY ZenonT(30), <2>2, <2>3, ToSetConcat
  <2>5. posted' = posted \o <<k>>
    BY <1>1
  <2> QED
    BY <2>1, <2>4, <2>5
<1>7. early' \subseteq ToSet(posted') /\ (quitting => early' = early)
  BY <1>6 DEF Post
<1> QED
  BY <1>2, <1>4, <1>5, <1>7 DEF TasksInOrder, LastPass

\* The swap moves the queue over to run(), which had none left.
LEMMA QueueSwap ==
  ASSUME QueueInv, SwapTasks
  PROVE  QueueInv'
<1> USE DEF QueueInv
<1>1. ready = <<>> /\ ready' = tasks /\ tasks' = <<>> /\ UNCHANGED <<ran, posted, early, quitting>>
  BY DEF SwapTasks, historyVars
<1>2. posted = ran \o tasks /\ posted = (ran \o ready') \o tasks' /\ <<>> \in Seq(Tasks)
  BY <1>1, ConcatEmptySeq, ConcatProperties, EmptySeq DEF TasksInOrder
<1>3. at' \in {"tasks", "lastTasks"} /\ (at' = "lastTasks" => quitting)
  BY DEF SwapTasks, Move, LastPass
<1> QED
  BY <1>1, <1>2, <1>3 DEF TasksInOrder, LastPass

\* A task run moves from the front of run()'s copy to the end of what has run.
LEMMA QueueRun ==
  ASSUME QueueInv, RunTask
  PROVE  QueueInv'
<1> USE DEF QueueInv
<1>1. ready # <<>> /\ ran' = Append(ran, Head(ready)) /\ ready' = Tail(ready)
      /\ UNCHANGED <<tasks, posted, early, quitting>>
  BY DEF RunTask
<1>2. Head(ready) \in Tasks /\ Tail(ready) \in Seq(Tasks) /\ <<Head(ready)>> \in Seq(Tasks)
  BY <1>1, HeadTailProperties
<1>3. ready = <<Head(ready)>> \o Tail(ready)
  <2>1. Len(ready) \in Nat \ {0} /\ \A i \in 1 .. Len(Tail(ready)) : Tail(ready)[i] = ready[i + 1]
    BY <1>1, HeadTailProperties, EmptySeq
  <2>2. Len(<<Head(ready)>> \o Tail(ready)) = Len(ready)
    BY <1>1, <1>2, <2>1, ConcatProperties, HeadTailProperties
  <2>3. \A i \in 1 .. Len(ready) : (<<Head(ready)>> \o Tail(ready))[i] = ready[i]
    BY <1>1, <1>2, <2>1, ConcatProperties, HeadTailProperties
  <2> QED
    BY <1>2, <2>2, <2>3, SeqEqual, ConcatProperties
<1>4. ran' = ran \o <<Head(ready)>> /\ ran' \in Seq(Tasks)
  BY <1>1, <1>2, AppendIsConcat, AppendProperties
<1>5. ran' \o ready' = ran \o ready
  BY SMTT(30), <1>1, <1>2, <1>3, <1>4, ConcatAssociative
<1>6. at' \in {"inTask", "inLastTask"} /\ (at' = "inLastTask" => at = "lastTasks")
  BY DEF RunTask, Move
<1> QED
  BY <1>1, <1>2, <1>4, <1>5, <1>6 DEF TasksInOrder, LastPass

\* Nothing else touches the tasks; run() leaves its loop only after quit().
LEMMA QueueOther ==
  ASSUME QueueInv, UNCHANGED <<tasks, ready, ran, posted, early>>,
         quitting => quitting',
         ready # <<>> => at' \in {"tasks", "inTask", "lastTasks", "inLastTask"},
         at' \in LastPass \cup {"lastSwap"} => quitting',
         at' \in LastPass => at \in LastPass
  PROVE  QueueInv'
  BY DEF QueueInv, TasksInOrder

\* Every step keeps the queue.
LEMMA QueueNext == QueueInv /\ [Next]_vars => QueueInv'
<1> SUFFICES ASSUME QueueInv, [Next]_vars PROVE QueueInv'
  OBVIOUS
<1> USE DEF QueueInv, LastPass
<1>1. ASSUME NEW t \in Threads, NEW k \in Tasks, Post(t, k) PROVE QueueInv'
  BY <1>1, QueuePost
<1>2. ASSUME SwapTasks PROVE QueueInv'
  BY <1>2, QueueSwap
<1>3. ASSUME RunTask PROVE QueueInv'
  BY <1>3, QueueRun
<1>4. CASE LoopTop \/ TasksDone \/ Prepare
  BY <1>4, QueueOther DEF LoopTop, TasksDone, Prepare, Move, historyVars
<1>5. CASE RunDueTimers \/ \E i \in Timers : RunTimer(i)
  BY <1>5, QueueOther DEF RunDueTimers, RunTimer, Move, historyVars
<1>6. CASE \/ EpollWait \/ EpollInterrupted \/ DrainWake \/ BatchDone
           \/ \E f \in Fds, g \in 1 .. MaxOwner : HandleFd(f, g)
  BY <1>6, QueueOther
     DEF EpollWait, EpollInterrupted, DrainWake, BatchDone, HandleFd, Move, historyVars
<1>7. CASE UserReturns
  BY <1>7, QueueOther DEF UserReturns, UserCode, Move, historyVars
<1>8. ASSUME NEW t \in Threads,
             \/ \E i \in Timers : Cancel(t, i)
             \/ \E i \in Timers, delay \in Delays, every \in Intervals :
                  ScheduleEvery(t, i, delay, every)
             \/ \E f \in Fds : WatchFd(t, f) \/ UnwatchFd(t, f) \/ Reopen(t, f)
             \/ Quit(t) \/ Wake(t)
      PROVE  QueueInv'
  BY <1>8, QueueOther DEF Cancel, ScheduleEvery, WatchFd, UnwatchFd, Reopen, Quit, Wake,
                          loopVars, historyVars
<1>9. CASE Tick \/ UNCHANGED vars
  BY <1>9, QueueOther DEF Tick, vars, loopVars, historyVars
<1> QED
  BY <1>1, <1>2, <1>3, <1>4, <1>5, <1>6, <1>7, <1>8, <1>9 DEF Next, Run, Operation

\* QueueInv is an invariant.
THEOREM QueueInvariance == Spec => []QueueInv
  BY QueueInit, QueueNext, PTL DEF Spec

(* Tasks run in the order in which any number of threads posted them, each *)
(* at most once, and none is lost between post() and the swap.             *)
THEOREM TasksInOrderHolds == Spec => []TasksInOrder
<1>1. QueueInv => TasksInOrder
  BY DEF QueueInv
<1> QED
  BY QueueInvariance, <1>1, PTL

(* run() returns only when every task posted before quit() has run. *)
THEOREM EarlyTasksRunHolds == Spec => []EarlyTasksRun
<1>1. QueueInv => EarlyTasksRun
  <2> SUFFICES ASSUME QueueInv, at = "done" PROVE early \subseteq ToSet(ran)
    BY DEF EarlyTasksRun
  <2> QED
    BY ConcatEmptySeq DEF QueueInv, LastPass
<1> QED
  BY QueueInvariance, <1>1, PTL
-----------------------------------------------------------------------------
(* The timers, and the type invariant. *)

(* What a timer taken as due waits for next: only a repeating one waits    *)
(* again, one interval after the pass that took it.                        *)
TimerInv ==
  \A i \in Timers :
    /\ timers[i].every = -1 => timers[i] = Off
    /\ passed[i] # -1 /\ timers[i].deadline <= MaxTime =>
         timers[i].every > 0 /\ timers[i].deadline >= passed[i] + timers[i].every

\* A saturated sum is a deadline.
LEMMA AfterType ==
  ASSUME now \in 0 .. MaxTime, NEW d \in Nat
  PROVE  After(d) \in 0 .. Never /\ (After(d) <= MaxTime => After(d) = now + d)
  BY BoundsAssumption DEF After, Never

\* epoll_wait()'s time-out is a deadline.
LEMMA PrepareType ==
  ASSUME TypeOK, Prepare
  PROVE  until' \in 0 .. Never
<1> DEFINE D == {timers[i].deadline : i \in Scheduled} \cup {Never}
           Least(d) == /\ \A i \in Scheduled : d <= timers[i].deadline
                       /\ d = Never \/ \E i \in Scheduled : d = timers[i].deadline
<1>1. D \subseteq 0 .. Never /\ Never \in D /\ Never \in Nat
  BY SMTT(30), BoundsAssumption DEF TypeOK, Never, Scheduled
<1> DEFINE Less == {p \in Nat \X Nat : p[1] < p[2]}
<1>2. IsWellFoundedOn(Less, Nat)
  BY NatLessThanWellFounded DEF OpToRel
<1>3. PICK d \in D : \A e \in D : <<e, d>> \notin Less
  <2> HIDE DEF D, Less
  <2>1. D \subseteq Nat /\ D # {}
    BY <1>1
  <2> QED
    BY <2>1, <1>2, WFMin
<1>8. d \in Nat /\ \A e \in D : e \in Nat /\ d <= e
  <2>1. d \in Nat /\ \A e \in D : e \in Nat
    <3> HIDE DEF D
    <3> QED
      BY <1>1
  <2> SUFFICES ASSUME NEW e \in D PROVE d <= e
    BY <2>1
  <2>2. <<e, d>> \notin Less
    BY <1>3
  <2> HIDE DEF D
  <2> QED
    BY <2>1, <2>2
<1>4. d \in 0 .. Never /\ Least(d)
  <2>1. \A i \in Scheduled : timers[i].deadline \in D
    OBVIOUS
  <2>2. d = Never \/ \E i \in Scheduled : d = timers[i].deadline
    OBVIOUS
  <2> QED
    BY <2>1, <2>2, <1>1, <1>8
<1>5. (CHOOSE e \in 0 .. Never : Least(e)) \in 0 .. Never
  <2> HIDE DEF Least
  <2> QED
    BY <1>4
<1>6. until' = until \/ until' = 0 \/ until' = CHOOSE e \in 0 .. Never : Least(e)
  BY DEF Prepare
<1>7. until \in 0 .. Never /\ 0 \in 0 .. Never
  BY <1>1 DEF TypeOK
<1> HIDE DEF D, Least, Less
<1> QED
  BY <1>5, <1>6, <1>7

\* The constructed loop is well typed.
LEMMA TypeInit == Init => TypeOK
<1> SUFFICES ASSUME Init PROVE TypeOK
  OBVIOUS
<1> USE BoundsAssumption DEF Init
<1>1. Off \in [deadline : 0 .. Never, every : Intervals \cup {-1}]
  BY DEF Off, Never
<1>2. timers \in [Timers -> [deadline : 0 .. Never, every : Intervals \cup {-1}]]
  BY <1>1
<1>3. /\ callbacks \in [Fds -> 0 .. MaxOwner] /\ interest \in [Fds -> 0 .. MaxOwner]
      /\ owner \in [Fds -> 1 .. MaxOwner] /\ armed \in [Fds -> BOOLEAN]
      /\ serving \in (0 .. MaxOwner) \X (0 .. MaxOwner)
  OBVIOUS
<1>4. now \in 0 .. MaxTime /\ passed \in [Timers -> -1 .. MaxTime] /\ until \in 0 .. Never
  BY DEF Never
<1>5. tasks \in Seq(Tasks) /\ ready \in Seq(Tasks) /\ posted \in Seq(Tasks) /\ ran \in Seq(Tasks)
  BY EmptySeq
<1> QED
  BY <1>2, <1>3, <1>4, <1>5 DEF TypeOK, Labels

\* A new timer has not been taken yet.
LEMMA TypeSchedule ==
  ASSUME TypeOK, TimerInv, NEW t \in Threads, NEW j \in Timers, NEW d \in Delays, NEW e \in Intervals,
         ScheduleEvery(t, j, d, e)
  PROVE  TypeOK' /\ TimerInv'
<1>1. After(d) \in 0 .. Never
  BY AfterType, BoundsAssumption DEF TypeOK
<1>2. timers' = [timers EXCEPT ![j] = [deadline |-> After(d), every |-> e]]
      /\ waking' = waking \cup {t} /\ passed[j] = -1
      /\ UNCHANGED <<quitting, tasks, tableVars, owner, wakeFd, loopVars, now, historyVars>>
  BY DEF ScheduleEvery
<1> HIDE DEF After
<1>3. timers' \in [Timers -> [deadline : 0 .. Never, every : Intervals \cup {-1}]]
  BY <1>1, <1>2 DEF TypeOK
<1>4. TypeOK'
  BY <1>2, <1>3 DEF TypeOK, loopVars, tableVars, historyVars, Never
<1>5. TimerInv'
  BY SMTT(30), <1>2, BoundsAssumption DEF TypeOK, TimerInv, historyVars
<1> QED
  BY <1>4, <1>5

\* The operations keep the types.
LEMMA TypeOperation ==
  ASSUME TypeOK, TimerInv, NEW t \in Threads, Operation(t)
  PROVE  TypeOK' /\ TimerInv'
<1> USE DEF TypeOK, TimerInv, CanCall
<1>1. ASSUME NEW k \in Tasks, Post(t, k) PROVE TypeOK' /\ TimerInv'
  BY ZenonT(30), <1>1, AppendProperties DEF Post, Off, loopVars, tableVars, Labels, Never
<1>2. ASSUME NEW i \in Timers, Cancel(t, i) PROVE TypeOK' /\ TimerInv'
  BY SMTT(30), <1>2, BoundsAssumption DEF Cancel, loopVars, tableVars, historyVars, Off, Never
<1>3. ASSUME NEW i \in Timers, NEW d \in Delays, NEW every \in Intervals,
             ScheduleEvery(t, i, d, every)
      PROVE  TypeOK' /\ TimerInv'
  BY <1>3, TypeSchedule
<1>4. ASSUME NEW f \in Fds, WatchFd(t, f) PROVE TypeOK' /\ TimerInv'
  <2>1. /\ callbacks' = [callbacks EXCEPT ![f] = owner[f]]
        /\ interest' = [interest EXCEPT ![f] = owner[f]] /\ armed' = [armed EXCEPT ![f] = TRUE]
        /\ UNCHANGED <<quitting, tasks, timers, owner, wakeFd, loopVars, waking, now, historyVars>>
    BY <1>4 DEF WatchFd
  <2>2. owner[f] \in 0 .. MaxOwner
    BY BoundsAssumption
  <2>3. /\ callbacks' \in [Fds -> 0 .. MaxOwner] /\ interest' \in [Fds -> 0 .. MaxOwner]
        /\ armed' \in [Fds -> BOOLEAN]
    BY <2>1, <2>2
  <2> QED
    BY <2>1, <2>3 DEF loopVars, historyVars, Never
<1>5. ASSUME NEW f \in Fds, UnwatchFd(t, f) PROVE TypeOK' /\ TimerInv'
  <2>1. /\ callbacks' = [callbacks EXCEPT ![f] = 0]
        /\ interest' = [interest EXCEPT ![f] = 0] /\ armed' = [armed EXCEPT ![f] = FALSE]
        /\ UNCHANGED <<quitting, tasks, timers, owner, wakeFd, loopVars, waking, now, historyVars>>
    BY <1>5 DEF UnwatchFd
  <2>2. 0 \in 0 .. MaxOwner
    BY BoundsAssumption
  <2>3. /\ callbacks' \in [Fds -> 0 .. MaxOwner] /\ interest' \in [Fds -> 0 .. MaxOwner]
        /\ armed' \in [Fds -> BOOLEAN]
    BY <2>1, <2>2
  <2> QED
    BY <2>1, <2>3 DEF loopVars, historyVars, Never
<1>6. ASSUME NEW f \in Fds, Reopen(t, f) PROVE TypeOK' /\ TimerInv'
  <2>1. /\ callbacks' = callbacks /\ owner' = [owner EXCEPT ![f] = owner[f] + 1]
        /\ interest' = [interest EXCEPT ![f] = 0] /\ armed' = [armed EXCEPT ![f] = FALSE]
        /\ owner[f] < MaxOwner
    BY <1>6 DEF Reopen
  <2>2. /\ owner' \in [Fds -> 1 .. MaxOwner] /\ interest' \in [Fds -> 0 .. MaxOwner]
        /\ armed' \in [Fds -> BOOLEAN]
    BY SMTT(30), <2>1, BoundsAssumption
  <2>3. UNCHANGED <<quitting, tasks, timers, callbacks, wakeFd, loopVars, waking, now, historyVars>>
    BY <1>6 DEF Reopen
  <2> QED
    BY <2>2, <2>3 DEF loopVars, historyVars, Never
<1>7. ASSUME Quit(t) PROVE TypeOK' /\ TimerInv'
  BY <1>7 DEF Quit, loopVars, tableVars, historyVars, Never
<1> QED
  BY <1>1, <1>2, <1>3, <1>4, <1>5, <1>6, <1>7 DEF Operation

\* Another deadline leaves the interval as it is.
LEMMA Postpone ==
  ASSUME NEW A, NEW B, NEW r \in [deadline : A, every : B], NEW d \in A
  PROVE  /\ [r EXCEPT !.deadline = d] \in [deadline : A, every : B]
         /\ [r EXCEPT !.deadline = d].deadline = d
         /\ [r EXCEPT !.deadline = d].every = r.every
  OBVIOUS

\* A pass over the timers keeps the types.
LEMMA TypeTimers ==
  ASSUME TypeOK, TimerInv, RunDueTimers
  PROVE  TypeOK' /\ TimerInv'
<1>1. /\ due' \subseteq Timers /\ at' = "due" /\ now \in 0 .. MaxTime
      /\ UNCHANGED <<quitting, tasks, tableVars, owner, wakeFd, ready, until, batch,
                     serving, waking, now, posted, ran, early>>
  BY DEF RunDueTimers, Move, TypeOK
<1>2. ASSUME NEW i \in Timers
      PROVE  /\ timers'[i].every = -1 => timers'[i] = Off
             /\ passed'[i] # -1 /\ timers'[i].deadline <= MaxTime =>
                  timers'[i].every > 0 /\ timers'[i].deadline >= passed'[i] + timers'[i].every
             /\ timers'[i] \in [deadline : 0 .. Never, every : Intervals \cup {-1}]
             /\ passed'[i] \in -1 .. MaxTime
  <2>1. CASE i \notin due'
    BY <2>1 DEF RunDueTimers, TypeOK, TimerInv
  <2>2. CASE i \in due' /\ timers[i].every = 0
    <3>1. timers'[i] = Off /\ passed'[i] = now
      BY <2>2 DEF RunDueTimers
    <3> QED
      BY <3>1, <1>1, BoundsAssumption DEF Off, Never
  <2>3. CASE i \in due' /\ timers[i].every # 0
    <3>1. timers[i] \in [deadline : 0 .. Never, every : Intervals \cup {-1}]
          /\ timers[i].deadline <= now
      BY <2>3 DEF RunDueTimers, TypeOK
    <3>2. timers[i].every \in Intervals /\ timers[i].every > 0
      <4>1. Never \in Nat /\ ~(Never <= now)
        BY <1>1, BoundsAssumption DEF Never
      <4>2. timers[i].every # -1
        BY <3>1, <4>1 DEF TimerInv, Off
      <4>3. timers[i].every \in Intervals /\ timers[i].every # 0
        BY <4>2, <3>1, <2>3
      <4>4. timers[i].every \in Nat \ {0}
        BY <4>3, BoundsAssumption
      <4> QED
        BY <4>3, <4>4
    <3>3. /\ timers'[i] = [timers[i] EXCEPT !.deadline = After(timers[i].every)]
          /\ passed'[i] = now
      BY <2>3 DEF RunDueTimers
    <3>4. /\ After(timers[i].every) \in 0 .. Never
          /\ After(timers[i].every) <= MaxTime =>
               After(timers[i].every) = now + timers[i].every
      BY <3>2, <1>1, BoundsAssumption, AfterType
    <3> HIDE DEF After
    <3>5. /\ timers'[i].deadline = After(timers[i].every)
          /\ timers'[i].every = timers[i].every
          /\ timers'[i] \in [deadline : 0 .. Never, every : Intervals \cup {-1}]
      <4> DEFINE r == timers[i]
                 d == After(timers[i].every)
      <4>1. r \in [deadline : 0 .. Never, every : Intervals \cup {-1}]
        BY <3>1, Zenon
      <4>4. d \in 0 .. Never
        BY <3>4, Zenon
      <4>2. timers'[i] = [r EXCEPT !.deadline = d]
        BY <3>3
      <4>3. /\ [r EXCEPT !.deadline = d] \in [deadline : 0 .. Never, every : Intervals \cup {-1}]
            /\ [r EXCEPT !.deadline = d].deadline = d
            /\ [r EXCEPT !.deadline = d].every = r.every
        <5> HIDE DEF r, d
        <5> QED
          BY <4>1, <4>4, Postpone
      <4> QED
        BY <4>2, <4>3
    <3> QED
      BY <3>2, <3>3, <3>4, <3>5, <1>1, BoundsAssumption
  <2> QED
    BY <2>1, <2>2, <2>3
<1>3. timers' \in [Timers -> [deadline : 0 .. Never, every : Intervals \cup {-1}]]
      /\ passed' \in [Timers -> -1 .. MaxTime]
  BY <1>2 DEF RunDueTimers
<1> QED
  BY <1>1, <1>2, <1>3 DEF TypeOK, TimerInv, tableVars, Labels, Never

\* The other steps of run(), a wake-up and the clock keep the types.
LEMMA TypeRun ==
  ASSUME TypeOK, TablesAgree, Run, ~RunDueTimers
  PROVE  TypeOK' /\ UNCHANGED <<timers, passed, now>>
<1> USE DEF TypeOK, Labels, UserCode, Move, historyVars, tableVars, WakeEvent
<1>1. CASE LoopTop
  BY <1>1 DEF LoopTop, Never
<1>2. CASE SwapTasks
  BY <1>2, EmptySeq DEF SwapTasks, Never
<1>3. CASE RunTask
  BY <1>3, HeadTailProperties, AppendProperties DEF RunTask, Never
<1>4. CASE TasksDone
  BY <1>4 DEF TasksDone, Never
<1>5. CASE Prepare
  <2>1. until' \in 0 .. Never
    BY <1>5, PrepareType
  <2> QED
    BY <1>5, <2>1 DEF Prepare, Never
<1>6. CASE EpollWait
  <2>1. PICK S \in SUBSET {f \in Fds : armed[f]} :
          /\ batch' = {<<f, interest[f]>> : f \in S}
                        \cup (IF wakeFd THEN {<<WakeEvent, 0>>} ELSE {})
          /\ armed' = [f \in Fds |-> armed[f] /\ f \notin S]
    BY <1>6 DEF EpollWait
  <2>2. \A f \in S : f \in Fds /\ interest[f] \in 1 .. MaxOwner
    BY BoundsAssumption DEF TablesAgree
  <2>3. batch' \subseteq (Fds \X (1 .. MaxOwner)) \cup {<<WakeEvent, 0>>}
    BY <2>1, <2>2
  <2>4. armed' \in [Fds -> BOOLEAN]
    BY <2>1
  <2> QED
    BY <1>6, <2>3, <2>4 DEF EpollWait
<1>7. CASE DrainWake
  BY <1>7 DEF DrainWake, Never
<1>8. CASE BatchDone
  BY <1>8 DEF BatchDone, Never
<1>9. CASE UserReturns
  <2>1. at' \in {"tasks", "due", "batch", "lastTasks"}
    BY <1>9 DEF UserReturns
  <2> QED
    <3>1. serving' = <<0, 0>>
          /\ UNCHANGED <<quitting, tasks, timers, tableVars, owner, wakeFd, ready, due,
                         until, batch, waking, now, historyVars>>
      BY <1>9 DEF UserReturns
    <3>2. serving' \in (0 .. MaxOwner) \X (0 .. MaxOwner)
      BY <3>1, BoundsAssumption
    <3>3. at' \in Labels
      BY <2>1
    <3> QED
      BY <3>1, <3>2, <3>3
<1>10. ASSUME NEW i \in Timers, RunTimer(i) PROVE TypeOK' /\ UNCHANGED <<timers, passed, now>>
  BY <1>10 DEF RunTimer, Never
<1>11. ASSUME NEW f \in Fds, NEW g \in 1 .. MaxOwner, HandleFd(f, g)
       PROVE  TypeOK' /\ UNCHANGED <<timers, passed, now>>
  <2>1. CASE callbacks[f] = 0
    BY <1>11, <2>1, BoundsAssumption DEF HandleFd, Never
  <2>2. CASE callbacks[f] # 0
    <3>1. /\ serving' = <<g, callbacks[f]>> /\ at' = "inCallback" /\ batch' = batch \ {<<f, g>>}
          /\ callbacks' = [callbacks EXCEPT ![f] = 0]
          /\ interest' = [interest EXCEPT ![f] = 0]
          /\ armed' = [armed EXCEPT ![f] = FALSE]
          /\ UNCHANGED <<quitting, tasks, timers, owner, wakeFd, ready, due, until, waking,
                         now, historyVars>>
      BY <1>11, <2>2 DEF HandleFd
    <3>2. /\ callbacks' \in [Fds -> 0 .. MaxOwner] /\ interest' \in [Fds -> 0 .. MaxOwner]
          /\ armed' \in [Fds -> BOOLEAN] /\ serving' \in (0 .. MaxOwner) \X (0 .. MaxOwner)
      BY SMTT(30), <3>1, BoundsAssumption
    <3> QED
      BY <3>1, <3>2
  <2> QED
    BY <2>1, <2>2
<1> QED
  BY <1>1, <1>2, <1>3, <1>4, <1>5, <1>6, <1>7, <1>8, <1>9, <1>10, <1>11 DEF Run

LoopInv == TypeOK /\ TimerInv /\ TablesAgree

\* Every step keeps the types and the timers.
LEMMA LoopNext == LoopInv /\ [Next]_vars => LoopInv'
<1> SUFFICES ASSUME LoopInv, [Next]_vars PROVE LoopInv'
  OBVIOUS
<1>1. TypeOK /\ TimerInv /\ TablesAgree
  BY DEF LoopInv
<1>2. TablesAgree'
  <2>1. TableInv
    BY <1>1, BoundsAssumption DEF TypeOK, TableInv, TableTypes
  <2> QED
    BY <2>1, TableNext DEF TableInv
<1>3. ASSUME RunDueTimers PROVE TypeOK' /\ TimerInv'
  BY <1>1, <1>3, TypeTimers
<1>4. ASSUME Run, ~RunDueTimers PROVE TypeOK' /\ TimerInv'
  BY <1>1, <1>4, TypeRun DEF TimerInv
<1>5. ASSUME NEW t \in Threads, Operation(t) PROVE TypeOK' /\ TimerInv'
  BY <1>1, <1>5, TypeOperation
<1>6. ASSUME NEW t \in Threads, Wake(t) PROVE TypeOK' /\ TimerInv'
  BY <1>1, <1>6 DEF Wake, TypeOK, TimerInv, tableVars, loopVars, historyVars, Never
<1>7. ASSUME EpollInterrupted PROVE TypeOK' /\ TimerInv'
  BY <1>1, <1>7 DEF EpollInterrupted, TypeOK, TimerInv, Move, Labels, tableVars, historyVars, Never
<1>8. ASSUME Tick PROVE TypeOK' /\ TimerInv'
  BY <1>1, <1>8, BoundsAssumption
     DEF Tick, TypeOK, TimerInv, tableVars, loopVars, historyVars, Never
<1>9. ASSUME UNCHANGED vars PROVE TypeOK' /\ TimerInv'
  BY <1>1, <1>9 DEF vars, TypeOK, TimerInv, tableVars, loopVars, historyVars, Never
<1>10. TypeOK' /\ TimerInv'
  BY <1>3, <1>4, <1>5, <1>6, <1>7, <1>8, <1>9 DEF Next
<1> QED
  BY <1>2, <1>10 DEF LoopInv

\* The constructed loop has no timer.
LEMMA LoopInit == Init => LoopInv
  BY TypeInit, TableInit DEF Init, LoopInv, TimerInv, TableInv

(* Every variable keeps its type: no deadline overflows the clock.         *)
THEOREM TypeCorrect == Spec => []TypeOK
<1>1. LoopInv => TypeOK
  BY DEF LoopInv
<1> QED
  BY LoopInit, LoopNext, <1>1, PTL DEF Spec

(* A repeating timer is taken at most once per interval however late the   *)
(* loop is, and a one-shot timer once.                                     *)
THEOREM NoBurstHolds == Spec => NoBurst
<1> DEFINE Step == \A i \in Timers :
                     at = "timers" /\ at' = "due" /\ i \in due' /\ passed[i] # -1 =>
                       timers[i].every > 0 /\ now - passed[i] >= timers[i].every
<1>1. ASSUME LoopInv, RunDueTimers PROVE Step
  <2> SUFFICES ASSUME NEW i \in Timers, i \in due', passed[i] # -1
               PROVE  timers[i].every > 0 /\ now - passed[i] >= timers[i].every
    OBVIOUS
  <2>1. timers[i].deadline <= now /\ now \in 0 .. MaxTime
        /\ timers[i].deadline \in 0 .. Never /\ passed[i] \in -1 .. MaxTime
        /\ timers[i].every \in Intervals \cup {-1}
    BY <1>1 DEF RunDueTimers, LoopInv, TypeOK
  <2> QED
    <3>1. timers[i].every > 0 /\ timers[i].deadline >= passed[i] + timers[i].every
      BY <2>1, <1>1, BoundsAssumption DEF LoopInv, TimerInv
    <3>2. now \in Int /\ passed[i] \in Int
      BY <2>1, BoundsAssumption
    <3>3. timers[i].deadline \in Int
      BY <2>1, BoundsAssumption DEF Never
    <3>4. timers[i].every \in Int
      <4>1. timers[i].every \in Intervals
        <5>1. timers[i].every # -1
          BY <3>1
        <5> QED
          BY <2>1, <5>1
      <4>2. Intervals \subseteq Int
        BY BoundsAssumption
      <4> QED
        BY <4>1, <4>2
    <3> QED
      BY <3>1, <3>2, <3>3, <3>4, <2>1
<1>2. ASSUME LoopInv, [Next]_vars PROVE [Step]_vars
  <2>1. CASE RunDueTimers
    BY <2>1, <1>1, <1>2
  <2>2. CASE UNCHANGED vars
    BY <2>2
  <2>3. CASE at # "timers" \/ at' # "due"
    BY <2>3
  <2>4. RunDueTimers \/ UNCHANGED vars \/ at # "timers" \/ at' # "due"
    BY ZenonT(30), <1>2 DEF Next, Run, Operation, LoopTop, SwapTasks, RunTask, TasksDone,
         RunTimer, Prepare, EpollInterrupted, DrainWake, BatchDone, UserReturns, Tick,
         Post, ScheduleEvery, Cancel, Quit, Wake, WatchFd, UnwatchFd, Reopen, EpollWait,
         HandleFd, Move, UserCode, loopVars
  <2> QED
    BY <2>1, <2>2, <2>3, <2>4
<1> QED
  BY LoopInit, LoopNext, <1>2, PTL DEF Spec, NoBurst
=============================================================================
