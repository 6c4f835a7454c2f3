------------------------------ MODULE SinkFanout ------------------------------
(***************************************************************************)
(* SvcKit/subsystems/media: SinkFanout and the BoundedQueue of every sink  *)
(* (media_pipeline.cpp), driven by the threads that reach them through a   *)
(* MediaPipeline:                                                          *)
(*   - Clients: application threads calling addVideoSink, removeVideoSink, *)
(*     start and stop;                                                     *)
(*   - Pushers: the threads that dispatch packets, an encode worker or a   *)
(*     caller of pushVideoPacket;                                          *)
(*   - one worker per entry, named by the entry's id, which pops packets   *)
(*     and calls Sink::consume(); consume() may call the pipeline again.   *)
(*                                                                         *)
(* mutex is SinkFanout::mutex_.  Its short critical sections are single    *)
(* steps that need it free; add() on a running fanout and start() hold it  *)
(* across Sink::start(), and start() also across the joins of a rollback.  *)
(* lifecycle is the pipeline's lifecycleMutex_, held by start() and stop().*)
(* entries_ is a set: ids are drawn and pushed under one lock, so the      *)
(* vector is sorted by id and is walked here in that order.                *)
(***************************************************************************)
EXTENDS Integers, Sequences

CONSTANTS
  Clients,       \* application threads
  Pushers,       \* threads that dispatch packets
  MaxEntries,    \* bound on the sinks ever added
  MaxPackets,    \* bound on the packets ever dispatched
  Capacity,      \* MediaQueueConfig::capacity of every sink
  Policy,        \* MediaQueueConfig::policy of every sink
  ClientCalls,   \* what an application thread calls
  ConsumeCalls,  \* what a sink calls from inside consume()
  ExternalPush,  \* TRUE: pushVideoPacket; FALSE: an encode worker that
                 \* stop() joins before it stops the fanout
  NoThread

Ops == {"add", "remove", "start", "stop"}
Entries == 1 .. MaxEntries
Threads == Clients \cup Pushers \cup Entries

ASSUME BoundsAssumption ==
  MaxEntries \in Nat /\ MaxPackets \in Nat /\ Capacity \in Nat \ {0}

ASSUME CallsAssumption ==
  /\ ClientCalls \subseteq Ops /\ ConsumeCalls \subseteq Ops
  /\ ExternalPush \in BOOLEAN
  /\ Policy \in {"DropOldest", "DropNewest"}

ASSUME ThreadsAssumption ==
  /\ Clients \cap Pushers = {} /\ (Clients \cup Pushers) \cap Entries = {}
  /\ NoThread \notin Threads

VARIABLES
  mutex, lifecycle,               \* owners of mutex_ and lifecycleMutex_
  entries, nextId, running,       \* entries_, nextId_, running_
  accepting,                      \* the pipeline's accepting_
  queue, closed,                  \* BoundedQueue::values_ and closed_
  started, worker,                \* Entry::started and the state of Entry::worker
  sink, last,                     \* what each sink has seen: start/stop, last packet
  nextPacket,                     \* number of the next packet dispatched
  pc, op, cur, todo               \* where each thread is, in which call, at
                                  \* which entry, with which entries left

queueVars == <<queue, closed>>
entryVars == <<started, worker, sink>>
tableVars == <<entries, nextId, running>>
lockVars == <<mutex, lifecycle>>
vars == <<mutex, lifecycle, entries, nextId, running, accepting, queue, closed,
          started, worker, sink, last, nextPacket, pc, op, cur, todo>>

-----------------------------------------------------------------------------
\* Threads outside any call: a client or pusher is idle, a worker is in consume().
Home(t) == IF t \in Entries THEN "consume" ELSE "idle"

Calls(t) == IF t \in Clients THEN ClientCalls
            ELSE IF t \in Entries THEN ConsumeCalls ELSE {}

IsFirst(e, S) == e \in S /\ \A f \in S : e <= f
IsLast(e, S) == e \in S /\ \A f \in S : f <= e

Goto(t, label) == pc' = [pc EXCEPT ![t] = label]
Return(t) == Goto(t, Home(t)) /\ op' = [op EXCEPT ![t] = "none"]
Call(t, o, label) == Goto(t, label) /\ op' = [op EXCEPT ![t] = o]

Release(lock, t) == IF lock = t THEN NoThread ELSE lock

-----------------------------------------------------------------------------
(* BoundedQueue *)

Reset(e) == queue' = [queue EXCEPT ![e] = <<>>] /\ closed' = [closed EXCEPT ![e] = FALSE]

\* Mutant of Pushed: push() into a queue that was closed.
PushedWhenClosed(e, p) ==
  IF Len(queue[e]) < Capacity THEN Append(queue[e], p)
  ELSE IF Policy = "DropOldest" THEN Append(Tail(queue[e]), p)
  ELSE queue[e]

\* What push() leaves in the queue of e.
Pushed(e, p) ==
  IF closed[e] THEN queue[e]
  ELSE IF Len(queue[e]) < Capacity THEN Append(queue[e], p)
  ELSE IF Policy = "DropOldest" THEN Append(Tail(queue[e]), p)
  ELSE queue[e]

-----------------------------------------------------------------------------
Init ==
  /\ mutex = NoThread /\ lifecycle = NoThread
  /\ entries = {} /\ nextId = 1 /\ running = FALSE /\ accepting = FALSE
  /\ queue = [e \in Entries |-> <<>>] /\ closed = [e \in Entries |-> FALSE]
  /\ started = [e \in Entries |-> FALSE] /\ worker = [e \in Entries |-> "none"]
  /\ sink = [e \in Entries |-> "stopped"] /\ last = [e \in Entries |-> 0]
  /\ nextPacket = 1
  /\ pc = [t \in Threads |-> IF t \in Entries THEN "off" ELSE "idle"]
  /\ op = [t \in Threads |-> "none"]
  /\ cur = [t \in Threads |-> 0]
  /\ todo = [t \in Threads |-> {}]

(* A thread enters addVideoSink, removeVideoSink, start or stop. *)
NewCall(t, o) ==
  /\ pc[t] = Home(t)
  /\ Call(t, o, o)
  /\ UNCHANGED <<lockVars, tableVars, accepting, queueVars, entryVars, last,
                 nextPacket, cur, todo>>

(* add() on a stopped fanout only registers the entry. *)
AddStopped(t) ==
  /\ pc[t] = "add" /\ mutex = NoThread /\ ~running /\ nextId <= MaxEntries
  /\ entries' = entries \cup {nextId} /\ nextId' = nextId + 1
  /\ Return(t)
  /\ UNCHANGED <<lockVars, running, accepting, queueVars, entryVars, last,
                 nextPacket, cur, todo>>

\* Mutant of AddRunning: the entry is registered before its sink is up.
AddRunningEarly(t) ==
  /\ pc[t] = "add" /\ mutex = NoThread /\ running /\ nextId <= MaxEntries
  /\ entries' = entries \cup {nextId} /\ nextId' = nextId + 1 /\ mutex' = t
  /\ Reset(nextId) /\ cur' = [cur EXCEPT ![t] = nextId]
  /\ Goto(t, "sinkStart")
  /\ UNCHANGED <<lifecycle, running, accepting, entryVars, last, nextPacket, op, todo>>

(* add() on a running fanout starts the sink with mutex_ held. *)
AddRunning(t) ==
  /\ pc[t] = "add" /\ mutex = NoThread /\ running /\ nextId <= MaxEntries
  /\ nextId' = nextId + 1 /\ mutex' = t
  /\ Reset(nextId) /\ cur' = [cur EXCEPT ![t] = nextId]
  /\ Goto(t, "sinkStart")
  /\ UNCHANGED <<lifecycle, entries, running, accepting, entryVars, last,
                 nextPacket, op, todo>>

(* add() refuses its arguments (no sink, no capacity); also the bound on   *)
(* the entries.                                                            *)
AddRefused(t) ==
  /\ pc[t] = "add"
  /\ Return(t)
  /\ UNCHANGED <<lockVars, tableVars, accepting, queueVars, entryVars, last,
                 nextPacket, cur, todo>>

(* MediaPipeline::start() up to the fanout; -EALREADY while running. *)
Start(t) ==
  /\ pc[t] = "start" /\ lifecycle = NoThread /\ ~running
  /\ lifecycle' = t /\ accepting' = TRUE
  /\ Goto(t, "startFanout")
  /\ UNCHANGED <<mutex, tableVars, queueVars, entryVars, last, nextPacket, op,
                 cur, todo>>

StartRefused(t) ==
  /\ pc[t] = "start" /\ lifecycle = NoThread /\ running
  /\ Return(t)
  /\ UNCHANGED <<lockVars, tableVars, accepting, queueVars, entryVars, last,
                 nextPacket, cur, todo>>

(* SinkFanout::start() takes mutex_ and walks entries_. *)
StartFanout(t) ==
  /\ pc[t] = "startFanout" /\ mutex = NoThread
  /\ mutex' = t /\ todo' = [todo EXCEPT ![t] = entries]
  /\ Goto(t, "startNext")
  /\ UNCHANGED <<lifecycle, tableVars, accepting, queueVars, entryVars, last,
                 nextPacket, op, cur>>

\* startEntry() of the next entry begins with BoundedQueue::reset().
StartNext(t, e) ==
  /\ pc[t] = "startNext" /\ IsFirst(e, todo[t])
  /\ Reset(e)
  /\ cur' = [cur EXCEPT ![t] = e] /\ todo' = [todo EXCEPT ![t] = @ \ {e}]
  /\ Goto(t, "sinkStart")
  /\ UNCHANGED <<lockVars, tableVars, accepting, entryVars, last, nextPacket, op>>

(* Every sink is up. *)
StartDone(t) ==
  /\ pc[t] = "startNext" /\ todo[t] = {}
  /\ running' = TRUE /\ mutex' = NoThread /\ lifecycle' = NoThread
  /\ Return(t)
  /\ UNCHANGED <<entries, nextId, accepting, queueVars, entryVars, last,
                 nextPacket, cur, todo>>

(* Every sink is up but a later node of start() fails: failStart() runs    *)
(* teardown() with lifecycleMutex_ still held.                             *)
StartFailsLater(t) ==
  /\ pc[t] = "startNext" /\ todo[t] = {}
  /\ running' = TRUE /\ mutex' = NoThread /\ accepting' = FALSE
  /\ Call(t, "stop", "stopFanout")
  /\ UNCHANGED <<lifecycle, entries, nextId, queueVars, entryVars, last,
                 nextPacket, cur, todo>>

(* The end of startEntry(): Sink::start() succeeded and there is a worker. *)
Launch(e) ==
  /\ sink' = [sink EXCEPT ![e] = "started"]
  /\ started' = [started EXCEPT ![e] = TRUE]
  /\ worker' = [worker EXCEPT ![e] = "live"]

AddedSinkStarts(t) ==
  /\ pc[t] = "sinkStart" /\ op[t] = "add"
  /\ Launch(cur[t])
  /\ entries' = entries \cup {cur[t]} /\ mutex' = NoThread
  /\ pc' = [pc EXCEPT ![t] = Home(t), ![cur[t]] = "pop"]
  /\ op' = [op EXCEPT ![t] = "none"]
  /\ UNCHANGED <<lifecycle, nextId, running, accepting, queueVars, last,
                 nextPacket, cur, todo>>

SinkStarts(t) ==
  /\ pc[t] = "sinkStart" /\ op[t] = "start"
  /\ Launch(cur[t])
  /\ pc' = [pc EXCEPT ![t] = "startNext", ![cur[t]] = "pop"]
  /\ UNCHANGED <<lockVars, tableVars, accepting, queueVars, last, nextPacket,
                 op, cur, todo>>

(* startEntry() fails: Sink::start() refuses, or no thread can be created  *)
(* and the sink is stopped again.  add() drops the entry; start() stops    *)
(* the entries before it, in reverse order, with mutex_ held.              *)
AddedSinkFails(t) ==
  /\ pc[t] = "sinkStart" /\ op[t] = "add"
  /\ mutex' = NoThread
  /\ Return(t)
  /\ UNCHANGED <<lifecycle, tableVars, accepting, queueVars, entryVars, last,
                 nextPacket, cur, todo>>

\* Mutant of SinkFails: a failed start() leaves the entries before it running.
SinkFailsNoRollback(t) ==
  /\ pc[t] = "sinkStart" /\ op[t] = "start"
  /\ todo' = [todo EXCEPT ![t] = {}] /\ accepting' = FALSE
  /\ Goto(t, "stopNext")
  /\ UNCHANGED <<lockVars, tableVars, queueVars, entryVars, last, nextPacket, op, cur>>

SinkFails(t) ==
  /\ pc[t] = "sinkStart" /\ op[t] = "start"
  /\ todo' = [todo EXCEPT ![t] = entries \ (@ \cup {cur[t]})]
  /\ accepting' = FALSE
  /\ Goto(t, "stopNext")
  /\ UNCHANGED <<lockVars, tableVars, queueVars, entryVars, last, nextPacket,
                 op, cur>>

\* Mutant of Remove: a worker may remove its own entry.
RemoveAny(t, e) ==
  /\ pc[t] = "remove" /\ mutex = NoThread /\ e \in entries
  /\ entries' = entries \ {e} /\ todo' = [todo EXCEPT ![t] = {e}]
  /\ Goto(t, "stopNext")
  /\ UNCHANGED <<lockVars, nextId, running, accepting, queueVars, entryVars,
                 last, nextPacket, op, cur>>

(* remove(): the entry leaves the table under mutex_, then is stopped      *)
(* outside it.  A worker cannot remove its own entry (-EDEADLK), and an id *)
(* that is not registered is -ENOENT.                                      *)
Remove(t, e) ==
  /\ pc[t] = "remove" /\ mutex = NoThread /\ e \in entries \ {t}
  /\ entries' = entries \ {e} /\ todo' = [todo EXCEPT ![t] = {e}]
  /\ Goto(t, "stopNext")
  /\ UNCHANGED <<lockVars, nextId, running, accepting, queueVars, entryVars,
                 last, nextPacket, op, cur>>

RemoveRefused(t, e) ==
  /\ pc[t] = "remove" /\ mutex = NoThread /\ e \notin entries \ {t}
  /\ Return(t)
  /\ UNCHANGED <<lockVars, tableVars, accepting, queueVars, entryVars, last,
                 nextPacket, cur, todo>>

(* stop(): ownsCurrentThread() under mutex_; a worker whose entry is       *)
(* registered gets -EDEADLK, any other thread goes on.                     *)
Stop(t) ==
  /\ pc[t] = "stop" /\ mutex = NoThread /\ t \notin entries
  /\ Goto(t, "stopLock")
  /\ UNCHANGED <<lockVars, tableVars, accepting, queueVars, entryVars, last,
                 nextPacket, op, cur, todo>>

StopRefused(t) ==
  /\ pc[t] = "stop" /\ mutex = NoThread /\ t \in entries
  /\ Return(t)
  /\ UNCHANGED <<lockVars, tableVars, accepting, queueVars, entryVars, last,
                 nextPacket, cur, todo>>

\* Mutant of StopLock: stop() does not take lifecycleMutex_.
StopWithoutLock(t) ==
  /\ pc[t] = "stopLock" /\ accepting' = FALSE
  /\ Goto(t, "stopFanout")
  /\ UNCHANGED <<lockVars, tableVars, queueVars, entryVars, last, nextPacket, op,
                 cur, todo>>

(* stop() takes lifecycleMutex_ and teardown() stops accepting packets. *)
StopLock(t) ==
  /\ pc[t] = "stopLock" /\ lifecycle = NoThread
  /\ lifecycle' = t /\ accepting' = FALSE
  /\ Goto(t, "stopFanout")
  /\ UNCHANGED <<mutex, tableVars, queueVars, entryVars, last, nextPacket, op,
                 cur, todo>>

(* SinkFanout::stop() on a running fanout takes a snapshot of the entries; *)
(* with an encode worker, teardown() has joined it first.                  *)
StopFanout(t) ==
  /\ pc[t] = "stopFanout" /\ mutex = NoThread
  /\ ExternalPush \/ \A p \in Pushers : pc[p] = "idle"
  /\ running' = FALSE
  /\ todo' = [todo EXCEPT ![t] = IF running THEN entries ELSE {}]
  /\ Goto(t, "stopNext")
  /\ UNCHANGED <<lockVars, entries, nextId, accepting, queueVars, entryVars,
                 last, nextPacket, op, cur>>

(* stopEntry() on the next entry: started.exchange(false) lets one thread  *)
(* in, which closes the queue; any other goes on at once.                  *)
IsNext(t, e) ==
  IF op[t] = "start" THEN IsLast(e, todo[t]) ELSE IsFirst(e, todo[t])

\* Mutant of StopEntry: started is read but not exchanged.
StopEntryTwice(t, e) ==
  /\ pc[t] = "stopNext" /\ IsNext(t, e) /\ started[e]
  /\ closed' = [closed EXCEPT ![e] = TRUE]
  /\ cur' = [cur EXCEPT ![t] = e] /\ todo' = [todo EXCEPT ![t] = @ \ {e}]
  /\ Goto(t, "join")
  /\ UNCHANGED <<lockVars, tableVars, accepting, queue, entryVars, last,
                 nextPacket, op>>

\* Mutant of StopEntry: the queue is not closed.
StopEntryOpen(t, e) ==
  /\ pc[t] = "stopNext" /\ IsNext(t, e) /\ started[e]
  /\ started' = [started EXCEPT ![e] = FALSE]
  /\ cur' = [cur EXCEPT ![t] = e] /\ todo' = [todo EXCEPT ![t] = @ \ {e}]
  /\ Goto(t, "join")
  /\ UNCHANGED <<lockVars, tableVars, accepting, queueVars, worker, sink, last,
                 nextPacket, op>>

StopEntry(t, e) ==
  /\ pc[t] = "stopNext" /\ IsNext(t, e) /\ started[e]
  /\ started' = [started EXCEPT ![e] = FALSE]
  /\ closed' = [closed EXCEPT ![e] = TRUE]
  /\ cur' = [cur EXCEPT ![t] = e] /\ todo' = [todo EXCEPT ![t] = @ \ {e}]
  /\ Goto(t, "join")
  /\ UNCHANGED <<lockVars, tableVars, accepting, queue, worker, sink, last,
                 nextPacket, op>>

SkipEntry(t, e) ==
  /\ pc[t] = "stopNext" /\ IsNext(t, e) /\ ~started[e]
  /\ todo' = [todo EXCEPT ![t] = @ \ {e}]
  /\ UNCHANGED <<lockVars, tableVars, accepting, queueVars, entryVars, last,
                 nextPacket, pc, op, cur>>

\* Mutant of Join: the sink is stopped without waiting for its worker.
JoinNoWait(t) ==
  /\ pc[t] = "join"
  /\ Goto(t, "sinkStop")
  /\ UNCHANGED <<lockVars, tableVars, accepting, queueVars, entryVars, last,
                 nextPacket, op, cur, todo>>

(* stopEntry(): join the worker; a worker that would join itself returns   *)
(* -EDEADLK and leaves its thread joinable and its sink started.           *)
Join(t) ==
  /\ pc[t] = "join"
  /\ IF cur[t] = t
     THEN Goto(t, "stopNext") /\ UNCHANGED worker
     ELSE /\ worker[cur[t]] = "exited"
          /\ worker' = [worker EXCEPT ![cur[t]] = "none"]
          /\ Goto(t, "sinkStop")
  /\ UNCHANGED <<lockVars, tableVars, accepting, queueVars, started, sink,
                 last, nextPacket, op, cur, todo>>

SinkStop(t) ==
  /\ pc[t] = "sinkStop"
  /\ sink' = [sink EXCEPT ![cur[t]] = "stopped"]
  /\ Goto(t, "stopNext")
  /\ UNCHANGED <<lockVars, tableVars, accepting, queueVars, started, worker,
                 last, nextPacket, op, cur, todo>>

(* The call that was stopping entries returns and drops its locks. *)
StopDone(t) ==
  /\ pc[t] = "stopNext" /\ todo[t] = {}
  /\ mutex' = Release(mutex, t) /\ lifecycle' = Release(lifecycle, t)
  /\ Return(t)
  /\ UNCHANGED <<tableVars, accepting, queueVars, entryVars, last, nextPacket,
                 cur, todo>>

-----------------------------------------------------------------------------
(* A new packet enters dispatch(): from pushVideoPacket(), which looks at  *)
(* accepting_ only once, or from an encode worker, which exists while the  *)
(* fanout runs.                                                            *)
PushVideoPacket(t) ==
  /\ t \in Pushers /\ pc[t] = "idle" /\ nextPacket <= MaxPackets
  /\ IF ExternalPush THEN accepting ELSE running
  /\ cur' = [cur EXCEPT ![t] = nextPacket] /\ nextPacket' = nextPacket + 1
  /\ Goto(t, "dispatch")
  /\ UNCHANGED <<lockVars, tableVars, accepting, queueVars, entryVars, last,
                 op, todo>>

(* dispatch() copies entries_ under mutex_ and pushes outside it. *)
Dispatch(t) ==
  /\ pc[t] = "dispatch" /\ mutex = NoThread
  /\ todo' = [todo EXCEPT ![t] = IF running THEN entries ELSE {}]
  /\ Goto(t, "push")
  /\ UNCHANGED <<lockVars, tableVars, accepting, queueVars, entryVars, last,
                 nextPacket, op, cur>>

Push(t, e) ==
  /\ pc[t] = "push" /\ IsFirst(e, todo[t])
  /\ queue' = [queue EXCEPT ![e] = Pushed(e, cur[t])]
  /\ todo' = [todo EXCEPT ![t] = @ \ {e}]
  /\ UNCHANGED <<lockVars, tableVars, accepting, closed, entryVars, last,
                 nextPacket, pc, op, cur>>

DispatchDone(t) ==
  /\ pc[t] = "push" /\ todo[t] = {}
  /\ Goto(t, "idle")
  /\ UNCHANGED <<lockVars, tableVars, accepting, queueVars, entryVars, last,
                 nextPacket, op, cur, todo>>

-----------------------------------------------------------------------------
(* consumeLoop() of the worker of e. *)

Pop(e) ==
  /\ pc[e] = "pop" /\ queue[e] # <<>>
  /\ last' = [last EXCEPT ![e] = Head(queue[e])]
  /\ queue' = [queue EXCEPT ![e] = Tail(@)]
  /\ Goto(e, "consume")
  /\ UNCHANGED <<lockVars, tableVars, accepting, closed, entryVars, nextPacket,
                 op, cur, todo>>

\* Sink::consume() returns or throws: the loop goes on either way.
ConsumeDone(e) ==
  /\ pc[e] = "consume"
  /\ Goto(e, "pop")
  /\ UNCHANGED <<lockVars, tableVars, accepting, queueVars, entryVars, last,
                 nextPacket, op, cur, todo>>

\* Mutant of WorkerExit: a closed queue ends the worker at once.
WorkerExitUndrained(e) ==
  /\ pc[e] = "pop" /\ closed[e]
  /\ worker' = [worker EXCEPT ![e] = "exited"]
  /\ Goto(e, "off")
  /\ UNCHANGED <<lockVars, tableVars, accepting, queueVars, started, sink, last,
                 nextPacket, op, cur, todo>>

\* A closed and empty queue ends the worker.
WorkerExit(e) ==
  /\ pc[e] = "pop" /\ queue[e] = <<>> /\ closed[e]
  /\ worker' = [worker EXCEPT ![e] = "exited"]
  /\ Goto(e, "off")
  /\ UNCHANGED <<lockVars, tableVars, accepting, queueVars, started, sink, last,
                 nextPacket, op, cur, todo>>

-----------------------------------------------------------------------------
\* The steps of a thread inside a call, which it takes without being asked.
Step(t) ==
  \/ AddStopped(t) \/ AddRunning(t) \/ AddRefused(t)
  \/ AddedSinkStarts(t) \/ AddedSinkFails(t)
  \/ Start(t) \/ StartRefused(t) \/ StartFanout(t) \/ StartDone(t)
  \/ StartFailsLater(t) \/ SinkStarts(t) \/ SinkFails(t)
  \/ Stop(t) \/ StopRefused(t) \/ StopLock(t) \/ StopFanout(t)
  \/ Join(t) \/ SinkStop(t) \/ StopDone(t)
  \/ Dispatch(t) \/ DispatchDone(t)
  \/ \E e \in Entries :
       \/ StartNext(t, e) \/ Remove(t, e) \/ RemoveRefused(t, e)
       \/ StopEntry(t, e) \/ SkipEntry(t, e) \/ Push(t, e)

Work(e) == Pop(e) \/ ConsumeDone(e) \/ WorkerExit(e)

Next ==
  \/ \E t \in Threads :
       PushVideoPacket(t) \/ Step(t) \/ \E o \in Calls(t) : NewCall(t, o)
  \/ \E e \in Entries : Work(e)

Spec == Init /\ [][Next]_vars

\* Threads inside a call or a worker loop keep running, and a consume() ends
\* however many calls it makes; nobody is obliged to make a new call.
Fairness ==
  /\ \A t \in Threads : WF_vars(Step(t))
  /\ \A e \in Entries : WF_vars(Work(e)) /\ SF_vars(ConsumeDone(e))

FairSpec == Spec /\ Fairness

-----------------------------------------------------------------------------
(* Correctness. *)

Labels == {"idle", "off", "pop", "consume", "dispatch", "push", "add", "remove",
           "start", "stop", "startFanout", "startNext", "sinkStart", "stopLock",
           "stopFanout", "stopNext", "join", "sinkStop"}

TypeOK ==
  /\ mutex \in Threads \cup {NoThread} /\ lifecycle \in Threads \cup {NoThread}
  /\ entries \in SUBSET Entries /\ nextId \in 1 .. MaxEntries + 1
  /\ running \in BOOLEAN /\ accepting \in BOOLEAN
  /\ queue \in [Entries -> Seq(Nat)] /\ closed \in [Entries -> BOOLEAN]
  /\ started \in [Entries -> BOOLEAN]
  /\ worker \in [Entries -> {"none", "live", "exited"}]
  /\ sink \in [Entries -> {"stopped", "started"}]
  /\ last \in [Entries -> Nat] /\ nextPacket \in Nat
  /\ pc \in [Threads -> Labels] /\ op \in [Threads -> Ops \cup {"none"}]
  /\ cur \in [Threads -> Nat] /\ todo \in [Threads -> SUBSET Entries]

\* t is between the exchange of started and the return of Sink::stop() of e.
TearingDown(t, e) == pc[t] \in {"join", "sinkStop"} /\ cur[t] = e

\* Nothing runs for e: no worker, and its sink is stopped.
Quiet(e) == ~started[e] /\ worker[e] = "none" /\ sink[e] = "stopped"

(* consume() of a sink runs only after its start() and before its stop(),  *)
(* whatever start, stop, add and remove do meanwhile.                      *)
ConsumeInsideSession == \A e \in Entries : pc[e] # "off" => sink[e] = "started"

(* An entry is started only when its previous session has ended: no second *)
(* Sink::start(), and no assignment over a joinable std::thread.           *)
NoSecondWorker ==
  \A t \in Threads : pc[t] = "sinkStart" => Quiet(cur[t])

(* Sink::stop() is called with the worker joined, and every packet the     *)
(* queue accepted has been consumed or dropped by the policy.              *)
DrainedBeforeStop ==
  \A t \in Threads : pc[t] = "sinkStop" =>
    worker[cur[t]] = "none" /\ queue[cur[t]] = <<>> /\ sink[cur[t]] = "started"

(* A sink whose started flag was taken is being stopped by exactly one     *)
(* thread: remove(), stop() and a rollback that meet at one entry neither  *)
(* stop it twice nor leave it to each other.                               *)
OneTeardown ==
  \A e \in Entries :
    /\ ~Quiet(e) /\ ~started[e] => \E t \in Threads : TearingDown(t, e)
    /\ \A t, u \in Threads : TearingDown(t, e) /\ TearingDown(u, e) => t = u

(* While the fanout runs every registered sink has a worker, also one      *)
(* added meanwhile; once stop() or a failed start() has returned, no       *)
(* registered sink has one.                                                *)
RegisteredFollowsRunning ==
  /\ running => \A e \in entries : started[e] /\ worker[e] = "live"
  /\ ~running /\ lifecycle = NoThread => \A e \in entries : Quiet(e)

(* No thread reaches a join of itself in stopEntry(): the checks in        *)
(* remove() and ownsCurrentThread() are enough for that.                   *)
NoSelfJoin == \A t \in Threads : pc[t] = "join" => cur[t] # t

(* "After stop() returned, the capture, encode and sink threads have       *)
(* exited" (design document, stop sequence): none runs in a pipeline at    *)
(* rest, after stop() or the same teardown in a failed start().            *)
NoWorkerAfterStop ==
  ~running /\ lifecycle = NoThread => \A e \in Entries : worker[e] = "none"

(* Calls that joined or are to join workers return: the queues are closed, *)
(* the workers drain them and exit.                                        *)
TeardownReturns ==
  \A t \in Clients :
    /\ (pc[t] = "stopFanout" /\ op[t] = "stop") ~> pc[t] = "idle"
    /\ (pc[t] = "stopNext" /\ op[t] = "remove") ~> pc[t] = "idle"

(* What every sink sees of the fanout is the sink contract, when one encode *)
(* worker dispatches: an entry's queue holds what is pending for its sink.  *)
Contract == INSTANCE SinkContract WITH
  Sinks <- Entries, Packets <- 1 .. MaxPackets, Limit <- Capacity,
  session <- sink, pending <- queue, delivered <- last,
  busy <- [e \in Entries |-> pc[e] \notin {"off", "pop"}]

KeepsContract == Contract!Spec

-----------------------------------------------------------------------------
(* The inductive invariant behind these properties. *)

Stopping == {"stopNext", "join", "sinkStop"}

\* Which calls a thread can be in at each label.
ControlOf(t) ==
  /\ t \in Pushers => pc[t] \in {"idle", "dispatch", "push"}
  /\ t \in Clients => pc[t] \notin {"dispatch", "push", "off", "pop", "consume"}
  /\ t \in Entries => pc[t] \notin {"idle", "dispatch", "push"}
  /\ pc[t] \in {"start", "startFanout", "startNext"} => op[t] = "start"
  /\ pc[t] \in {"add", "remove"} => op[t] = pc[t]
  /\ pc[t] \in {"stop", "stopLock", "stopFanout"} => op[t] = "stop"
  /\ pc[t] = "sinkStart" => op[t] \in {"add", "start"}
  /\ pc[t] \in Stopping => op[t] \in {"start", "stop", "remove"}
  /\ pc[t] \in {"join", "sinkStop", "sinkStart"} => cur[t] \in Entries

Control == \A t \in Threads : ControlOf(t)

HoldsMutex(t) ==
  pc[t] \in {"startNext", "sinkStart"} \/ (pc[t] \in Stopping /\ op[t] = "start")

HoldsLifecycle(t) ==
  \/ op[t] = "start" /\ pc[t] \in {"startFanout", "startNext", "sinkStart"} \cup Stopping
  \/ op[t] = "stop" /\ pc[t] \in {"stopFanout"} \cup Stopping

Locks ==
  \A t \in Threads :
    /\ HoldsMutex(t) <=> mutex = t
    /\ HoldsLifecycle(t) <=> lifecycle = t

\* How the parts of an entry go together.
EntryState(e) ==
  /\ worker[e] = "live" <=> pc[e] # "off"
  /\ worker[e] = "exited" => closed[e] /\ queue[e] = <<>>
  /\ started[e] => ~closed[e] /\ worker[e] = "live" /\ sink[e] = "started"
  /\ started[e] \/ Quiet(e) \/ \E t \in Threads : TearingDown(t, e)
  /\ e >= nextId => e \notin entries /\ Quiet(e)

EntryStates == \A e \in Entries : EntryState(e)

\* Of an entry t is tearing down.
Teardown(t, e) ==
  /\ t # e /\ e < nextId
  /\ ~started[e] /\ closed[e] /\ sink[e] = "started"
  /\ pc[t] = "join" => worker[e] # "none"
  /\ pc[t] = "sinkStop" => worker[e] = "none" /\ queue[e] = <<>>
  /\ op[t] = "remove" => e \notin entries
  /\ \A u \in Threads : TearingDown(u, e) => t = u

Teardowns ==
  \A t \in Threads, e \in Entries : TearingDown(t, e) => Teardown(t, e)

\* Of an entry being added or started.
StartOf(t) ==
  pc[t] = "sinkStart" =>
    /\ Quiet(cur[t]) /\ ~closed[cur[t]] /\ cur[t] < nextId /\ cur[t] \notin todo[t]
    /\ op[t] = "add" =>
         running /\ cur[t] \notin entries /\ \A u \in Threads : cur[t] \notin todo[u]
    /\ op[t] = "start" => cur[t] \in entries

Starts == \A t \in Threads : StartOf(t)

\* What is left to do in a loop over entries.
LoopOf(t) ==
  /\ \A e \in todo[t] : e < nextId
  /\ pc[t] \in Stopping => t \notin todo[t]
  /\ pc[t] \in Stopping /\ op[t] = "remove" => todo[t] \cap entries = {}
  /\ op[t] = "start" /\ pc[t] \in {"startNext", "sinkStart"} =>
       todo[t] \subseteq entries

Loops == \A t \in Threads : LoopOf(t)

\* A thread that starts or stops the fanout is not a registered worker.
Outsiders ==
  \A t \in Threads : HoldsLifecycle(t) \/ pc[t] = "stopLock" => t \notin entries

\* Where start() or stop() is with the registered entries.
ProgressOf(t) ==
  /\ HoldsLifecycle(t) /\ pc[t] # "stopFanout" => ~running
  /\ HoldsLifecycle(t) /\ pc[t] \in {"startFanout", "stopFanout"} /\ ~running =>
       \A e \in entries : Quiet(e)
  /\ HoldsLifecycle(t) /\ pc[t] \in {"startNext", "sinkStart"} =>
       /\ \A e \in todo[t] : Quiet(e)
       /\ \A e \in entries \ todo[t] : started[e] \/ (pc[t] = "sinkStart" /\ e = cur[t])
  /\ HoldsLifecycle(t) /\ pc[t] \in Stopping =>
       \A e \in entries \ todo[t] : Quiet(e) \/ TearingDown(t, e)

Progress ==
  /\ \A t \in Threads : ProgressOf(t)
  /\ running => \A e \in entries : started[e]
  /\ lifecycle = NoThread /\ ~running => \A e \in entries : Quiet(e)

IInv ==
  /\ TypeOK /\ Control /\ Locks /\ EntryStates /\ Teardowns /\ Starts /\ Loops
  /\ Outsiders /\ Progress
=============================================================================
