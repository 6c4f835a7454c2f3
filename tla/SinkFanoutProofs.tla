--------------------------- MODULE SinkFanoutProofs ---------------------------
(***************************************************************************)
(* Proofs about SinkFanout for any number of application threads, pushers, *)
(* entries and packets, any capacity and policy, and any calls out of      *)
(* consume().                                                              *)
(***************************************************************************)
EXTENDS SinkFanout, TLAPS

\* Entries are numbers and threads; the sorts of threads are apart.
LEMMA Sorts ==
  /\ Entries \subseteq Threads /\ Entries \subseteq Nat \ {0}
  /\ \A n \in 1 .. MaxEntries + 1 : n <= MaxEntries => n \in Entries
  /\ NoThread \notin Threads
  /\ Threads = Clients \cup Pushers \cup Entries
  /\ Clients \cap Pushers = {} /\ Clients \cap Entries = {} /\ Pushers \cap Entries = {}
  /\ ClientCalls \subseteq Ops /\ ConsumeCalls \subseteq Ops
  BY BoundsAssumption, ThreadsAssumption, CallsAssumption DEF Entries, Threads

\* A call is one of the operations, and pushers make none.
LEMMA CallsAreOps ==
  ASSUME NEW t \in Threads, NEW o \in Calls(t)
  PROVE  o \in Ops /\ t \notin Pushers
  BY Sorts DEF Calls

\* The constructed fanout is well typed.
LEMMA TypeInit == Init => TypeOK
<1> SUFFICES ASSUME Init PROVE TypeOK
  OBVIOUS
<1> USE Sorts DEF Init
<1>1. queue \in [Entries -> Seq(Nat)]
  OBVIOUS
<1>2. pc \in [Threads -> Labels]
  BY DEF Labels
<1>3. nextId \in 1 .. MaxEntries + 1 /\ nextPacket \in Nat
  BY BoundsAssumption
<1>4. /\ closed \in [Entries -> BOOLEAN] /\ started \in [Entries -> BOOLEAN]
      /\ worker \in [Entries -> {"none", "live", "exited"}]
      /\ sink \in [Entries -> {"stopped", "started"}] /\ last \in [Entries -> Nat]
  OBVIOUS
<1>5. /\ op \in [Threads -> Ops \cup {"none"}]
      /\ cur \in [Threads -> Nat] /\ todo \in [Threads -> SUBSET Entries]
  OBVIOUS
<1> QED
  BY <1>1, <1>2, <1>3, <1>4, <1>5 DEF TypeOK

\* NewCall keeps the types.
LEMMA NewCallType ==
  ASSUME TypeOK, Control, NEW t \in Threads, NEW o \in Calls(t), NewCall(t, o) PROVE TypeOK'
  BY Sorts, CallsAreOps, BoundsAssumption DEF TypeOK, Labels, Ops, Goto, Return, Call, Home, lockVars, tableVars, queueVars, entryVars, NewCall, Calls

\* PushVideoPacket keeps the types.
LEMMA PushVideoPacketType ==
  ASSUME TypeOK, Control, NEW t \in Threads, PushVideoPacket(t) PROVE TypeOK'
  BY SMTT(30), Sorts, CallsAreOps, BoundsAssumption DEF TypeOK, Labels, Ops, Goto, Return, Call, Home, lockVars, tableVars, queueVars, entryVars, PushVideoPacket

\* AddStopped keeps the types.
LEMMA AddStoppedType ==
  ASSUME TypeOK, Control, NEW t \in Threads, AddStopped(t) PROVE TypeOK'
  BY Sorts, CallsAreOps, BoundsAssumption DEF TypeOK, Labels, Ops, Goto, Return, Call, Home, lockVars, tableVars, queueVars, entryVars, AddStopped

\* AddRunning keeps the types.
LEMMA AddRunningType ==
  ASSUME TypeOK, Control, NEW t \in Threads, AddRunning(t) PROVE TypeOK'
  BY SMTT(30), Sorts, CallsAreOps, BoundsAssumption DEF TypeOK, Labels, Ops, Goto, Return, Call, Home, lockVars, tableVars, queueVars, entryVars, AddRunning, Reset

\* AddRefused keeps the types.
LEMMA AddRefusedType ==
  ASSUME TypeOK, Control, NEW t \in Threads, AddRefused(t) PROVE TypeOK'
  BY Sorts, CallsAreOps, BoundsAssumption DEF TypeOK, Labels, Ops, Goto, Return, Call, Home, lockVars, tableVars, queueVars, entryVars, AddRefused

\* AddedSinkStarts keeps the types.
LEMMA AddedSinkStartsType ==
  ASSUME TypeOK, Control, NEW t \in Threads, AddedSinkStarts(t) PROVE TypeOK'
<1> USE Sorts DEF TypeOK, AddedSinkStarts, Launch
<1>1. cur[t] \in Entries
  BY DEF Control, ControlOf
<1>2. /\ sink' \in [Entries -> {"stopped", "started"}]
      /\ started' \in [Entries -> BOOLEAN]
      /\ worker' \in [Entries -> {"none", "live", "exited"}]
  OBVIOUS
<1>3. pc' \in [Threads -> Labels] /\ op' \in [Threads -> Ops \cup {"none"}]
  BY DEF Home, Labels
<1>4. entries' \in SUBSET Entries /\ mutex' \in Threads \cup {NoThread}
  BY <1>1
<1> QED
  BY <1>2, <1>3, <1>4 DEF lockVars, queueVars

\* AddedSinkFails keeps the types.
LEMMA AddedSinkFailsType ==
  ASSUME TypeOK, Control, NEW t \in Threads, AddedSinkFails(t) PROVE TypeOK'
  BY Sorts, CallsAreOps, BoundsAssumption DEF TypeOK, Labels, Ops, Goto, Return, Call, Home, lockVars, tableVars, queueVars, entryVars, AddedSinkFails

\* Start keeps the types.
LEMMA StartType ==
  ASSUME TypeOK, Control, NEW t \in Threads, Start(t) PROVE TypeOK'
  BY Sorts, CallsAreOps, BoundsAssumption DEF TypeOK, Labels, Ops, Goto, Return, Call, Home, lockVars, tableVars, queueVars, entryVars, Start

\* StartRefused keeps the types.
LEMMA StartRefusedType ==
  ASSUME TypeOK, Control, NEW t \in Threads, StartRefused(t) PROVE TypeOK'
  BY Sorts, CallsAreOps, BoundsAssumption DEF TypeOK, Labels, Ops, Goto, Return, Call, Home, lockVars, tableVars, queueVars, entryVars, StartRefused

\* StartFanout keeps the types.
LEMMA StartFanoutType ==
  ASSUME TypeOK, Control, NEW t \in Threads, StartFanout(t) PROVE TypeOK'
  BY Sorts, CallsAreOps, BoundsAssumption DEF TypeOK, Labels, Ops, Goto, Return, Call, Home, lockVars, tableVars, queueVars, entryVars, StartFanout

\* StartNext keeps the types.
LEMMA StartNextType ==
  ASSUME TypeOK, Control, NEW t \in Threads, NEW e \in Entries, StartNext(t, e) PROVE TypeOK'
<1> USE Sorts DEF TypeOK, StartNext
<1>1. queue' \in [Entries -> Seq(Nat)] /\ closed' \in [Entries -> BOOLEAN]
  BY DEF Reset
<1>2. cur' \in [Threads -> Nat] /\ todo' \in [Threads -> SUBSET Entries]
  OBVIOUS
<1>3. pc' \in [Threads -> Labels]
  BY DEF Goto, Labels
<1> QED
  BY <1>1, <1>2, <1>3 DEF lockVars, tableVars, entryVars

\* StartDone keeps the types.
LEMMA StartDoneType ==
  ASSUME TypeOK, Control, NEW t \in Threads, StartDone(t) PROVE TypeOK'
  BY Sorts, CallsAreOps, BoundsAssumption DEF TypeOK, Labels, Ops, Goto, Return, Call, Home, lockVars, tableVars, queueVars, entryVars, StartDone

\* StartFailsLater keeps the types.
LEMMA StartFailsLaterType ==
  ASSUME TypeOK, Control, NEW t \in Threads, StartFailsLater(t) PROVE TypeOK'
  BY Sorts, CallsAreOps, BoundsAssumption DEF TypeOK, Labels, Ops, Goto, Return, Call, Home, lockVars, tableVars, queueVars, entryVars, StartFailsLater

\* SinkStarts keeps the types.
LEMMA SinkStartsType ==
  ASSUME TypeOK, Control, NEW t \in Threads, SinkStarts(t) PROVE TypeOK'
  BY Sorts, CallsAreOps, BoundsAssumption DEF TypeOK, Labels, Ops, Goto, Return, Call, Home, lockVars, tableVars, queueVars, entryVars, SinkStarts, Launch

\* SinkFails keeps the types.
LEMMA SinkFailsType ==
  ASSUME TypeOK, Control, NEW t \in Threads, SinkFails(t) PROVE TypeOK'
  BY Sorts, CallsAreOps, BoundsAssumption DEF TypeOK, Labels, Ops, Goto, Return, Call, Home, lockVars, tableVars, queueVars, entryVars, SinkFails

\* Remove keeps the types.
LEMMA RemoveType ==
  ASSUME TypeOK, Control, NEW t \in Threads, NEW e \in Entries, Remove(t, e) PROVE TypeOK'
  BY SMTT(30), Sorts, CallsAreOps, BoundsAssumption DEF TypeOK, Labels, Ops, Goto, Return, Call, Home, lockVars, tableVars, queueVars, entryVars, Remove

\* RemoveRefused keeps the types.
LEMMA RemoveRefusedType ==
  ASSUME TypeOK, Control, NEW t \in Threads, NEW e \in Entries, RemoveRefused(t, e) PROVE TypeOK'
  BY Sorts, CallsAreOps, BoundsAssumption DEF TypeOK, Labels, Ops, Goto, Return, Call, Home, lockVars, tableVars, queueVars, entryVars, RemoveRefused

\* Stop keeps the types.
LEMMA StopType ==
  ASSUME TypeOK, Control, NEW t \in Threads, Stop(t) PROVE TypeOK'
  BY Sorts, CallsAreOps, BoundsAssumption DEF TypeOK, Labels, Ops, Goto, Return, Call, Home, lockVars, tableVars, queueVars, entryVars, Stop

\* StopRefused keeps the types.
LEMMA StopRefusedType ==
  ASSUME TypeOK, Control, NEW t \in Threads, StopRefused(t) PROVE TypeOK'
  BY Sorts, CallsAreOps, BoundsAssumption DEF TypeOK, Labels, Ops, Goto, Return, Call, Home, lockVars, tableVars, queueVars, entryVars, StopRefused

\* StopLock keeps the types.
LEMMA StopLockType ==
  ASSUME TypeOK, Control, NEW t \in Threads, StopLock(t) PROVE TypeOK'
  BY Sorts, CallsAreOps, BoundsAssumption DEF TypeOK, Labels, Ops, Goto, Return, Call, Home, lockVars, tableVars, queueVars, entryVars, StopLock

\* StopFanout keeps the types.
LEMMA StopFanoutType ==
  ASSUME TypeOK, Control, NEW t \in Threads, StopFanout(t) PROVE TypeOK'
  BY Sorts, CallsAreOps, BoundsAssumption DEF TypeOK, Labels, Ops, Goto, Return, Call, Home, lockVars, tableVars, queueVars, entryVars, StopFanout

\* StopEntry keeps the types.
LEMMA StopEntryType ==
  ASSUME TypeOK, Control, NEW t \in Threads, NEW e \in Entries, StopEntry(t, e) PROVE TypeOK'
  BY Sorts, CallsAreOps, BoundsAssumption DEF TypeOK, Labels, Ops, Goto, Return, Call, Home, lockVars, tableVars, queueVars, entryVars, StopEntry, IsNext, IsFirst, IsLast

\* SkipEntry keeps the types.
LEMMA SkipEntryType ==
  ASSUME TypeOK, Control, NEW t \in Threads, NEW e \in Entries, SkipEntry(t, e) PROVE TypeOK'
  BY Sorts, CallsAreOps, BoundsAssumption DEF TypeOK, Labels, Ops, Goto, Return, Call, Home, lockVars, tableVars, queueVars, entryVars, SkipEntry, IsNext, IsFirst, IsLast

\* Join keeps the types.
LEMMA JoinType ==
  ASSUME TypeOK, Control, NEW t \in Threads, Join(t) PROVE TypeOK'
<1>1. worker' = worker \/ worker' = [worker EXCEPT ![cur[t]] = "none"]
  BY DEF Join
<1>2. worker' \in [Entries -> {"none", "live", "exited"}]
  BY <1>1 DEF TypeOK
<1>3. \E l \in {"stopNext", "sinkStop"} : pc' = [pc EXCEPT ![t] = l]
  BY DEF Join, Goto
<1>4. pc' \in [Threads -> Labels]
  BY <1>3 DEF TypeOK, Labels
<1>5. UNCHANGED <<mutex, lifecycle, entries, nextId, running, accepting, queue, closed,
                  started, sink, last, nextPacket, op, cur, todo>>
  BY DEF Join, lockVars, tableVars, queueVars
<1> QED
  BY <1>2, <1>4, <1>5 DEF TypeOK

\* SinkStop keeps the types.
LEMMA SinkStopType ==
  ASSUME TypeOK, Control, NEW t \in Threads, SinkStop(t) PROVE TypeOK'
  BY Sorts, CallsAreOps, BoundsAssumption DEF TypeOK, Labels, Ops, Goto, Return, Call, Home, lockVars, tableVars, queueVars, entryVars, SinkStop

\* StopDone keeps the types.
LEMMA StopDoneType ==
  ASSUME TypeOK, Control, NEW t \in Threads, StopDone(t) PROVE TypeOK'
  BY Sorts, CallsAreOps, BoundsAssumption DEF TypeOK, Labels, Ops, Goto, Return, Call, Home, lockVars, tableVars, queueVars, entryVars, StopDone, Release

\* Dispatch keeps the types.
LEMMA DispatchType ==
  ASSUME TypeOK, Control, NEW t \in Threads, Dispatch(t) PROVE TypeOK'
  BY Sorts, CallsAreOps, BoundsAssumption DEF TypeOK, Labels, Ops, Goto, Return, Call, Home, lockVars, tableVars, queueVars, entryVars, Dispatch

\* Push keeps the types.
LEMMA PushType ==
  ASSUME TypeOK, Control, NEW t \in Threads, NEW e \in Entries, Push(t, e) PROVE TypeOK'
<1> USE Sorts DEF TypeOK, Push
<1>1. Pushed(e, cur[t]) \in Seq(Nat)
  <2>1. queue[e] \in Seq(Nat) /\ cur[t] \in Nat
    OBVIOUS
  <2>2. Append(queue[e], cur[t]) \in Seq(Nat)
    BY <2>1
  <2>3. CASE queue[e] = <<>>
    BY <2>1, <2>2, <2>3, BoundsAssumption DEF Pushed
  <2>4. CASE queue[e] # <<>>
    BY <2>1, <2>2, <2>4 DEF Pushed
  <2> QED
    BY <2>3, <2>4
<1>2. queue' \in [Entries -> Seq(Nat)] /\ todo' \in [Threads -> SUBSET Entries]
  BY <1>1
<1> QED
  BY <1>2 DEF lockVars, tableVars, entryVars

\* DispatchDone keeps the types.
LEMMA DispatchDoneType ==
  ASSUME TypeOK, Control, NEW t \in Threads, DispatchDone(t) PROVE TypeOK'
  BY Sorts, CallsAreOps, BoundsAssumption DEF TypeOK, Labels, Ops, Goto, Return, Call, Home, lockVars, tableVars, queueVars, entryVars, DispatchDone

\* Pop keeps the types.
LEMMA PopType ==
  ASSUME TypeOK, Control, NEW e \in Entries, Pop(e) PROVE TypeOK'
<1> USE Sorts DEF TypeOK, Pop
<1>1. Head(queue[e]) \in Nat /\ Tail(queue[e]) \in Seq(Nat)
  OBVIOUS
<1>2. queue' \in [Entries -> Seq(Nat)] /\ last' \in [Entries -> Nat]
  BY <1>1
<1>3. pc' \in [Threads -> Labels]
  BY DEF Goto, Labels
<1> QED
  BY <1>2, <1>3 DEF lockVars, tableVars, entryVars

\* ConsumeDone keeps the types.
LEMMA ConsumeDoneType ==
  ASSUME TypeOK, Control, NEW e \in Entries, ConsumeDone(e) PROVE TypeOK'
  BY Sorts, CallsAreOps, BoundsAssumption DEF TypeOK, Labels, Ops, Goto, Return, Call, Home, lockVars, tableVars, queueVars, entryVars, ConsumeDone

\* WorkerExit keeps the types.
LEMMA WorkerExitType ==
  ASSUME TypeOK, Control, NEW e \in Entries, WorkerExit(e) PROVE TypeOK'
  BY Sorts, CallsAreOps, BoundsAssumption DEF TypeOK, Labels, Ops, Goto, Return, Call, Home, lockVars, tableVars, queueVars, entryVars, WorkerExit

\* NewCall keeps every part of the inductive invariant.
LEMMA NewCallStep ==
  ASSUME IInv, NEW t \in Threads, NEW o \in Calls(t), NewCall(t, o) PROVE IInv'
<1> USE Sorts DEF TypeOK, Goto, Return, Call, Home, lockVars, tableVars, queueVars, entryVars
<1>0. TypeOK'
  BY NewCallType DEF IInv
<1>c. o \in {"add", "remove", "start", "stop"} /\ t \notin Pushers
  BY CallsAreOps DEF Ops
<1>d. pc[t] \in {"idle", "consume"}
  BY DEF NewCall
<1>a. \A w \in Threads, g \in Entries : TearingDown(w, g)' <=> TearingDown(w, g)
  BY <1>c, <1>d DEF IInv, Control, ControlOf, TearingDown, NewCall
<1>b. \A g \in Entries : Quiet(g)' <=> Quiet(g)
  BY <1>c, <1>d DEF IInv, Quiet, NewCall
<1>1. ASSUME NEW u \in Threads PROVE ControlOf(u)'
  BY <1>c, <1>d DEF IInv, NewCall, Control, ControlOf, Stopping
<1>2. Locks'
  BY <1>c, <1>d DEF IInv, NewCall, Control, ControlOf, Locks, HoldsMutex, HoldsLifecycle, Stopping
<1>3. ASSUME NEW f \in Entries PROVE EntryState(f)'
  BY SMTT(30), <1>c, <1>d, <1>a DEF IInv, NewCall, Control, ControlOf, Locks, HoldsMutex, Stopping, EntryStates, EntryState, Starts, StartOf, Loops, LoopOf, Quiet
<1>4. ASSUME NEW u \in Threads, NEW f \in Entries, TearingDown(u, f)'
      PROVE  Teardown(u, f)'
  <2>1. TearingDown(u, f) /\ Teardown(u, f)
    BY <1>a, <1>4 DEF IInv, Teardowns
  <2>2. \A w \in Threads : TearingDown(w, f)' => u = w
    BY <1>a, <2>1 DEF Teardown
  <2> QED
    BY <2>1, <2>2, <1>c, <1>d DEF IInv, Teardown, TearingDown, NewCall, Control, ControlOf, EntryStates, EntryState, Starts, StartOf, Loops, LoopOf, Quiet
<1>5. ASSUME NEW u \in Threads PROVE StartOf(u)'
  BY <1>c, <1>d DEF IInv, NewCall, Control, ControlOf, Locks, HoldsMutex, Stopping, EntryStates, EntryState, Teardowns, Teardown, Starts, StartOf, TearingDown, Quiet
<1>6. ASSUME NEW u \in Threads PROVE LoopOf(u)'
  BY <1>c, <1>d DEF IInv, NewCall, Control, ControlOf, Locks, HoldsMutex, HoldsLifecycle, Stopping, EntryStates, EntryState, Starts, StartOf, Loops, LoopOf, Outsiders, Quiet
<1>7. Outsiders'
  BY <1>c, <1>d DEF IInv, NewCall, Control, ControlOf, Locks, HoldsMutex, HoldsLifecycle, Stopping, EntryStates, EntryState, Starts, StartOf, Outsiders, Progress, ProgressOf, Quiet
<1>8. ASSUME NEW u \in Threads PROVE ProgressOf(u)'
  BY SMTT(30), <1>c, <1>d, <1>a, <1>b DEF IInv, NewCall, Control, ControlOf, Locks, HoldsMutex, HoldsLifecycle, Stopping, EntryStates, EntryState, Starts, StartOf, Loops, LoopOf, Outsiders, Progress, ProgressOf
<1>9. /\ running' => \A f \in entries' : started'[f]
      /\ lifecycle' = NoThread /\ ~running' => \A f \in entries' : Quiet(f)'
  BY <1>c, <1>d, <1>a, <1>b DEF IInv, NewCall, Control, ControlOf, Locks, HoldsMutex, HoldsLifecycle, Stopping, EntryStates, EntryState, Starts, StartOf, Progress, ProgressOf
<1> QED
  BY <1>0, <1>1, <1>2, <1>3, <1>4, <1>5, <1>6, <1>7, <1>8, <1>9 DEF IInv, Control, EntryStates, Teardowns, Starts, Loops, Progress

\* PushVideoPacket keeps every part of the inductive invariant.
LEMMA PushVideoPacketStep ==
  ASSUME IInv, NEW t \in Threads, PushVideoPacket(t) PROVE IInv'
<1> USE Sorts DEF TypeOK, Goto, Return, Call, Home, lockVars, tableVars, queueVars, entryVars
<1>0. TypeOK'
  BY PushVideoPacketType DEF IInv
<1>a. \A w \in Threads, g \in Entries : TearingDown(w, g)' <=> TearingDown(w, g)
  BY DEF IInv, Control, ControlOf, TearingDown, PushVideoPacket
<1>b. \A g \in Entries : Quiet(g)' <=> Quiet(g)
  BY DEF IInv, Quiet, PushVideoPacket
<1>1. ASSUME NEW u \in Threads PROVE ControlOf(u)'
  BY DEF IInv, PushVideoPacket, Control, ControlOf, Stopping
<1>2. Locks'
  BY DEF IInv, PushVideoPacket, Control, ControlOf, Locks, HoldsMutex, HoldsLifecycle, Stopping
<1>3. ASSUME NEW f \in Entries PROVE EntryState(f)'
  BY ZenonT(30), <1>a DEF IInv, PushVideoPacket, Control, ControlOf, Locks, HoldsMutex, Stopping, EntryStates, EntryState, Starts, StartOf, Loops, LoopOf, Quiet
<1>4. ASSUME NEW u \in Threads, NEW f \in Entries, TearingDown(u, f)'
      PROVE  Teardown(u, f)'
  <2>1. TearingDown(u, f) /\ Teardown(u, f)
    BY <1>a, <1>4 DEF IInv, Teardowns
  <2>2. \A w \in Threads : TearingDown(w, f)' => u = w
    BY <1>a, <2>1 DEF Teardown
  <2> QED
    BY <2>1, <2>2 DEF IInv, Teardown, TearingDown, PushVideoPacket, Control, ControlOf, EntryStates, EntryState, Starts, StartOf, Loops, LoopOf, Quiet
<1>5. ASSUME NEW u \in Threads PROVE StartOf(u)'
  BY DEF IInv, PushVideoPacket, Control, ControlOf, Locks, HoldsMutex, Stopping, EntryStates, EntryState, Teardowns, Teardown, Starts, StartOf, TearingDown, Quiet
<1>6. ASSUME NEW u \in Threads PROVE LoopOf(u)'
  BY DEF IInv, PushVideoPacket, Control, ControlOf, Locks, HoldsMutex, HoldsLifecycle, Stopping, EntryStates, EntryState, Starts, StartOf, Loops, LoopOf, Outsiders, Quiet
<1>7. Outsiders'
  BY DEF IInv, PushVideoPacket, Control, ControlOf, Locks, HoldsMutex, HoldsLifecycle, Stopping, EntryStates, EntryState, Starts, StartOf, Outsiders, Progress, ProgressOf, Quiet
<1>8. ASSUME NEW u \in Threads PROVE ProgressOf(u)'
  BY <1>a, <1>b DEF IInv, PushVideoPacket, Control, ControlOf, Locks, HoldsMutex, HoldsLifecycle, Stopping, EntryStates, EntryState, Starts, StartOf, Loops, LoopOf, Outsiders, Progress, ProgressOf
<1>9. /\ running' => \A f \in entries' : started'[f]
      /\ lifecycle' = NoThread /\ ~running' => \A f \in entries' : Quiet(f)'
  BY <1>a, <1>b DEF IInv, PushVideoPacket, Control, ControlOf, Locks, HoldsMutex, HoldsLifecycle, Stopping, EntryStates, EntryState, Starts, StartOf, Progress, ProgressOf
<1> QED
  BY <1>0, <1>1, <1>2, <1>3, <1>4, <1>5, <1>6, <1>7, <1>8, <1>9 DEF IInv, Control, EntryStates, Teardowns, Starts, Loops, Progress

\* AddStopped keeps every part of the inductive invariant.
LEMMA AddStoppedStep ==
  ASSUME IInv, NEW t \in Threads, AddStopped(t) PROVE IInv'
<1> USE Sorts DEF TypeOK, Goto, Return, Call, Home, lockVars, tableVars, queueVars, entryVars
<1>0. TypeOK'
  BY AddStoppedType DEF IInv
<1>c. \A w \in Threads : pc[w] # "off" => w # nextId
  BY DEF IInv, AddStopped, EntryStates, EntryState, Quiet
<1>a. \A w \in Threads, g \in Entries : TearingDown(w, g)' <=> TearingDown(w, g)
  BY DEF IInv, Control, ControlOf, TearingDown, AddStopped
<1>b. \A g \in Entries : Quiet(g)' <=> Quiet(g)
  BY DEF IInv, Quiet, AddStopped
<1>1. ASSUME NEW u \in Threads PROVE ControlOf(u)'
  BY DEF IInv, AddStopped, Control, ControlOf, Stopping
<1>2. Locks'
  BY DEF IInv, AddStopped, Control, ControlOf, Locks, HoldsMutex, HoldsLifecycle, Stopping
<1>3. ASSUME NEW f \in Entries PROVE EntryState(f)'
  BY SMTT(30), <1>a DEF IInv, AddStopped, Control, ControlOf, Locks, HoldsMutex, Stopping, EntryStates, EntryState, Starts, StartOf, Loops, LoopOf, Quiet
<1>4. ASSUME NEW u \in Threads, NEW f \in Entries, TearingDown(u, f)'
      PROVE  Teardown(u, f)'
  <2>1. TearingDown(u, f) /\ Teardown(u, f)
    BY <1>a, <1>4 DEF IInv, Teardowns
  <2>2. \A w \in Threads : TearingDown(w, f)' => u = w
    BY <1>a, <2>1 DEF Teardown
  <2> QED
    BY SMTT(30), <2>1, <2>2 DEF IInv, Teardown, TearingDown, AddStopped, Control, ControlOf, EntryStates, EntryState, Starts, StartOf, Loops, LoopOf, Quiet
<1>5. ASSUME NEW u \in Threads PROVE StartOf(u)'
  BY DEF IInv, AddStopped, Control, ControlOf, Locks, HoldsMutex, Stopping, EntryStates, EntryState, Teardowns, Teardown, Starts, StartOf, TearingDown, Quiet
<1>6. ASSUME NEW u \in Threads PROVE LoopOf(u)'
  BY DEF IInv, AddStopped, Control, ControlOf, Locks, HoldsMutex, HoldsLifecycle, Stopping, EntryStates, EntryState, Starts, StartOf, Loops, LoopOf, Outsiders, Quiet
<1>7. Outsiders'
  BY <1>c DEF IInv, AddStopped, Control, ControlOf, HoldsLifecycle, Stopping, Outsiders
<1>8. ASSUME NEW u \in Threads PROVE ProgressOf(u)'
  BY SMTT(30), <1>a, <1>b DEF IInv, AddStopped, Control, ControlOf, Locks, HoldsMutex, HoldsLifecycle, Stopping, EntryStates, EntryState, Starts, StartOf, Loops, LoopOf, Outsiders, Progress, ProgressOf
<1>9. /\ running' => \A f \in entries' : started'[f]
      /\ lifecycle' = NoThread /\ ~running' => \A f \in entries' : Quiet(f)'
  BY <1>a, <1>b DEF IInv, AddStopped, Control, ControlOf, Locks, HoldsMutex, HoldsLifecycle, Stopping, EntryStates, EntryState, Starts, StartOf, Progress, ProgressOf
<1> QED
  BY <1>0, <1>1, <1>2, <1>3, <1>4, <1>5, <1>6, <1>7, <1>8, <1>9 DEF IInv, Control, EntryStates, Teardowns, Starts, Loops, Progress

\* AddRunning keeps every part of the inductive invariant.
LEMMA AddRunningStep ==
  ASSUME IInv, NEW t \in Threads, AddRunning(t) PROVE IInv'
<1> USE Sorts DEF TypeOK, Goto, Return, Call, Home, lockVars, tableVars, queueVars, entryVars
<1>0. TypeOK'
  BY AddRunningType DEF IInv
<1>c. /\ nextId \in Entries /\ Quiet(nextId) /\ nextId \notin entries /\ running
      /\ \A w \in Threads : nextId \notin todo[w]
  BY DEF IInv, AddRunning, EntryStates, EntryState, Loops, LoopOf
<1>d. /\ cur' = [cur EXCEPT ![t] = nextId] /\ pc' = [pc EXCEPT ![t] = "sinkStart"]
      /\ op[t] = "add" /\ mutex = NoThread
  BY DEF IInv, AddRunning, Control, ControlOf
<1>a. \A w \in Threads, g \in Entries : TearingDown(w, g)' <=> TearingDown(w, g)
  BY <1>c DEF IInv, Control, ControlOf, TearingDown, AddRunning, Reset
<1>b. \A g \in Entries : Quiet(g)' <=> Quiet(g)
  BY <1>c DEF IInv, Quiet, AddRunning, Reset
<1>1. ASSUME NEW u \in Threads PROVE ControlOf(u)'
  BY <1>c DEF IInv, AddRunning, Reset, Control, ControlOf, Stopping
<1>2. Locks'
  BY <1>c DEF IInv, AddRunning, Reset, Control, ControlOf, Locks, HoldsMutex, HoldsLifecycle, Stopping
<1>3. ASSUME NEW f \in Entries PROVE EntryState(f)'
  BY SMTT(30), <1>c, <1>a DEF IInv, AddRunning, Reset, Control, ControlOf, Locks, HoldsMutex, Stopping, EntryStates, EntryState, Starts, StartOf, Loops, LoopOf, Quiet
<1>4. ASSUME NEW u \in Threads, NEW f \in Entries, TearingDown(u, f)'
      PROVE  Teardown(u, f)'
  <2>1. TearingDown(u, f) /\ Teardown(u, f)
    BY <1>a, <1>4 DEF IInv, Teardowns
  <2>2. \A w \in Threads : TearingDown(w, f)' => u = w
    BY <1>a, <2>1 DEF Teardown
  <2> QED
    BY SMTT(30), <2>1, <2>2, <1>c DEF IInv, Teardown, TearingDown, AddRunning, Reset, Control, ControlOf, EntryStates, EntryState, Starts, StartOf, Loops, LoopOf, Quiet
<1>5. ASSUME NEW u \in Threads PROVE StartOf(u)'
  BY <1>c DEF IInv, AddRunning, Reset, Control, ControlOf, Locks, HoldsMutex, Stopping, EntryStates, EntryState, Teardowns, Teardown, Starts, StartOf, TearingDown, Quiet
<1>6. ASSUME NEW u \in Threads PROVE LoopOf(u)'
  BY <1>c DEF IInv, AddRunning, Reset, Control, ControlOf, Locks, HoldsMutex, HoldsLifecycle, Stopping, EntryStates, EntryState, Starts, StartOf, Loops, LoopOf, Outsiders, Quiet
<1>7. Outsiders'
  BY <1>c DEF IInv, AddRunning, Reset, Control, ControlOf, Locks, HoldsMutex, HoldsLifecycle, Stopping, EntryStates, EntryState, Starts, StartOf, Outsiders, Progress, ProgressOf, Quiet
<1>8. ASSUME NEW u \in Threads PROVE ProgressOf(u)'
  BY <1>c, <1>a, <1>b DEF IInv, AddRunning, Reset, Control, ControlOf, Locks, HoldsMutex, HoldsLifecycle, Stopping, EntryStates, EntryState, Starts, StartOf, Loops, LoopOf, Outsiders, Progress, ProgressOf
<1>9. /\ running' => \A f \in entries' : started'[f]
      /\ lifecycle' = NoThread /\ ~running' => \A f \in entries' : Quiet(f)'
  BY <1>c, <1>a, <1>b DEF IInv, AddRunning, Reset, Control, ControlOf, Locks, HoldsMutex, HoldsLifecycle, Stopping, EntryStates, EntryState, Starts, StartOf, Progress, ProgressOf
<1> QED
  BY <1>0, <1>1, <1>2, <1>3, <1>4, <1>5, <1>6, <1>7, <1>8, <1>9 DEF IInv, Control, EntryStates, Teardowns, Starts, Loops, Progress

\* AddRefused keeps every part of the inductive invariant.
LEMMA AddRefusedStep ==
  ASSUME IInv, NEW t \in Threads, AddRefused(t) PROVE IInv'
<1> USE Sorts DEF TypeOK, Goto, Return, Call, Home, lockVars, tableVars, queueVars, entryVars
<1>0. TypeOK'
  BY AddRefusedType DEF IInv
<1>a. \A w \in Threads, g \in Entries : TearingDown(w, g)' <=> TearingDown(w, g)
  BY DEF IInv, Control, ControlOf, TearingDown, AddRefused
<1>b. \A g \in Entries : Quiet(g)' <=> Quiet(g)
  BY DEF IInv, Quiet, AddRefused
<1>1. ASSUME NEW u \in Threads PROVE ControlOf(u)'
  BY DEF IInv, AddRefused, Control, ControlOf, Stopping
<1>2. Locks'
  BY DEF IInv, AddRefused, Control, ControlOf, Locks, HoldsMutex, HoldsLifecycle, Stopping
<1>3. ASSUME NEW f \in Entries PROVE EntryState(f)'
  BY SMTT(30), <1>a DEF IInv, AddRefused, Control, ControlOf, Locks, HoldsMutex, Stopping, EntryStates, EntryState, Starts, StartOf, Loops, LoopOf, Quiet
<1>4. ASSUME NEW u \in Threads, NEW f \in Entries, TearingDown(u, f)'
      PROVE  Teardown(u, f)'
  <2>1. TearingDown(u, f) /\ Teardown(u, f)
    BY <1>a, <1>4 DEF IInv, Teardowns
  <2>2. \A w \in Threads : TearingDown(w, f)' => u = w
    BY <1>a, <2>1 DEF Teardown
  <2> QED
    BY <2>1, <2>2 DEF IInv, Teardown, TearingDown, AddRefused, Control, ControlOf, EntryStates, EntryState, Starts, StartOf, Loops, LoopOf, Quiet
<1>5. ASSUME NEW u \in Threads PROVE StartOf(u)'
  BY DEF IInv, AddRefused, Control, ControlOf, Locks, HoldsMutex, Stopping, EntryStates, EntryState, Teardowns, Teardown, Starts, StartOf, TearingDown, Quiet
<1>6. ASSUME NEW u \in Threads PROVE LoopOf(u)'
  BY DEF IInv, AddRefused, Control, ControlOf, Locks, HoldsMutex, HoldsLifecycle, Stopping, EntryStates, EntryState, Starts, StartOf, Loops, LoopOf, Outsiders, Quiet
<1>7. Outsiders'
  BY DEF IInv, AddRefused, Control, ControlOf, Locks, HoldsMutex, HoldsLifecycle, Stopping, EntryStates, EntryState, Starts, StartOf, Outsiders, Progress, ProgressOf, Quiet
<1>8. ASSUME NEW u \in Threads PROVE ProgressOf(u)'
  BY <1>a, <1>b DEF IInv, AddRefused, Control, ControlOf, Locks, HoldsMutex, HoldsLifecycle, Stopping, EntryStates, EntryState, Starts, StartOf, Loops, LoopOf, Outsiders, Progress, ProgressOf
<1>9. /\ running' => \A f \in entries' : started'[f]
      /\ lifecycle' = NoThread /\ ~running' => \A f \in entries' : Quiet(f)'
  BY <1>a, <1>b DEF IInv, AddRefused, Control, ControlOf, Locks, HoldsMutex, HoldsLifecycle, Stopping, EntryStates, EntryState, Starts, StartOf, Progress, ProgressOf
<1> QED
  BY <1>0, <1>1, <1>2, <1>3, <1>4, <1>5, <1>6, <1>7, <1>8, <1>9 DEF IInv, Control, EntryStates, Teardowns, Starts, Loops, Progress

\* AddedSinkStarts keeps every part of the inductive invariant.
LEMMA AddedSinkStartsStep ==
  ASSUME IInv, NEW t \in Threads, AddedSinkStarts(t) PROVE IInv'
<1> USE Sorts DEF TypeOK, Goto, Return, Call, Home, lockVars, tableVars, queueVars, entryVars
<1>0. TypeOK'
  BY AddedSinkStartsType DEF IInv
<1>c. cur[t] \in Entries /\ cur[t] # t /\ pc[cur[t]] = "off"
  BY DEF IInv, AddedSinkStarts, Control, ControlOf, EntryStates, EntryState, Starts, StartOf, Quiet
<1>a. \A w \in Threads, g \in Entries : TearingDown(w, g)' <=> TearingDown(w, g)
  BY <1>c DEF IInv, Control, ControlOf, TearingDown, AddedSinkStarts, Launch
<1>1. ASSUME NEW u \in Threads PROVE ControlOf(u)'
  BY SMTT(30), <1>c DEF IInv, AddedSinkStarts, Launch, Control, ControlOf, Stopping
<1>2. Locks'
  BY SMTT(30), <1>c DEF IInv, AddedSinkStarts, Launch, Control, ControlOf, Locks, HoldsMutex, HoldsLifecycle, Stopping
<1>3. ASSUME NEW f \in Entries PROVE EntryState(f)'
  BY SMTT(30), <1>c, <1>a DEF IInv, AddedSinkStarts, Launch, Control, ControlOf, Locks, HoldsMutex, Stopping, EntryStates, EntryState, Starts, StartOf, Loops, LoopOf, Quiet
<1>4. ASSUME NEW u \in Threads, NEW f \in Entries, TearingDown(u, f)'
      PROVE  Teardown(u, f)'
  <2>1. TearingDown(u, f) /\ Teardown(u, f)
    BY <1>a, <1>4 DEF IInv, Teardowns
  <2>2. \A w \in Threads : TearingDown(w, f)' => u = w
    BY <1>a, <2>1 DEF Teardown
  <2> QED
    BY ZenonT(30), <2>1, <2>2, <1>c DEF IInv, Teardown, TearingDown, AddedSinkStarts, Launch, Control, ControlOf, EntryStates, EntryState, Starts, StartOf, Loops, LoopOf, Quiet
<1>5. ASSUME NEW u \in Threads PROVE StartOf(u)'
  BY SMTT(30), <1>c DEF IInv, AddedSinkStarts, Launch, Control, ControlOf, Locks, HoldsMutex, Stopping, EntryStates, EntryState, Teardowns, Teardown, Starts, StartOf, TearingDown, Quiet
<1>6. ASSUME NEW u \in Threads PROVE LoopOf(u)'
  BY SMTT(30), <1>c DEF IInv, AddedSinkStarts, Launch, Control, ControlOf, Locks, HoldsMutex, HoldsLifecycle, Stopping, EntryStates, EntryState, Starts, StartOf, Loops, LoopOf, Outsiders, Quiet
<1>7. Outsiders'
  BY <1>c DEF IInv, AddedSinkStarts, Launch, Control, ControlOf, Locks, HoldsMutex, HoldsLifecycle, Stopping, EntryStates, EntryState, Starts, StartOf, Outsiders, Progress, ProgressOf, Quiet
<1>8. ASSUME NEW u \in Threads PROVE ProgressOf(u)'
  BY SMTT(30), <1>c, <1>a DEF IInv, AddedSinkStarts, Launch, Control, ControlOf, Locks, HoldsMutex, HoldsLifecycle, Stopping, EntryStates, EntryState, Starts, StartOf, Loops, LoopOf, Outsiders, Progress, ProgressOf, Quiet
<1>9. /\ running' => \A f \in entries' : started'[f]
      /\ lifecycle' = NoThread /\ ~running' => \A f \in entries' : Quiet(f)'
  BY <1>c, <1>a DEF IInv, AddedSinkStarts, Launch, Control, ControlOf, Locks, HoldsMutex, HoldsLifecycle, Stopping, EntryStates, EntryState, Starts, StartOf, Progress, ProgressOf, Quiet
<1> QED
  BY <1>0, <1>1, <1>2, <1>3, <1>4, <1>5, <1>6, <1>7, <1>8, <1>9 DEF IInv, Control, EntryStates, Teardowns, Starts, Loops, Progress

\* AddedSinkFails keeps every part of the inductive invariant.
LEMMA AddedSinkFailsStep ==
  ASSUME IInv, NEW t \in Threads, AddedSinkFails(t) PROVE IInv'
<1> USE Sorts DEF TypeOK, Goto, Return, Call, Home, lockVars, tableVars, queueVars, entryVars
<1>0. TypeOK'
  BY AddedSinkFailsType DEF IInv
<1>a. \A w \in Threads, g \in Entries : TearingDown(w, g)' <=> TearingDown(w, g)
  BY DEF IInv, Control, ControlOf, TearingDown, AddedSinkFails
<1>b. \A g \in Entries : Quiet(g)' <=> Quiet(g)
  BY DEF IInv, Quiet, AddedSinkFails
<1>1. ASSUME NEW u \in Threads PROVE ControlOf(u)'
  BY SMTT(30) DEF IInv, AddedSinkFails, Control, ControlOf, Stopping
<1>2. Locks'
  BY SMTT(30) DEF IInv, AddedSinkFails, Control, ControlOf, Locks, HoldsMutex, HoldsLifecycle, Stopping
<1>3. ASSUME NEW f \in Entries PROVE EntryState(f)'
  BY SMTT(30), <1>a DEF IInv, AddedSinkFails, Control, ControlOf, Locks, HoldsMutex, Stopping, EntryStates, EntryState, Starts, StartOf, Loops, LoopOf, Quiet
<1>4. ASSUME NEW u \in Threads, NEW f \in Entries, TearingDown(u, f)'
      PROVE  Teardown(u, f)'
  <2>1. TearingDown(u, f) /\ Teardown(u, f)
    BY <1>a, <1>4 DEF IInv, Teardowns
  <2>2. \A w \in Threads : TearingDown(w, f)' => u = w
    BY <1>a, <2>1 DEF Teardown
  <2> QED
    BY <2>1, <2>2 DEF IInv, Teardown, TearingDown, AddedSinkFails, Control, ControlOf, EntryStates, EntryState, Starts, StartOf, Loops, LoopOf, Quiet
<1>5. ASSUME NEW u \in Threads PROVE StartOf(u)'
  BY DEF IInv, AddedSinkFails, Control, ControlOf, Locks, HoldsMutex, Stopping, EntryStates, EntryState, Teardowns, Teardown, Starts, StartOf, TearingDown, Quiet
<1>6. ASSUME NEW u \in Threads PROVE LoopOf(u)'
  BY DEF IInv, AddedSinkFails, Control, ControlOf, Locks, HoldsMutex, HoldsLifecycle, Stopping, EntryStates, EntryState, Starts, StartOf, Loops, LoopOf, Outsiders, Quiet
<1>7. Outsiders'
  BY DEF IInv, AddedSinkFails, Control, ControlOf, Locks, HoldsMutex, HoldsLifecycle, Stopping, EntryStates, EntryState, Starts, StartOf, Outsiders, Progress, ProgressOf, Quiet
<1>8. ASSUME NEW u \in Threads PROVE ProgressOf(u)'
  BY SMTT(30), <1>a, <1>b DEF IInv, AddedSinkFails, Control, ControlOf, Locks, HoldsMutex, HoldsLifecycle, Stopping, EntryStates, EntryState, Starts, StartOf, Loops, LoopOf, Outsiders, Progress, ProgressOf
<1>9. /\ running' => \A f \in entries' : started'[f]
      /\ lifecycle' = NoThread /\ ~running' => \A f \in entries' : Quiet(f)'
  BY <1>a, <1>b DEF IInv, AddedSinkFails, Control, ControlOf, Locks, HoldsMutex, HoldsLifecycle, Stopping, EntryStates, EntryState, Starts, StartOf, Progress, ProgressOf
<1> QED
  BY <1>0, <1>1, <1>2, <1>3, <1>4, <1>5, <1>6, <1>7, <1>8, <1>9 DEF IInv, Control, EntryStates, Teardowns, Starts, Loops, Progress

\* Start keeps every part of the inductive invariant.
LEMMA StartStep ==
  ASSUME IInv, NEW t \in Threads, Start(t) PROVE IInv'
<1> USE Sorts DEF TypeOK, Goto, Return, Call, Home, lockVars, tableVars, queueVars, entryVars
<1>0. TypeOK'
  BY StartType DEF IInv
<1>a. \A w \in Threads, g \in Entries : TearingDown(w, g)' <=> TearingDown(w, g)
  BY DEF IInv, Control, ControlOf, TearingDown, Start
<1>b. \A g \in Entries : Quiet(g)' <=> Quiet(g)
  BY DEF IInv, Quiet, Start
<1>1. ASSUME NEW u \in Threads PROVE ControlOf(u)'
  BY DEF IInv, Start, Control, ControlOf, Stopping
<1>2. Locks'
  BY DEF IInv, Start, Control, ControlOf, Locks, HoldsMutex, HoldsLifecycle, Stopping
<1>3. ASSUME NEW f \in Entries PROVE EntryState(f)'
  BY <1>a DEF IInv, Start, Control, ControlOf, Locks, HoldsMutex, Stopping, EntryStates, EntryState, Starts, StartOf, Loops, LoopOf, Quiet
<1>4. ASSUME NEW u \in Threads, NEW f \in Entries, TearingDown(u, f)'
      PROVE  Teardown(u, f)'
  <2>1. TearingDown(u, f) /\ Teardown(u, f)
    BY <1>a, <1>4 DEF IInv, Teardowns
  <2>2. \A w \in Threads : TearingDown(w, f)' => u = w
    BY <1>a, <2>1 DEF Teardown
  <2> QED
    BY <2>1, <2>2 DEF IInv, Teardown, TearingDown, Start, Control, ControlOf, EntryStates, EntryState, Starts, StartOf, Loops, LoopOf, Quiet
<1>5. ASSUME NEW u \in Threads PROVE StartOf(u)'
  BY DEF IInv, Start, Control, ControlOf, Locks, HoldsMutex, Stopping, EntryStates, EntryState, Teardowns, Teardown, Starts, StartOf, TearingDown, Quiet
<1>6. ASSUME NEW u \in Threads PROVE LoopOf(u)'
  BY DEF IInv, Start, Control, ControlOf, Locks, HoldsMutex, HoldsLifecycle, Stopping, EntryStates, EntryState, Starts, StartOf, Loops, LoopOf, Outsiders, Quiet
<1>7. Outsiders'
  BY ZenonT(30) DEF IInv, Start, Control, ControlOf, Locks, HoldsMutex, HoldsLifecycle, Stopping, EntryStates, EntryState, Starts, StartOf, Outsiders, Progress, ProgressOf, Quiet
<1>8. ASSUME NEW u \in Threads PROVE ProgressOf(u)'
  BY <1>a, <1>b DEF IInv, Start, Control, ControlOf, Locks, HoldsMutex, HoldsLifecycle, Stopping, EntryStates, EntryState, Starts, StartOf, Loops, LoopOf, Outsiders, Progress, ProgressOf
<1>9. /\ running' => \A f \in entries' : started'[f]
      /\ lifecycle' = NoThread /\ ~running' => \A f \in entries' : Quiet(f)'
  BY <1>a, <1>b DEF IInv, Start, Control, ControlOf, Locks, HoldsMutex, HoldsLifecycle, Stopping, EntryStates, EntryState, Starts, StartOf, Progress, ProgressOf
<1> QED
  BY <1>0, <1>1, <1>2, <1>3, <1>4, <1>5, <1>6, <1>7, <1>8, <1>9 DEF IInv, Control, EntryStates, Teardowns, Starts, Loops, Progress

\* StartRefused keeps every part of the inductive invariant.
LEMMA StartRefusedStep ==
  ASSUME IInv, NEW t \in Threads, StartRefused(t) PROVE IInv'
<1> USE Sorts DEF TypeOK, Goto, Return, Call, Home, lockVars, tableVars, queueVars, entryVars
<1>0. TypeOK'
  BY StartRefusedType DEF IInv
<1>a. \A w \in Threads, g \in Entries : TearingDown(w, g)' <=> TearingDown(w, g)
  BY DEF IInv, Control, ControlOf, TearingDown, StartRefused
<1>b. \A g \in Entries : Quiet(g)' <=> Quiet(g)
  BY DEF IInv, Quiet, StartRefused
<1>1. ASSUME NEW u \in Threads PROVE ControlOf(u)'
  BY DEF IInv, StartRefused, Control, ControlOf, Stopping
<1>2. Locks'
  BY DEF IInv, StartRefused, Control, ControlOf, Locks, HoldsMutex, HoldsLifecycle, Stopping
<1>3. ASSUME NEW f \in Entries PROVE EntryState(f)'
  BY <1>a DEF IInv, StartRefused, Control, ControlOf, Locks, HoldsMutex, Stopping, EntryStates, EntryState, Starts, StartOf, Loops, LoopOf, Quiet
<1>4. ASSUME NEW u \in Threads, NEW f \in Entries, TearingDown(u, f)'
      PROVE  Teardown(u, f)'
  <2>1. TearingDown(u, f) /\ Teardown(u, f)
    BY <1>a, <1>4 DEF IInv, Teardowns
  <2>2. \A w \in Threads : TearingDown(w, f)' => u = w
    BY <1>a, <2>1 DEF Teardown
  <2> QED
    BY <2>1, <2>2 DEF IInv, Teardown, TearingDown, StartRefused, Control, ControlOf, EntryStates, EntryState, Starts, StartOf, Loops, LoopOf, Quiet
<1>5. ASSUME NEW u \in Threads PROVE StartOf(u)'
  BY DEF IInv, StartRefused, Control, ControlOf, Locks, HoldsMutex, Stopping, EntryStates, EntryState, Teardowns, Teardown, Starts, StartOf, TearingDown, Quiet
<1>6. ASSUME NEW u \in Threads PROVE LoopOf(u)'
  BY DEF IInv, StartRefused, Control, ControlOf, Locks, HoldsMutex, HoldsLifecycle, Stopping, EntryStates, EntryState, Starts, StartOf, Loops, LoopOf, Outsiders, Quiet
<1>7. Outsiders'
  BY DEF IInv, StartRefused, Control, ControlOf, Locks, HoldsMutex, HoldsLifecycle, Stopping, EntryStates, EntryState, Starts, StartOf, Outsiders, Progress, ProgressOf, Quiet
<1>8. ASSUME NEW u \in Threads PROVE ProgressOf(u)'
  BY <1>a, <1>b DEF IInv, StartRefused, Control, ControlOf, Locks, HoldsMutex, HoldsLifecycle, Stopping, EntryStates, EntryState, Starts, StartOf, Loops, LoopOf, Outsiders, Progress, ProgressOf
<1>9. /\ running' => \A f \in entries' : started'[f]
      /\ lifecycle' = NoThread /\ ~running' => \A f \in entries' : Quiet(f)'
  BY <1>a, <1>b DEF IInv, StartRefused, Control, ControlOf, Locks, HoldsMutex, HoldsLifecycle, Stopping, EntryStates, EntryState, Starts, StartOf, Progress, ProgressOf
<1> QED
  BY <1>0, <1>1, <1>2, <1>3, <1>4, <1>5, <1>6, <1>7, <1>8, <1>9 DEF IInv, Control, EntryStates, Teardowns, Starts, Loops, Progress

\* StartFanout keeps every part of the inductive invariant.
LEMMA StartFanoutStep ==
  ASSUME IInv, NEW t \in Threads, StartFanout(t) PROVE IInv'
<1> USE Sorts DEF TypeOK, Goto, Return, Call, Home, lockVars, tableVars, queueVars, entryVars
<1>0. TypeOK'
  BY StartFanoutType DEF IInv
<1>a. \A w \in Threads, g \in Entries : TearingDown(w, g)' <=> TearingDown(w, g)
  BY DEF IInv, Control, ControlOf, TearingDown, StartFanout
<1>b. \A g \in Entries : Quiet(g)' <=> Quiet(g)
  BY DEF IInv, Quiet, StartFanout
<1>1. ASSUME NEW u \in Threads PROVE ControlOf(u)'
  BY DEF IInv, StartFanout, Control, ControlOf, Stopping
<1>2. Locks'
  BY DEF IInv, StartFanout, Control, ControlOf, Locks, HoldsMutex, HoldsLifecycle, Stopping
<1>3. ASSUME NEW f \in Entries PROVE EntryState(f)'
  BY <1>a DEF IInv, StartFanout, Control, ControlOf, Locks, HoldsMutex, Stopping, EntryStates, EntryState, Starts, StartOf, Loops, LoopOf, Quiet
<1>4. ASSUME NEW u \in Threads, NEW f \in Entries, TearingDown(u, f)'
      PROVE  Teardown(u, f)'
  <2>1. TearingDown(u, f) /\ Teardown(u, f)
    BY <1>a, <1>4 DEF IInv, Teardowns
  <2>2. \A w \in Threads : TearingDown(w, f)' => u = w
    BY <1>a, <2>1 DEF Teardown
  <2> QED
    BY <2>1, <2>2 DEF IInv, Teardown, TearingDown, StartFanout, Control, ControlOf, EntryStates, EntryState, Starts, StartOf, Loops, LoopOf, Quiet
<1>5. ASSUME NEW u \in Threads PROVE StartOf(u)'
  BY DEF IInv, StartFanout, Control, ControlOf, Locks, HoldsMutex, Stopping, EntryStates, EntryState, Teardowns, Teardown, Starts, StartOf, TearingDown, Quiet
<1>6. ASSUME NEW u \in Threads PROVE LoopOf(u)'
  BY DEF IInv, StartFanout, Control, ControlOf, Locks, HoldsMutex, HoldsLifecycle, Stopping, EntryStates, EntryState, Starts, StartOf, Loops, LoopOf, Outsiders, Quiet
<1>7. Outsiders'
  BY DEF IInv, StartFanout, Control, ControlOf, Locks, HoldsMutex, HoldsLifecycle, Stopping, EntryStates, EntryState, Starts, StartOf, Outsiders, Progress, ProgressOf, Quiet
<1>8. ASSUME NEW u \in Threads PROVE ProgressOf(u)'
  BY <1>a, <1>b DEF IInv, StartFanout, Control, ControlOf, Locks, HoldsMutex, HoldsLifecycle, Stopping, EntryStates, EntryState, Starts, StartOf, Loops, LoopOf, Outsiders, Progress, ProgressOf
<1>9. /\ running' => \A f \in entries' : started'[f]
      /\ lifecycle' = NoThread /\ ~running' => \A f \in entries' : Quiet(f)'
  BY <1>a, <1>b DEF IInv, StartFanout, Control, ControlOf, Locks, HoldsMutex, HoldsLifecycle, Stopping, EntryStates, EntryState, Starts, StartOf, Progress, ProgressOf
<1> QED
  BY <1>0, <1>1, <1>2, <1>3, <1>4, <1>5, <1>6, <1>7, <1>8, <1>9 DEF IInv, Control, EntryStates, Teardowns, Starts, Loops, Progress

\* StartNext keeps every part of the inductive invariant.
LEMMA StartNextStep ==
  ASSUME IInv, NEW t \in Threads, NEW e \in Entries, StartNext(t, e) PROVE IInv'
<1> USE Sorts DEF TypeOK, Goto, Return, Call, Home, lockVars, tableVars, queueVars, entryVars
<1>0. TypeOK'
  BY StartNextType DEF IInv
<1>c. e \in todo[t] /\ e \in entries /\ Quiet(e) /\ e < nextId
  BY DEF IInv, StartNext, IsFirst, Control, ControlOf, Loops, LoopOf, Progress, ProgressOf, HoldsLifecycle
<1>d. /\ \A w \in Threads : ~TearingDown(w, e)
      /\ op[t] = "start"
  BY <1>c DEF IInv, StartNext, Control, ControlOf, Teardowns, Teardown, Quiet
<1>a. \A w \in Threads, g \in Entries : TearingDown(w, g)' <=> TearingDown(w, g)
  BY <1>c, <1>d DEF IInv, Control, ControlOf, TearingDown, StartNext, Reset, IsFirst
<1>b. \A g \in Entries : Quiet(g)' <=> Quiet(g)
  BY <1>c, <1>d DEF IInv, Quiet, StartNext, Reset, IsFirst
<1>1. ASSUME NEW u \in Threads PROVE ControlOf(u)'
  BY SMTT(30), <1>c, <1>d DEF IInv, StartNext, Reset, IsFirst, Control, ControlOf, Stopping
<1>2. Locks'
  BY <1>c, <1>d DEF IInv, StartNext, Reset, IsFirst, Control, ControlOf, Locks, HoldsMutex, HoldsLifecycle, Stopping
<1>3. ASSUME NEW f \in Entries PROVE EntryState(f)'
  <2>1. EntryState(f)
    BY DEF IInv, EntryStates
  <2>2. CASE f = e
    BY <1>b, <1>c, <2>1, <2>2 DEF StartNext, Reset, EntryState, Quiet
  <2>3. CASE f # e
    BY SMTT(30), <1>a, <1>b, <2>1, <2>3 DEF StartNext, Reset, EntryState, IInv, Control, ControlOf
  <2> QED
    BY <2>2, <2>3
<1>4. ASSUME NEW u \in Threads, NEW f \in Entries, TearingDown(u, f)'
      PROVE  Teardown(u, f)'
  <2>1. TearingDown(u, f) /\ Teardown(u, f)
    BY <1>a, <1>4 DEF IInv, Teardowns
  <2>2. \A w \in Threads : TearingDown(w, f)' => u = w
    BY <1>a, <2>1 DEF Teardown
  <2> QED
    BY <2>1, <2>2, <1>c, <1>d DEF IInv, Teardown, TearingDown, StartNext, Reset, IsFirst, Control, ControlOf, EntryStates, EntryState, Starts, StartOf, Loops, LoopOf, Quiet
<1>5. ASSUME NEW u \in Threads PROVE StartOf(u)'
  BY SMTT(30), <1>c, <1>d DEF IInv, StartNext, Reset, IsFirst, Control, ControlOf, Locks, HoldsMutex, Stopping, EntryStates, EntryState, Teardowns, Teardown, Starts, StartOf, TearingDown, Quiet
<1>6. ASSUME NEW u \in Threads PROVE LoopOf(u)'
  BY <1>c, <1>d DEF IInv, StartNext, Reset, IsFirst, Control, ControlOf, Locks, HoldsMutex, HoldsLifecycle, Stopping, EntryStates, EntryState, Starts, StartOf, Loops, LoopOf, Outsiders, Quiet
<1>7. Outsiders'
  BY <1>c, <1>d DEF IInv, StartNext, Reset, IsFirst, Control, ControlOf, Locks, HoldsMutex, HoldsLifecycle, Stopping, EntryStates, EntryState, Starts, StartOf, Outsiders, Progress, ProgressOf, Quiet
<1>8. ASSUME NEW u \in Threads PROVE ProgressOf(u)'
  BY <1>c, <1>d, <1>a, <1>b DEF IInv, StartNext, Reset, IsFirst, Control, ControlOf, Locks, HoldsMutex, HoldsLifecycle, Stopping, EntryStates, EntryState, Starts, StartOf, Loops, LoopOf, Outsiders, Progress, ProgressOf
<1>9. /\ running' => \A f \in entries' : started'[f]
      /\ lifecycle' = NoThread /\ ~running' => \A f \in entries' : Quiet(f)'
  BY <1>c, <1>d, <1>a, <1>b DEF IInv, StartNext, Reset, IsFirst, Control, ControlOf, Locks, HoldsMutex, HoldsLifecycle, Stopping, EntryStates, EntryState, Starts, StartOf, Progress, ProgressOf
<1> QED
  BY <1>0, <1>1, <1>2, <1>3, <1>4, <1>5, <1>6, <1>7, <1>8, <1>9 DEF IInv, Control, EntryStates, Teardowns, Starts, Loops, Progress

\* StartDone keeps every part of the inductive invariant.
LEMMA StartDoneStep ==
  ASSUME IInv, NEW t \in Threads, StartDone(t) PROVE IInv'
<1> USE Sorts DEF TypeOK, Goto, Return, Call, Home, lockVars, tableVars, queueVars, entryVars
<1>0. TypeOK'
  BY StartDoneType DEF IInv
<1>a. \A w \in Threads, g \in Entries : TearingDown(w, g)' <=> TearingDown(w, g)
  BY DEF IInv, Control, ControlOf, TearingDown, StartDone
<1>b. \A g \in Entries : Quiet(g)' <=> Quiet(g)
  BY DEF IInv, Quiet, StartDone
<1>1. ASSUME NEW u \in Threads PROVE ControlOf(u)'
  BY DEF IInv, StartDone, Control, ControlOf, Stopping
<1>2. Locks'
  BY DEF IInv, StartDone, Control, ControlOf, Locks, HoldsMutex, HoldsLifecycle, Stopping
<1>3. ASSUME NEW f \in Entries PROVE EntryState(f)'
  BY <1>a DEF IInv, StartDone, Control, ControlOf, Locks, HoldsMutex, Stopping, EntryStates, EntryState, Starts, StartOf, Loops, LoopOf, Quiet
<1>4. ASSUME NEW u \in Threads, NEW f \in Entries, TearingDown(u, f)'
      PROVE  Teardown(u, f)'
  <2>1. TearingDown(u, f) /\ Teardown(u, f)
    BY <1>a, <1>4 DEF IInv, Teardowns
  <2>2. \A w \in Threads : TearingDown(w, f)' => u = w
    BY <1>a, <2>1 DEF Teardown
  <2> QED
    BY <2>1, <2>2 DEF IInv, Teardown, TearingDown, StartDone, Control, ControlOf, EntryStates, EntryState, Starts, StartOf, Loops, LoopOf, Quiet
<1>5. ASSUME NEW u \in Threads PROVE StartOf(u)'
  BY DEF IInv, StartDone, Control, ControlOf, Locks, HoldsMutex, Stopping, EntryStates, EntryState, Teardowns, Teardown, Starts, StartOf, TearingDown, Quiet
<1>6. ASSUME NEW u \in Threads PROVE LoopOf(u)'
  BY DEF IInv, StartDone, Control, ControlOf, Locks, HoldsMutex, HoldsLifecycle, Stopping, EntryStates, EntryState, Starts, StartOf, Loops, LoopOf, Outsiders, Quiet
<1>7. Outsiders'
  BY DEF IInv, StartDone, Control, ControlOf, Locks, HoldsMutex, HoldsLifecycle, Stopping, EntryStates, EntryState, Starts, StartOf, Outsiders, Progress, ProgressOf, Quiet
<1>8. ASSUME NEW u \in Threads PROVE ProgressOf(u)'
  BY <1>a, <1>b DEF IInv, StartDone, Control, ControlOf, Locks, HoldsMutex, HoldsLifecycle, Stopping, EntryStates, EntryState, Starts, StartOf, Loops, LoopOf, Outsiders, Progress, ProgressOf
<1>9. /\ running' => \A f \in entries' : started'[f]
      /\ lifecycle' = NoThread /\ ~running' => \A f \in entries' : Quiet(f)'
  BY ZenonT(30), <1>a, <1>b DEF IInv, StartDone, Control, ControlOf, Locks, HoldsMutex, HoldsLifecycle, Stopping, EntryStates, EntryState, Starts, StartOf, Progress, ProgressOf
<1> QED
  BY <1>0, <1>1, <1>2, <1>3, <1>4, <1>5, <1>6, <1>7, <1>8, <1>9 DEF IInv, Control, EntryStates, Teardowns, Starts, Loops, Progress

\* StartFailsLater keeps every part of the inductive invariant.
LEMMA StartFailsLaterStep ==
  ASSUME IInv, NEW t \in Threads, StartFailsLater(t) PROVE IInv'
<1> USE Sorts DEF TypeOK, Goto, Return, Call, Home, lockVars, tableVars, queueVars, entryVars
<1>0. TypeOK'
  BY StartFailsLaterType DEF IInv
<1>a. \A w \in Threads, g \in Entries : TearingDown(w, g)' <=> TearingDown(w, g)
  BY DEF IInv, Control, ControlOf, TearingDown, StartFailsLater
<1>b. \A g \in Entries : Quiet(g)' <=> Quiet(g)
  BY DEF IInv, Quiet, StartFailsLater
<1>1. ASSUME NEW u \in Threads PROVE ControlOf(u)'
  BY DEF IInv, StartFailsLater, Control, ControlOf, Stopping
<1>2. Locks'
  BY DEF IInv, StartFailsLater, Control, ControlOf, Locks, HoldsMutex, HoldsLifecycle, Stopping
<1>3. ASSUME NEW f \in Entries PROVE EntryState(f)'
  BY <1>a DEF IInv, StartFailsLater, Control, ControlOf, Locks, HoldsMutex, Stopping, EntryStates, EntryState, Starts, StartOf, Loops, LoopOf, Quiet
<1>4. ASSUME NEW u \in Threads, NEW f \in Entries, TearingDown(u, f)'
      PROVE  Teardown(u, f)'
  <2>1. TearingDown(u, f) /\ Teardown(u, f)
    BY <1>a, <1>4 DEF IInv, Teardowns
  <2>2. \A w \in Threads : TearingDown(w, f)' => u = w
    BY <1>a, <2>1 DEF Teardown
  <2> QED
    BY <2>1, <2>2 DEF IInv, Teardown, TearingDown, StartFailsLater, Control, ControlOf, EntryStates, EntryState, Starts, StartOf, Loops, LoopOf, Quiet
<1>5. ASSUME NEW u \in Threads PROVE StartOf(u)'
  BY DEF IInv, StartFailsLater, Control, ControlOf, Locks, HoldsMutex, Stopping, EntryStates, EntryState, Teardowns, Teardown, Starts, StartOf, TearingDown, Quiet
<1>6. ASSUME NEW u \in Threads PROVE LoopOf(u)'
  BY DEF IInv, StartFailsLater, Control, ControlOf, Locks, HoldsMutex, HoldsLifecycle, Stopping, EntryStates, EntryState, Starts, StartOf, Loops, LoopOf, Outsiders, Quiet
<1>7. Outsiders'
  BY DEF IInv, StartFailsLater, Control, ControlOf, Locks, HoldsMutex, HoldsLifecycle, Stopping, EntryStates, EntryState, Starts, StartOf, Outsiders, Progress, ProgressOf, Quiet
<1>8. ASSUME NEW u \in Threads PROVE ProgressOf(u)'
  BY <1>a, <1>b DEF IInv, StartFailsLater, Control, ControlOf, Locks, HoldsMutex, HoldsLifecycle, Stopping, EntryStates, EntryState, Starts, StartOf, Loops, LoopOf, Outsiders, Progress, ProgressOf
<1>9. /\ running' => \A f \in entries' : started'[f]
      /\ lifecycle' = NoThread /\ ~running' => \A f \in entries' : Quiet(f)'
  BY SMTT(30), <1>a, <1>b DEF IInv, StartFailsLater, Control, ControlOf, Locks, HoldsMutex, HoldsLifecycle, Stopping, EntryStates, EntryState, Starts, StartOf, Progress, ProgressOf
<1> QED
  BY <1>0, <1>1, <1>2, <1>3, <1>4, <1>5, <1>6, <1>7, <1>8, <1>9 DEF IInv, Control, EntryStates, Teardowns, Starts, Loops, Progress

\* SinkStarts keeps every part of the inductive invariant.
LEMMA SinkStartsStep ==
  ASSUME IInv, NEW t \in Threads, SinkStarts(t) PROVE IInv'
<1> USE Sorts DEF TypeOK, Goto, Return, Call, Home, lockVars, tableVars, queueVars, entryVars
<1>0. TypeOK'
  BY SinkStartsType DEF IInv
<1>c. cur[t] \in Entries /\ cur[t] # t /\ pc[cur[t]] = "off"
  BY DEF IInv, SinkStarts, Control, ControlOf, EntryStates, EntryState, Starts, StartOf, Quiet
<1>a. \A w \in Threads, g \in Entries : TearingDown(w, g)' <=> TearingDown(w, g)
  BY <1>c DEF IInv, Control, ControlOf, TearingDown, SinkStarts, Launch
<1>1. ASSUME NEW u \in Threads PROVE ControlOf(u)'
  BY ZenonT(30), <1>c DEF IInv, SinkStarts, Launch, Control, ControlOf, Stopping
<1>2. Locks'
  BY <1>c DEF IInv, SinkStarts, Launch, Control, ControlOf, Locks, HoldsMutex, HoldsLifecycle, Stopping
<1>3. ASSUME NEW f \in Entries PROVE EntryState(f)'
  BY SMTT(30), <1>c, <1>a DEF IInv, SinkStarts, Launch, Control, ControlOf, Locks, HoldsMutex, Stopping, EntryStates, EntryState, Starts, StartOf, Loops, LoopOf, Quiet
<1>4. ASSUME NEW u \in Threads, NEW f \in Entries, TearingDown(u, f)'
      PROVE  Teardown(u, f)'
  <2>1. TearingDown(u, f) /\ Teardown(u, f)
    BY <1>a, <1>4 DEF IInv, Teardowns
  <2>2. \A w \in Threads : TearingDown(w, f)' => u = w
    BY <1>a, <2>1 DEF Teardown
  <2> QED
    BY ZenonT(30), <2>1, <2>2, <1>c DEF IInv, Teardown, TearingDown, SinkStarts, Launch, Control, ControlOf, EntryStates, EntryState, Starts, StartOf, Loops, LoopOf, Quiet
<1>5. ASSUME NEW u \in Threads PROVE StartOf(u)'
  BY SMTT(30), <1>c DEF IInv, SinkStarts, Launch, Control, ControlOf, Locks, HoldsMutex, Stopping, EntryStates, EntryState, Teardowns, Teardown, Starts, StartOf, TearingDown, Quiet
<1>6. ASSUME NEW u \in Threads PROVE LoopOf(u)'
  BY SMTT(30), <1>c DEF IInv, SinkStarts, Launch, Control, ControlOf, Locks, HoldsMutex, HoldsLifecycle, Stopping, EntryStates, EntryState, Starts, StartOf, Loops, LoopOf, Outsiders, Quiet
<1>7. Outsiders'
  BY <1>c DEF IInv, SinkStarts, Launch, Control, ControlOf, Locks, HoldsMutex, HoldsLifecycle, Stopping, EntryStates, EntryState, Starts, StartOf, Outsiders, Progress, ProgressOf, Quiet
<1>8. ASSUME NEW u \in Threads PROVE ProgressOf(u)'
  BY SMTT(30), <1>c, <1>a DEF IInv, SinkStarts, Launch, Control, ControlOf, Locks, HoldsMutex, HoldsLifecycle, Stopping, EntryStates, EntryState, Starts, StartOf, Loops, LoopOf, Outsiders, Progress, ProgressOf, Quiet
<1>9. /\ running' => \A f \in entries' : started'[f]
      /\ lifecycle' = NoThread /\ ~running' => \A f \in entries' : Quiet(f)'
  BY <1>c, <1>a DEF IInv, SinkStarts, Launch, Control, ControlOf, Locks, HoldsMutex, HoldsLifecycle, Stopping, EntryStates, EntryState, Starts, StartOf, Progress, ProgressOf, Quiet
<1> QED
  BY <1>0, <1>1, <1>2, <1>3, <1>4, <1>5, <1>6, <1>7, <1>8, <1>9 DEF IInv, Control, EntryStates, Teardowns, Starts, Loops, Progress

\* SinkFails keeps every part of the inductive invariant.
LEMMA SinkFailsStep ==
  ASSUME IInv, NEW t \in Threads, SinkFails(t) PROVE IInv'
<1> USE Sorts DEF TypeOK, Goto, Return, Call, Home, lockVars, tableVars, queueVars, entryVars
<1>0. TypeOK'
  BY SinkFailsType DEF IInv
<1>a. \A w \in Threads, g \in Entries : TearingDown(w, g)' <=> TearingDown(w, g)
  BY DEF IInv, Control, ControlOf, TearingDown, SinkFails
<1>b. \A g \in Entries : Quiet(g)' <=> Quiet(g)
  BY DEF IInv, Quiet, SinkFails
<1>1. ASSUME NEW u \in Threads PROVE ControlOf(u)'
  BY DEF IInv, SinkFails, Control, ControlOf, Stopping
<1>2. Locks'
  BY DEF IInv, SinkFails, Control, ControlOf, Locks, HoldsMutex, HoldsLifecycle, Stopping
<1>3. ASSUME NEW f \in Entries PROVE EntryState(f)'
  BY <1>a DEF IInv, SinkFails, Control, ControlOf, Locks, HoldsMutex, Stopping, EntryStates, EntryState, Starts, StartOf, Loops, LoopOf, Quiet
<1>4. ASSUME NEW u \in Threads, NEW f \in Entries, TearingDown(u, f)'
      PROVE  Teardown(u, f)'
  <2>1. TearingDown(u, f) /\ Teardown(u, f)
    BY <1>a, <1>4 DEF IInv, Teardowns
  <2>2. \A w \in Threads : TearingDown(w, f)' => u = w
    BY <1>a, <2>1 DEF Teardown
  <2> QED
    BY <2>1, <2>2 DEF IInv, Teardown, TearingDown, SinkFails, Control, ControlOf, EntryStates, EntryState, Starts, StartOf, Loops, LoopOf, Quiet
<1>5. ASSUME NEW u \in Threads PROVE StartOf(u)'
  BY DEF IInv, SinkFails, Control, ControlOf, Locks, HoldsMutex, Stopping, EntryStates, EntryState, Teardowns, Teardown, Starts, StartOf, TearingDown, Quiet
<1>6. ASSUME NEW u \in Threads PROVE LoopOf(u)'
  BY DEF IInv, SinkFails, Control, ControlOf, Locks, HoldsMutex, HoldsLifecycle, Stopping, EntryStates, EntryState, Starts, StartOf, Loops, LoopOf, Outsiders, Quiet
<1>7. Outsiders'
  BY DEF IInv, SinkFails, Control, ControlOf, Locks, HoldsMutex, HoldsLifecycle, Stopping, EntryStates, EntryState, Starts, StartOf, Outsiders, Progress, ProgressOf, Quiet
<1>8. ASSUME NEW u \in Threads PROVE ProgressOf(u)'
  BY <1>a, <1>b DEF IInv, SinkFails, Control, ControlOf, Locks, HoldsMutex, HoldsLifecycle, Stopping, EntryStates, EntryState, Starts, StartOf, Loops, LoopOf, Outsiders, Progress, ProgressOf
<1>9. /\ running' => \A f \in entries' : started'[f]
      /\ lifecycle' = NoThread /\ ~running' => \A f \in entries' : Quiet(f)'
  BY <1>a, <1>b DEF IInv, SinkFails, Control, ControlOf, Locks, HoldsMutex, HoldsLifecycle, Stopping, EntryStates, EntryState, Starts, StartOf, Progress, ProgressOf
<1> QED
  BY <1>0, <1>1, <1>2, <1>3, <1>4, <1>5, <1>6, <1>7, <1>8, <1>9 DEF IInv, Control, EntryStates, Teardowns, Starts, Loops, Progress

\* Remove keeps every part of the inductive invariant.
LEMMA RemoveStep ==
  ASSUME IInv, NEW t \in Threads, NEW e \in Entries, Remove(t, e) PROVE IInv'
<1> USE Sorts DEF TypeOK, Goto, Return, Call, Home, lockVars, tableVars, queueVars, entryVars
<1>0. TypeOK'
  BY RemoveType DEF IInv
<1>a. \A w \in Threads, g \in Entries : TearingDown(w, g)' <=> TearingDown(w, g)
  BY DEF IInv, Control, ControlOf, TearingDown, Remove
<1>b. \A g \in Entries : Quiet(g)' <=> Quiet(g)
  BY DEF IInv, Quiet, Remove
<1>1. ASSUME NEW u \in Threads PROVE ControlOf(u)'
  BY SMTT(30) DEF IInv, Remove, Control, ControlOf, Stopping
<1>2. Locks'
  BY DEF IInv, Remove, Control, ControlOf, Locks, HoldsMutex, HoldsLifecycle, Stopping
<1>3. ASSUME NEW f \in Entries PROVE EntryState(f)'
  BY SMTT(30), <1>a DEF IInv, Remove, Control, ControlOf, Locks, HoldsMutex, Stopping, EntryStates, EntryState, Starts, StartOf, Loops, LoopOf, Quiet
<1>4. ASSUME NEW u \in Threads, NEW f \in Entries, TearingDown(u, f)'
      PROVE  Teardown(u, f)'
  <2>1. TearingDown(u, f) /\ Teardown(u, f)
    BY <1>a, <1>4 DEF IInv, Teardowns
  <2>2. \A w \in Threads : TearingDown(w, f)' => u = w
    BY <1>a, <2>1 DEF Teardown
  <2> QED
    BY <2>1, <2>2 DEF IInv, Teardown, TearingDown, Remove, Control, ControlOf, EntryStates, EntryState, Starts, StartOf, Loops, LoopOf, Quiet
<1>5. ASSUME NEW u \in Threads PROVE StartOf(u)'
  BY DEF IInv, Remove, Control, ControlOf, Locks, HoldsMutex, Stopping, EntryStates, EntryState, Teardowns, Teardown, Starts, StartOf, TearingDown, Quiet
<1>6. ASSUME NEW u \in Threads PROVE LoopOf(u)'
  BY DEF IInv, Remove, Control, ControlOf, Locks, HoldsMutex, HoldsLifecycle, Stopping, EntryStates, EntryState, Starts, StartOf, Loops, LoopOf, Outsiders, Quiet
<1>7. Outsiders'
  BY DEF IInv, Remove, Control, ControlOf, Locks, HoldsMutex, HoldsLifecycle, Stopping, EntryStates, EntryState, Starts, StartOf, Outsiders, Progress, ProgressOf, Quiet
<1>8. ASSUME NEW u \in Threads PROVE ProgressOf(u)'
  BY SMTT(30), <1>a, <1>b DEF IInv, Remove, Control, ControlOf, Locks, HoldsMutex, HoldsLifecycle, Stopping, EntryStates, EntryState, Starts, StartOf, Loops, LoopOf, Outsiders, Progress, ProgressOf
<1>9. /\ running' => \A f \in entries' : started'[f]
      /\ lifecycle' = NoThread /\ ~running' => \A f \in entries' : Quiet(f)'
  BY <1>a, <1>b DEF IInv, Remove, Control, ControlOf, Locks, HoldsMutex, HoldsLifecycle, Stopping, EntryStates, EntryState, Starts, StartOf, Progress, ProgressOf
<1> QED
  BY <1>0, <1>1, <1>2, <1>3, <1>4, <1>5, <1>6, <1>7, <1>8, <1>9 DEF IInv, Control, EntryStates, Teardowns, Starts, Loops, Progress

\* RemoveRefused keeps every part of the inductive invariant.
LEMMA RemoveRefusedStep ==
  ASSUME IInv, NEW t \in Threads, NEW e \in Entries, RemoveRefused(t, e) PROVE IInv'
<1> USE Sorts DEF TypeOK, Goto, Return, Call, Home, lockVars, tableVars, queueVars, entryVars
<1>0. TypeOK'
  BY RemoveRefusedType DEF IInv
<1>a. \A w \in Threads, g \in Entries : TearingDown(w, g)' <=> TearingDown(w, g)
  BY DEF IInv, Control, ControlOf, TearingDown, RemoveRefused
<1>b. \A g \in Entries : Quiet(g)' <=> Quiet(g)
  BY DEF IInv, Quiet, RemoveRefused
<1>1. ASSUME NEW u \in Threads PROVE ControlOf(u)'
  BY SMTT(30) DEF IInv, RemoveRefused, Control, ControlOf, Stopping
<1>2. Locks'
  BY SMTT(30) DEF IInv, RemoveRefused, Control, ControlOf, Locks, HoldsMutex, HoldsLifecycle, Stopping
<1>3. ASSUME NEW f \in Entries PROVE EntryState(f)'
  BY SMTT(30), <1>a DEF IInv, RemoveRefused, Control, ControlOf, Locks, HoldsMutex, Stopping, EntryStates, EntryState, Starts, StartOf, Loops, LoopOf, Quiet
<1>4. ASSUME NEW u \in Threads, NEW f \in Entries, TearingDown(u, f)'
      PROVE  Teardown(u, f)'
  <2>1. TearingDown(u, f) /\ Teardown(u, f)
    BY <1>a, <1>4 DEF IInv, Teardowns
  <2>2. \A w \in Threads : TearingDown(w, f)' => u = w
    BY <1>a, <2>1 DEF Teardown
  <2> QED
    BY <2>1, <2>2 DEF IInv, Teardown, TearingDown, RemoveRefused, Control, ControlOf, EntryStates, EntryState, Starts, StartOf, Loops, LoopOf, Quiet
<1>5. ASSUME NEW u \in Threads PROVE StartOf(u)'
  BY DEF IInv, RemoveRefused, Control, ControlOf, Locks, HoldsMutex, Stopping, EntryStates, EntryState, Teardowns, Teardown, Starts, StartOf, TearingDown, Quiet
<1>6. ASSUME NEW u \in Threads PROVE LoopOf(u)'
  BY SMTT(30) DEF IInv, RemoveRefused, Control, ControlOf, Locks, HoldsMutex, HoldsLifecycle, Stopping, EntryStates, EntryState, Starts, StartOf, Loops, LoopOf, Outsiders, Quiet
<1>7. Outsiders'
  BY DEF IInv, RemoveRefused, Control, ControlOf, Locks, HoldsMutex, HoldsLifecycle, Stopping, EntryStates, EntryState, Starts, StartOf, Outsiders, Progress, ProgressOf, Quiet
<1>8. ASSUME NEW u \in Threads PROVE ProgressOf(u)'
  BY SMTT(30), <1>a, <1>b DEF IInv, RemoveRefused, Control, ControlOf, Locks, HoldsMutex, HoldsLifecycle, Stopping, EntryStates, EntryState, Starts, StartOf, Loops, LoopOf, Outsiders, Progress, ProgressOf
<1>9. /\ running' => \A f \in entries' : started'[f]
      /\ lifecycle' = NoThread /\ ~running' => \A f \in entries' : Quiet(f)'
  BY <1>a, <1>b DEF IInv, RemoveRefused, Control, ControlOf, Locks, HoldsMutex, HoldsLifecycle, Stopping, EntryStates, EntryState, Starts, StartOf, Progress, ProgressOf
<1> QED
  BY <1>0, <1>1, <1>2, <1>3, <1>4, <1>5, <1>6, <1>7, <1>8, <1>9 DEF IInv, Control, EntryStates, Teardowns, Starts, Loops, Progress

\* Stop keeps every part of the inductive invariant.
LEMMA StopStep ==
  ASSUME IInv, NEW t \in Threads, Stop(t) PROVE IInv'
<1> USE Sorts DEF TypeOK, Goto, Return, Call, Home, lockVars, tableVars, queueVars, entryVars
<1>0. TypeOK'
  BY StopType DEF IInv
<1>a. \A w \in Threads, g \in Entries : TearingDown(w, g)' <=> TearingDown(w, g)
  BY DEF IInv, Control, ControlOf, TearingDown, Stop
<1>b. \A g \in Entries : Quiet(g)' <=> Quiet(g)
  BY DEF IInv, Quiet, Stop
<1>1. ASSUME NEW u \in Threads PROVE ControlOf(u)'
  BY DEF IInv, Stop, Control, ControlOf, Stopping
<1>2. Locks'
  BY DEF IInv, Stop, Control, ControlOf, Locks, HoldsMutex, HoldsLifecycle, Stopping
<1>3. ASSUME NEW f \in Entries PROVE EntryState(f)'
  BY <1>a DEF IInv, Stop, Control, ControlOf, Locks, HoldsMutex, Stopping, EntryStates, EntryState, Starts, StartOf, Loops, LoopOf, Quiet
<1>4. ASSUME NEW u \in Threads, NEW f \in Entries, TearingDown(u, f)'
      PROVE  Teardown(u, f)'
  <2>1. TearingDown(u, f) /\ Teardown(u, f)
    BY <1>a, <1>4 DEF IInv, Teardowns
  <2>2. \A w \in Threads : TearingDown(w, f)' => u = w
    BY <1>a, <2>1 DEF Teardown
  <2> QED
    BY <2>1, <2>2 DEF IInv, Teardown, TearingDown, Stop, Control, ControlOf, EntryStates, EntryState, Starts, StartOf, Loops, LoopOf, Quiet
<1>5. ASSUME NEW u \in Threads PROVE StartOf(u)'
  BY DEF IInv, Stop, Control, ControlOf, Locks, HoldsMutex, Stopping, EntryStates, EntryState, Teardowns, Teardown, Starts, StartOf, TearingDown, Quiet
<1>6. ASSUME NEW u \in Threads PROVE LoopOf(u)'
  BY DEF IInv, Stop, Control, ControlOf, Locks, HoldsMutex, HoldsLifecycle, Stopping, EntryStates, EntryState, Starts, StartOf, Loops, LoopOf, Outsiders, Quiet
<1>7. Outsiders'
  BY DEF IInv, Stop, Control, ControlOf, Locks, HoldsMutex, HoldsLifecycle, Stopping, EntryStates, EntryState, Starts, StartOf, Outsiders, Progress, ProgressOf, Quiet
<1>8. ASSUME NEW u \in Threads PROVE ProgressOf(u)'
  BY <1>a, <1>b DEF IInv, Stop, Control, ControlOf, Locks, HoldsMutex, HoldsLifecycle, Stopping, EntryStates, EntryState, Starts, StartOf, Loops, LoopOf, Outsiders, Progress, ProgressOf
<1>9. /\ running' => \A f \in entries' : started'[f]
      /\ lifecycle' = NoThread /\ ~running' => \A f \in entries' : Quiet(f)'
  BY <1>a, <1>b DEF IInv, Stop, Control, ControlOf, Locks, HoldsMutex, HoldsLifecycle, Stopping, EntryStates, EntryState, Starts, StartOf, Progress, ProgressOf
<1> QED
  BY <1>0, <1>1, <1>2, <1>3, <1>4, <1>5, <1>6, <1>7, <1>8, <1>9 DEF IInv, Control, EntryStates, Teardowns, Starts, Loops, Progress

\* StopRefused keeps every part of the inductive invariant.
LEMMA StopRefusedStep ==
  ASSUME IInv, NEW t \in Threads, StopRefused(t) PROVE IInv'
<1> USE Sorts DEF TypeOK, Goto, Return, Call, Home, lockVars, tableVars, queueVars, entryVars
<1>0. TypeOK'
  BY StopRefusedType DEF IInv
<1>a. \A w \in Threads, g \in Entries : TearingDown(w, g)' <=> TearingDown(w, g)
  BY DEF IInv, Control, ControlOf, TearingDown, StopRefused
<1>b. \A g \in Entries : Quiet(g)' <=> Quiet(g)
  BY DEF IInv, Quiet, StopRefused
<1>1. ASSUME NEW u \in Threads PROVE ControlOf(u)'
  BY DEF IInv, StopRefused, Control, ControlOf, Stopping
<1>2. Locks'
  BY DEF IInv, StopRefused, Control, ControlOf, Locks, HoldsMutex, HoldsLifecycle, Stopping
<1>3. ASSUME NEW f \in Entries PROVE EntryState(f)'
  BY <1>a DEF IInv, StopRefused, Control, ControlOf, Locks, HoldsMutex, Stopping, EntryStates, EntryState, Starts, StartOf, Loops, LoopOf, Quiet
<1>4. ASSUME NEW u \in Threads, NEW f \in Entries, TearingDown(u, f)'
      PROVE  Teardown(u, f)'
  <2>1. TearingDown(u, f) /\ Teardown(u, f)
    BY <1>a, <1>4 DEF IInv, Teardowns
  <2>2. \A w \in Threads : TearingDown(w, f)' => u = w
    BY <1>a, <2>1 DEF Teardown
  <2> QED
    BY <2>1, <2>2 DEF IInv, Teardown, TearingDown, StopRefused, Control, ControlOf, EntryStates, EntryState, Starts, StartOf, Loops, LoopOf, Quiet
<1>5. ASSUME NEW u \in Threads PROVE StartOf(u)'
  BY DEF IInv, StopRefused, Control, ControlOf, Locks, HoldsMutex, Stopping, EntryStates, EntryState, Teardowns, Teardown, Starts, StartOf, TearingDown, Quiet
<1>6. ASSUME NEW u \in Threads PROVE LoopOf(u)'
  BY DEF IInv, StopRefused, Control, ControlOf, Locks, HoldsMutex, HoldsLifecycle, Stopping, EntryStates, EntryState, Starts, StartOf, Loops, LoopOf, Outsiders, Quiet
<1>7. Outsiders'
  BY DEF IInv, StopRefused, Control, ControlOf, Locks, HoldsMutex, HoldsLifecycle, Stopping, EntryStates, EntryState, Starts, StartOf, Outsiders, Progress, ProgressOf, Quiet
<1>8. ASSUME NEW u \in Threads PROVE ProgressOf(u)'
  BY <1>a, <1>b DEF IInv, StopRefused, Control, ControlOf, Locks, HoldsMutex, HoldsLifecycle, Stopping, EntryStates, EntryState, Starts, StartOf, Loops, LoopOf, Outsiders, Progress, ProgressOf
<1>9. /\ running' => \A f \in entries' : started'[f]
      /\ lifecycle' = NoThread /\ ~running' => \A f \in entries' : Quiet(f)'
  BY <1>a, <1>b DEF IInv, StopRefused, Control, ControlOf, Locks, HoldsMutex, HoldsLifecycle, Stopping, EntryStates, EntryState, Starts, StartOf, Progress, ProgressOf
<1> QED
  BY <1>0, <1>1, <1>2, <1>3, <1>4, <1>5, <1>6, <1>7, <1>8, <1>9 DEF IInv, Control, EntryStates, Teardowns, Starts, Loops, Progress

\* StopLock keeps every part of the inductive invariant.
LEMMA StopLockStep ==
  ASSUME IInv, NEW t \in Threads, StopLock(t) PROVE IInv'
<1> USE Sorts DEF TypeOK, Goto, Return, Call, Home, lockVars, tableVars, queueVars, entryVars
<1>0. TypeOK'
  BY StopLockType DEF IInv
<1>a. \A w \in Threads, g \in Entries : TearingDown(w, g)' <=> TearingDown(w, g)
  BY DEF IInv, Control, ControlOf, TearingDown, StopLock
<1>b. \A g \in Entries : Quiet(g)' <=> Quiet(g)
  BY DEF IInv, Quiet, StopLock
<1>1. ASSUME NEW u \in Threads PROVE ControlOf(u)'
  BY DEF IInv, StopLock, Control, ControlOf, Stopping
<1>2. Locks'
  BY DEF IInv, StopLock, Control, ControlOf, Locks, HoldsMutex, HoldsLifecycle, Stopping
<1>3. ASSUME NEW f \in Entries PROVE EntryState(f)'
  BY <1>a DEF IInv, StopLock, Control, ControlOf, Locks, HoldsMutex, Stopping, EntryStates, EntryState, Starts, StartOf, Loops, LoopOf, Quiet
<1>4. ASSUME NEW u \in Threads, NEW f \in Entries, TearingDown(u, f)'
      PROVE  Teardown(u, f)'
  <2>1. TearingDown(u, f) /\ Teardown(u, f)
    BY <1>a, <1>4 DEF IInv, Teardowns
  <2>2. \A w \in Threads : TearingDown(w, f)' => u = w
    BY <1>a, <2>1 DEF Teardown
  <2> QED
    BY <2>1, <2>2 DEF IInv, Teardown, TearingDown, StopLock, Control, ControlOf, EntryStates, EntryState, Starts, StartOf, Loops, LoopOf, Quiet
<1>5. ASSUME NEW u \in Threads PROVE StartOf(u)'
  BY DEF IInv, StopLock, Control, ControlOf, Locks, HoldsMutex, Stopping, EntryStates, EntryState, Teardowns, Teardown, Starts, StartOf, TearingDown, Quiet
<1>6. ASSUME NEW u \in Threads PROVE LoopOf(u)'
  BY DEF IInv, StopLock, Control, ControlOf, Locks, HoldsMutex, HoldsLifecycle, Stopping, EntryStates, EntryState, Starts, StartOf, Loops, LoopOf, Outsiders, Quiet
<1>7. Outsiders'
  BY DEF IInv, StopLock, Control, ControlOf, Locks, HoldsMutex, HoldsLifecycle, Stopping, EntryStates, EntryState, Starts, StartOf, Outsiders, Progress, ProgressOf, Quiet
<1>8. ASSUME NEW u \in Threads PROVE ProgressOf(u)'
  BY <1>a, <1>b DEF IInv, StopLock, Control, ControlOf, Locks, HoldsMutex, HoldsLifecycle, Stopping, EntryStates, EntryState, Starts, StartOf, Loops, LoopOf, Outsiders, Progress, ProgressOf
<1>9. /\ running' => \A f \in entries' : started'[f]
      /\ lifecycle' = NoThread /\ ~running' => \A f \in entries' : Quiet(f)'
  BY <1>a, <1>b DEF IInv, StopLock, Control, ControlOf, Locks, HoldsMutex, HoldsLifecycle, Stopping, EntryStates, EntryState, Starts, StartOf, Progress, ProgressOf
<1> QED
  BY <1>0, <1>1, <1>2, <1>3, <1>4, <1>5, <1>6, <1>7, <1>8, <1>9 DEF IInv, Control, EntryStates, Teardowns, Starts, Loops, Progress

\* StopFanout keeps every part of the inductive invariant.
LEMMA StopFanoutStep ==
  ASSUME IInv, NEW t \in Threads, StopFanout(t) PROVE IInv'
<1> USE Sorts DEF TypeOK, Goto, Return, Call, Home, lockVars, tableVars, queueVars, entryVars
<1>0. TypeOK'
  BY StopFanoutType DEF IInv
<1>a. \A w \in Threads, g \in Entries : TearingDown(w, g)' <=> TearingDown(w, g)
  BY DEF IInv, Control, ControlOf, TearingDown, StopFanout
<1>b. \A g \in Entries : Quiet(g)' <=> Quiet(g)
  BY DEF IInv, Quiet, StopFanout
<1>1. ASSUME NEW u \in Threads PROVE ControlOf(u)'
  BY DEF IInv, StopFanout, Control, ControlOf, Stopping
<1>2. Locks'
  BY DEF IInv, StopFanout, Control, ControlOf, Locks, HoldsMutex, HoldsLifecycle, Stopping
<1>3. ASSUME NEW f \in Entries PROVE EntryState(f)'
  BY <1>a DEF IInv, StopFanout, Control, ControlOf, Locks, HoldsMutex, Stopping, EntryStates, EntryState, Starts, StartOf, Loops, LoopOf, Quiet
<1>4. ASSUME NEW u \in Threads, NEW f \in Entries, TearingDown(u, f)'
      PROVE  Teardown(u, f)'
  <2>1. TearingDown(u, f) /\ Teardown(u, f)
    BY <1>a, <1>4 DEF IInv, Teardowns
  <2>2. \A w \in Threads : TearingDown(w, f)' => u = w
    BY <1>a, <2>1 DEF Teardown
  <2> QED
    BY <2>1, <2>2 DEF IInv, Teardown, TearingDown, StopFanout, Control, ControlOf, EntryStates, EntryState, Starts, StartOf, Loops, LoopOf, Quiet
<1>5. ASSUME NEW u \in Threads PROVE StartOf(u)'
  BY DEF IInv, StopFanout, Control, ControlOf, Locks, HoldsMutex, Stopping, EntryStates, EntryState, Teardowns, Teardown, Starts, StartOf, TearingDown, Quiet
<1>6. ASSUME NEW u \in Threads PROVE LoopOf(u)'
  BY DEF IInv, StopFanout, Control, ControlOf, Locks, HoldsMutex, HoldsLifecycle, Stopping, EntryStates, EntryState, Starts, StartOf, Loops, LoopOf, Outsiders, Quiet
<1>7. Outsiders'
  BY DEF IInv, StopFanout, Control, ControlOf, Locks, HoldsMutex, HoldsLifecycle, Stopping, EntryStates, EntryState, Starts, StartOf, Outsiders, Progress, ProgressOf, Quiet
<1>8. ASSUME NEW u \in Threads PROVE ProgressOf(u)'
  BY <1>a, <1>b DEF IInv, StopFanout, Control, ControlOf, Locks, HoldsMutex, HoldsLifecycle, Stopping, EntryStates, EntryState, Starts, StartOf, Loops, LoopOf, Outsiders, Progress, ProgressOf
<1>9. /\ running' => \A f \in entries' : started'[f]
      /\ lifecycle' = NoThread /\ ~running' => \A f \in entries' : Quiet(f)'
  BY <1>a, <1>b DEF IInv, StopFanout, Control, ControlOf, Locks, HoldsMutex, HoldsLifecycle, Stopping, EntryStates, EntryState, Starts, StartOf, Progress, ProgressOf
<1> QED
  BY <1>0, <1>1, <1>2, <1>3, <1>4, <1>5, <1>6, <1>7, <1>8, <1>9 DEF IInv, Control, EntryStates, Teardowns, Starts, Loops, Progress

\* StopEntry keeps every part of the inductive invariant.
LEMMA StopEntryStep ==
  ASSUME IInv, NEW t \in Threads, NEW e \in Entries, StopEntry(t, e) PROVE IInv'
<1> USE Sorts DEF TypeOK, Goto, Return, Call, Home, lockVars, tableVars, queueVars, entryVars
<1>0. TypeOK'
  BY StopEntryType DEF IInv
<1>c. e \in todo[t]
  BY DEF StopEntry, IsNext, IsFirst, IsLast
<1>d. \A g \in Entries \ {e} : Quiet(g)' <=> Quiet(g)
  BY DEF IInv, StopEntry, Quiet
<1>e. lifecycle = NoThread => e \notin entries
  <2>1. SUFFICES ASSUME lifecycle = NoThread PROVE e \notin entries
    OBVIOUS
  <2>2. op[t] = "remove"
    <3>1. pc[t] = "stopNext" /\ op[t] \in {"start", "stop", "remove"}
      BY DEF IInv, StopEntry, Control, ControlOf, Stopping
    <3>2. ~HoldsLifecycle(t)
      BY <2>1 DEF IInv, Locks
    <3> QED
      BY <3>1, <3>2 DEF HoldsLifecycle, Stopping
  <2>3. todo[t] \cap entries = {}
    BY <2>2 DEF IInv, StopEntry, Loops, LoopOf, Stopping
  <2> QED
    BY <1>c, <2>3
<1>1. ASSUME NEW u \in Threads PROVE ControlOf(u)'
  BY DEF IInv, StopEntry, IsNext, IsFirst, IsLast, Control, ControlOf, Stopping
<1>2. Locks'
  BY DEF IInv, StopEntry, IsNext, IsFirst, IsLast, Control, ControlOf, Locks, HoldsMutex, HoldsLifecycle, Stopping
<1>3. ASSUME NEW f \in Entries PROVE EntryState(f)'
  BY SMTT(30) DEF IInv, StopEntry, IsNext, IsFirst, IsLast, Control, ControlOf, Locks, HoldsMutex, Stopping, EntryStates, EntryState, Teardowns, Teardown, Starts, StartOf, Loops, LoopOf, TearingDown, Quiet
<1>4. ASSUME NEW u \in Threads, NEW f \in Entries, TearingDown(u, f)'
      PROVE  Teardown(u, f)'
  BY SMTT(30), <1>4 DEF IInv, StopEntry, IsNext, IsFirst, IsLast, Control, ControlOf, EntryStates, EntryState, Teardowns, Teardown, Starts, StartOf, Loops, LoopOf, TearingDown, Quiet, Stopping
<1>5. ASSUME NEW u \in Threads PROVE StartOf(u)'
  BY DEF IInv, StopEntry, IsNext, IsFirst, IsLast, Control, ControlOf, Locks, HoldsMutex, Stopping, EntryStates, EntryState, Teardowns, Teardown, Starts, StartOf, TearingDown, Quiet
<1>6. ASSUME NEW u \in Threads PROVE LoopOf(u)'
  BY DEF IInv, StopEntry, IsNext, IsFirst, IsLast, Control, ControlOf, Locks, HoldsMutex, HoldsLifecycle, Stopping, EntryStates, EntryState, Starts, StartOf, Loops, LoopOf, Outsiders, Quiet
<1>7. Outsiders'
  BY DEF IInv, StopEntry, IsNext, IsFirst, IsLast, Control, ControlOf, Locks, HoldsMutex, HoldsLifecycle, Stopping, EntryStates, EntryState, Starts, StartOf, Outsiders, Progress, ProgressOf, Quiet
<1>8. ASSUME NEW u \in Threads PROVE ProgressOf(u)'
  BY SMTT(30) DEF IInv, StopEntry, IsNext, IsFirst, IsLast, Control, ControlOf, Locks, HoldsMutex, HoldsLifecycle, Stopping, EntryStates, EntryState, Starts, StartOf, Loops, LoopOf, Outsiders, Progress, ProgressOf, TearingDown, Quiet
<1>9. /\ running' => \A f \in entries' : started'[f]
      /\ lifecycle' = NoThread /\ ~running' => \A f \in entries' : Quiet(f)'
  <2>1. running' => \A f \in entries' : started'[f]
    BY DEF IInv, StopEntry, Progress, Control, ControlOf, Loops, LoopOf, ProgressOf,
       HoldsLifecycle, Stopping, IsNext, IsFirst, IsLast
  <2>2. lifecycle' = NoThread /\ ~running' => \A f \in entries' : Quiet(f)'
    BY <1>d, <1>e DEF IInv, StopEntry, Progress
  <2> QED
    BY <2>1, <2>2
<1> QED
  BY <1>0, <1>1, <1>2, <1>3, <1>4, <1>5, <1>6, <1>7, <1>8, <1>9 DEF IInv, Control, EntryStates, Teardowns, Starts, Loops, Progress

\* SkipEntry keeps every part of the inductive invariant.
LEMMA SkipEntryStep ==
  ASSUME IInv, NEW t \in Threads, NEW e \in Entries, SkipEntry(t, e) PROVE IInv'
<1> USE Sorts DEF TypeOK, Goto, Return, Call, Home, lockVars, tableVars, queueVars, entryVars
<1>0. TypeOK'
  BY SkipEntryType DEF IInv
<1>c. e \in todo[t]
  BY DEF SkipEntry, IsNext, IsFirst, IsLast
<1>d. HoldsLifecycle(t) /\ e \in entries => Quiet(e)
  <2>1. SUFFICES ASSUME HoldsLifecycle(t), e \in entries, NEW w \in Threads, TearingDown(w, e)
                 PROVE  FALSE
    BY DEF IInv, SkipEntry, EntryStates, EntryState
  <2>2. HoldsLifecycle(w)
    BY <2>1 DEF IInv, Teardowns, Teardown, TearingDown, Control, ControlOf, HoldsLifecycle, Stopping
  <2> QED
    BY <2>1, <2>2 DEF IInv, Locks, SkipEntry, TearingDown
<1>a. \A w \in Threads, g \in Entries : TearingDown(w, g)' <=> TearingDown(w, g)
  BY <1>c, <1>d DEF IInv, Control, ControlOf, TearingDown, SkipEntry, IsNext, IsFirst, IsLast
<1>b. \A g \in Entries : Quiet(g)' <=> Quiet(g)
  BY <1>c, <1>d DEF IInv, Quiet, SkipEntry, IsNext, IsFirst, IsLast
<1>1. ASSUME NEW u \in Threads PROVE ControlOf(u)'
  BY <1>c, <1>d DEF IInv, SkipEntry, IsNext, IsFirst, IsLast, Control, ControlOf, Stopping
<1>2. Locks'
  BY <1>c, <1>d DEF IInv, SkipEntry, IsNext, IsFirst, IsLast, Control, ControlOf, Locks, HoldsMutex, HoldsLifecycle, Stopping
<1>3. ASSUME NEW f \in Entries PROVE EntryState(f)'
  BY <1>c, <1>d, <1>a DEF IInv, SkipEntry, IsNext, IsFirst, IsLast, Control, ControlOf, Locks, HoldsMutex, Stopping, EntryStates, EntryState, Starts, StartOf, Loops, LoopOf, Quiet
<1>4. ASSUME NEW u \in Threads, NEW f \in Entries, TearingDown(u, f)'
      PROVE  Teardown(u, f)'
  <2>1. TearingDown(u, f) /\ Teardown(u, f)
    BY <1>a, <1>4 DEF IInv, Teardowns
  <2>2. \A w \in Threads : TearingDown(w, f)' => u = w
    BY <1>a, <2>1 DEF Teardown
  <2> QED
    BY <2>1, <2>2, <1>c, <1>d DEF IInv, Teardown, TearingDown, SkipEntry, IsNext, IsFirst, IsLast, Control, ControlOf, EntryStates, EntryState, Starts, StartOf, Loops, LoopOf, Quiet
<1>5. ASSUME NEW u \in Threads PROVE StartOf(u)'
  BY SMTT(30), <1>c, <1>d DEF IInv, SkipEntry, IsNext, IsFirst, IsLast, Control, ControlOf, Locks, HoldsMutex, Stopping, EntryStates, EntryState, Teardowns, Teardown, Starts, StartOf, TearingDown, Quiet
<1>6. ASSUME NEW u \in Threads PROVE LoopOf(u)'
  BY <1>c, <1>d DEF IInv, SkipEntry, IsNext, IsFirst, IsLast, Control, ControlOf, Locks, HoldsMutex, HoldsLifecycle, Stopping, EntryStates, EntryState, Starts, StartOf, Loops, LoopOf, Outsiders, Quiet
<1>7. Outsiders'
  BY <1>c, <1>d DEF IInv, SkipEntry, IsNext, IsFirst, IsLast, Control, ControlOf, Locks, HoldsMutex, HoldsLifecycle, Stopping, EntryStates, EntryState, Starts, StartOf, Outsiders, Progress, ProgressOf, Quiet
<1>8. ASSUME NEW u \in Threads PROVE ProgressOf(u)'
  BY SMTT(30), <1>c, <1>d, <1>a, <1>b DEF IInv, SkipEntry, IsNext, IsFirst, IsLast, Control, ControlOf, Locks, HoldsMutex, HoldsLifecycle, Stopping, EntryStates, EntryState, Starts, StartOf, Loops, LoopOf, Outsiders, Progress, ProgressOf
<1>9. /\ running' => \A f \in entries' : started'[f]
      /\ lifecycle' = NoThread /\ ~running' => \A f \in entries' : Quiet(f)'
  BY <1>c, <1>d, <1>a, <1>b DEF IInv, SkipEntry, IsNext, IsFirst, IsLast, Control, ControlOf, Locks, HoldsMutex, HoldsLifecycle, Stopping, EntryStates, EntryState, Starts, StartOf, Progress, ProgressOf
<1> QED
  BY <1>0, <1>1, <1>2, <1>3, <1>4, <1>5, <1>6, <1>7, <1>8, <1>9 DEF IInv, Control, EntryStates, Teardowns, Starts, Loops, Progress

\* Join keeps every part of the inductive invariant.
LEMMA JoinStep ==
  ASSUME IInv, NEW t \in Threads, Join(t) PROVE IInv'
<1> USE Sorts DEF TypeOK, Goto, Return, Call, Home, lockVars, tableVars, queueVars, entryVars
<1>0. TypeOK'
  BY JoinType DEF IInv
<1>c. /\ cur[t] \in Entries /\ cur[t] # t /\ TearingDown(t, cur[t])
      /\ Teardown(t, cur[t])
  BY DEF IInv, Join, Control, ControlOf, Teardowns, Teardown, TearingDown
<1>a. \A w \in Threads, g \in Entries : TearingDown(w, g)' <=> TearingDown(w, g)
  BY SMTT(30), <1>c DEF IInv, Control, ControlOf, TearingDown, Join
<1>b. \A g \in Entries : Quiet(g)' <=> Quiet(g)
  BY SMTT(30), <1>c DEF IInv, Join, Quiet, Teardown
<1>1. ASSUME NEW u \in Threads PROVE ControlOf(u)'
  BY <1>c DEF IInv, Join, Control, ControlOf, Stopping
<1>2. Locks'
  BY <1>c DEF IInv, Join, Control, ControlOf, Locks, HoldsMutex, HoldsLifecycle, Stopping
<1>3. ASSUME NEW f \in Entries PROVE EntryState(f)'
  BY <1>c, <1>a DEF IInv, Join, Control, ControlOf, Locks, HoldsMutex, Stopping, EntryStates, EntryState, Starts, StartOf, Loops, LoopOf, Quiet
<1>4. ASSUME NEW u \in Threads, NEW f \in Entries, TearingDown(u, f)'
      PROVE  Teardown(u, f)'
  <2>1. TearingDown(u, f) /\ Teardown(u, f)
    BY <1>a, <1>4 DEF IInv, Teardowns
  <2>2. \A w \in Threads : TearingDown(w, f)' => u = w
    BY <1>a, <2>1 DEF Teardown
  <2> QED
    BY SMTT(30), <2>1, <2>2, <1>c DEF IInv, Teardown, TearingDown, Join, Control, ControlOf, EntryStates, EntryState, Starts, StartOf, Loops, LoopOf, Quiet
<1>5. ASSUME NEW u \in Threads PROVE StartOf(u)'
  BY SMTT(30), <1>c DEF IInv, Join, Control, ControlOf, Locks, HoldsMutex, Stopping, EntryStates, EntryState, Teardowns, Teardown, Starts, StartOf, TearingDown, Quiet
<1>6. ASSUME NEW u \in Threads PROVE LoopOf(u)'
  BY SMTT(30), <1>c DEF IInv, Join, Control, ControlOf, Locks, HoldsMutex, HoldsLifecycle, Stopping, EntryStates, EntryState, Starts, StartOf, Loops, LoopOf, Outsiders, Quiet
<1>7. Outsiders'
  BY <1>c DEF IInv, Join, Control, ControlOf, Locks, HoldsMutex, HoldsLifecycle, Stopping, EntryStates, EntryState, Starts, StartOf, Outsiders, Progress, ProgressOf, Quiet
<1>8. ASSUME NEW u \in Threads PROVE ProgressOf(u)'
  <2>1. HoldsLifecycle(u)' <=> HoldsLifecycle(u)
    BY <1>c DEF IInv, Join, HoldsLifecycle, Stopping
  <2>2. CASE u = t
    BY <1>a, <1>b, <1>c, <2>1, <2>2 DEF IInv, Join, Stopping, Progress, ProgressOf
  <2>3. CASE u # t
    <3>1. /\ pc'[u] = pc[u]
          /\ UNCHANGED <<entries, running, started, cur, todo>>
      BY <1>c, <2>3 DEF IInv, Join
    <3>2. ProgressOf(u) /\ entries \subseteq Entries
      BY DEF IInv, Progress
    <3> QED
      <4>1. \A f \in entries : Quiet(f)' <=> Quiet(f)
        BY <1>b, <3>2
      <4>2. \A f \in entries : TearingDown(u, f)' <=> TearingDown(u, f)
        BY <1>a, <3>2
      <4>3. \A f \in todo[u] : Quiet(f)' <=> Quiet(f)
        BY <1>b DEF IInv
      <4> QED
        BY <2>1, <3>1, <3>2, <4>1, <4>2, <4>3 DEF ProgressOf, Stopping
  <2> QED
    BY <2>2, <2>3
<1>9. /\ running' => \A f \in entries' : started'[f]
      /\ lifecycle' = NoThread /\ ~running' => \A f \in entries' : Quiet(f)'
  BY <1>c, <1>a, <1>b DEF IInv, Join, Control, ControlOf, Locks, HoldsMutex, HoldsLifecycle, Stopping, EntryStates, EntryState, Starts, StartOf, Progress, ProgressOf
<1> QED
  BY <1>0, <1>1, <1>2, <1>3, <1>4, <1>5, <1>6, <1>7, <1>8, <1>9 DEF IInv, Control, EntryStates, Teardowns, Starts, Loops, Progress

\* SinkStop keeps every part of the inductive invariant.
LEMMA SinkStopStep ==
  ASSUME IInv, NEW t \in Threads, SinkStop(t) PROVE IInv'
<1> USE Sorts DEF TypeOK, Goto, Return, Call, Home, lockVars, tableVars, queueVars, entryVars
<1>0. TypeOK'
  BY SinkStopType DEF IInv
<1>c. /\ cur[t] \in Entries /\ cur[t] # t /\ TearingDown(t, cur[t])
      /\ Teardown(t, cur[t])
  BY DEF IInv, SinkStop, Control, ControlOf, Teardowns, Teardown, TearingDown
<1>d. /\ \A w \in Threads, g \in Entries :
           TearingDown(w, g)' <=> TearingDown(w, g) /\ w # t
      /\ Quiet(cur[t])'
      /\ \A g \in Entries \ {cur[t]} : Quiet(g)' <=> Quiet(g)
      /\ \A w \in Threads \ {t} : ~TearingDown(w, cur[t])
  BY <1>c DEF IInv, SinkStop, Control, ControlOf, TearingDown, Quiet, Teardown
<1>1. ASSUME NEW u \in Threads PROVE ControlOf(u)'
  BY <1>c, <1>d DEF IInv, SinkStop, Control, ControlOf, Stopping
<1>2. Locks'
  BY <1>c, <1>d DEF IInv, SinkStop, Control, ControlOf, Locks, HoldsMutex, HoldsLifecycle, Stopping
<1>3. ASSUME NEW f \in Entries PROVE EntryState(f)'
  <2>1. CASE f = cur[t]
    BY <1>c, <1>d, <2>1 DEF IInv, SinkStop, EntryStates, EntryState, Teardown, TearingDown
  <2>2. CASE f # cur[t]
    <3>1. EntryState(f) /\ ~TearingDown(t, f)
      BY <2>2 DEF IInv, EntryStates, TearingDown
    <3>2. started[f] \/ Quiet(f)' \/ \E w \in Threads : TearingDown(w, f)'
      BY <1>d, <2>2, <3>1 DEF EntryState
    <3>3. sink'[f] = sink[f] /\ (pc'[f] = "off" <=> pc[f] = "off")
      BY <1>c, <2>2 DEF SinkStop
    <3>4. f >= nextId => Quiet(f)'
      BY <1>d, <2>2, <3>1 DEF EntryState
    <3> QED
      BY <3>1, <3>2, <3>3, <3>4 DEF EntryState, SinkStop
  <2> QED
    BY <2>1, <2>2
<1>4. ASSUME NEW u \in Threads, NEW f \in Entries, TearingDown(u, f)'
      PROVE  Teardown(u, f)'
  <2>1. TearingDown(u, f) /\ u # t /\ f # cur[t] /\ Teardown(u, f)
    BY <1>d, <1>4 DEF IInv, Teardowns
  <2>2. \A w \in Threads : TearingDown(w, f)' => u = w
    BY <1>d, <2>1 DEF Teardown
  <2> QED
    BY <2>1, <2>2 DEF Teardown, SinkStop
<1>5. ASSUME NEW u \in Threads PROVE StartOf(u)'
  BY <1>c, <1>d DEF IInv, SinkStop, Control, ControlOf, Locks, HoldsMutex, Stopping, EntryStates, EntryState, Teardowns, Teardown, Starts, StartOf, TearingDown, Quiet
<1>6. ASSUME NEW u \in Threads PROVE LoopOf(u)'
  BY <1>c, <1>d DEF IInv, SinkStop, Control, ControlOf, Locks, HoldsMutex, HoldsLifecycle, Stopping, EntryStates, EntryState, Starts, StartOf, Loops, LoopOf, Outsiders, Quiet
<1>7. Outsiders'
  BY <1>c, <1>d DEF IInv, SinkStop, Control, ControlOf, Locks, HoldsMutex, HoldsLifecycle, Stopping, EntryStates, EntryState, Starts, StartOf, Outsiders, Progress, ProgressOf, Quiet
<1>8. ASSUME NEW u \in Threads PROVE ProgressOf(u)'
  <2>1. CASE u = t
    <3>1. HoldsLifecycle(t)' <=> HoldsLifecycle(t)
      BY DEF IInv, SinkStop, HoldsLifecycle, Stopping
    <3>2. HoldsLifecycle(t) => \A f \in entries \ todo[t] : Quiet(f)'
      <4> SUFFICES ASSUME HoldsLifecycle(t), NEW f \in entries \ todo[t] PROVE Quiet(f)'
        OBVIOUS
      <4>1. f \in Entries /\ (Quiet(f) \/ TearingDown(t, f))
        BY DEF IInv, SinkStop, Progress, ProgressOf, Stopping
      <4>2. TearingDown(t, f) => f = cur[t]
        BY DEF TearingDown
      <4> QED
        BY <1>c, <1>d, <4>1, <4>2 DEF SinkStop
    <3>3. pc'[t] = "stopNext" /\ (HoldsLifecycle(t) => ~running)
      BY DEF IInv, SinkStop, Progress, ProgressOf
    <3>4. entries' = entries /\ todo' = todo /\ running' = running
      BY DEF SinkStop
    <3>5. pc'[t] \notin {"startFanout", "stopFanout", "startNext", "sinkStart"}
      BY <3>3
    <3> QED
      BY <2>1, <3>1, <3>2, <3>3, <3>4, <3>5 DEF ProgressOf
  <2>2. CASE u # t
    BY <1>c, <1>d, <2>2 DEF IInv, SinkStop, HoldsLifecycle, Stopping, Progress, ProgressOf
  <2> QED
    BY <2>1, <2>2
<1>9. /\ running' => \A f \in entries' : started'[f]
      /\ lifecycle' = NoThread /\ ~running' => \A f \in entries' : Quiet(f)'
  BY <1>c, <1>d DEF IInv, SinkStop, Control, ControlOf, Locks, HoldsMutex, HoldsLifecycle, Stopping, EntryStates, EntryState, Starts, StartOf, Progress, ProgressOf, TearingDown, Quiet
<1> QED
  BY <1>0, <1>1, <1>2, <1>3, <1>4, <1>5, <1>6, <1>7, <1>8, <1>9 DEF IInv, Control, EntryStates, Teardowns, Starts, Loops, Progress

\* StopDone keeps every part of the inductive invariant.
LEMMA StopDoneStep ==
  ASSUME IInv, NEW t \in Threads, StopDone(t) PROVE IInv'
<1> USE Sorts DEF TypeOK, Goto, Return, Call, Home, lockVars, tableVars, queueVars, entryVars
<1>0. TypeOK'
  BY StopDoneType DEF IInv
<1>a. \A w \in Threads, g \in Entries : TearingDown(w, g)' <=> TearingDown(w, g)
  BY DEF IInv, Control, ControlOf, TearingDown, StopDone, Release
<1>b. \A g \in Entries : Quiet(g)' <=> Quiet(g)
  BY DEF IInv, Quiet, StopDone, Release
<1>1. ASSUME NEW u \in Threads PROVE ControlOf(u)'
  BY DEF IInv, StopDone, Release, Control, ControlOf, Stopping
<1>2. Locks'
  BY DEF IInv, StopDone, Release, Control, ControlOf, Locks, HoldsMutex, HoldsLifecycle, Stopping
<1>3. ASSUME NEW f \in Entries PROVE EntryState(f)'
  BY <1>a DEF IInv, StopDone, Release, Control, ControlOf, Locks, HoldsMutex, Stopping, EntryStates, EntryState, Starts, StartOf, Loops, LoopOf, Quiet
<1>4. ASSUME NEW u \in Threads, NEW f \in Entries, TearingDown(u, f)'
      PROVE  Teardown(u, f)'
  <2>1. TearingDown(u, f) /\ Teardown(u, f)
    BY <1>a, <1>4 DEF IInv, Teardowns
  <2>2. \A w \in Threads : TearingDown(w, f)' => u = w
    BY <1>a, <2>1 DEF Teardown
  <2> QED
    BY <2>1, <2>2 DEF IInv, Teardown, TearingDown, StopDone, Release, Control, ControlOf, EntryStates, EntryState, Starts, StartOf, Loops, LoopOf, Quiet
<1>5. ASSUME NEW u \in Threads PROVE StartOf(u)'
  BY DEF IInv, StopDone, Release, Control, ControlOf, Locks, HoldsMutex, Stopping, EntryStates, EntryState, Teardowns, Teardown, Starts, StartOf, TearingDown, Quiet
<1>6. ASSUME NEW u \in Threads PROVE LoopOf(u)'
  BY DEF IInv, StopDone, Release, Control, ControlOf, Locks, HoldsMutex, HoldsLifecycle, Stopping, EntryStates, EntryState, Starts, StartOf, Loops, LoopOf, Outsiders, Quiet
<1>7. Outsiders'
  BY DEF IInv, StopDone, Release, Control, ControlOf, Locks, HoldsMutex, HoldsLifecycle, Stopping, EntryStates, EntryState, Starts, StartOf, Outsiders, Progress, ProgressOf, Quiet
<1>8. ASSUME NEW u \in Threads PROVE ProgressOf(u)'
  BY SMTT(30), <1>a, <1>b DEF IInv, StopDone, Release, Control, ControlOf, Locks, HoldsMutex, HoldsLifecycle, Stopping, EntryStates, EntryState, Starts, StartOf, Loops, LoopOf, Outsiders, Progress, ProgressOf
<1>9. /\ running' => \A f \in entries' : started'[f]
      /\ lifecycle' = NoThread /\ ~running' => \A f \in entries' : Quiet(f)'
  <2>1. CASE lifecycle = t
    BY <1>b, <2>1 DEF IInv, StopDone, Release, Locks, HoldsLifecycle, Stopping,
       Progress, ProgressOf, TearingDown
  <2>2. CASE lifecycle # t
    BY <1>b, <2>2 DEF IInv, StopDone, Release, Progress
  <2> QED
    BY <2>1, <2>2
<1> QED
  BY <1>0, <1>1, <1>2, <1>3, <1>4, <1>5, <1>6, <1>7, <1>8, <1>9 DEF IInv, Control, EntryStates, Teardowns, Starts, Loops, Progress

\* Dispatch keeps every part of the inductive invariant.
LEMMA DispatchStep ==
  ASSUME IInv, NEW t \in Threads, Dispatch(t) PROVE IInv'
<1> USE Sorts DEF TypeOK, Goto, Return, Call, Home, lockVars, tableVars, queueVars, entryVars
<1>0. TypeOK'
  BY DispatchType DEF IInv
<1>a. \A w \in Threads, g \in Entries : TearingDown(w, g)' <=> TearingDown(w, g)
  BY DEF IInv, Control, ControlOf, TearingDown, Dispatch
<1>b. \A g \in Entries : Quiet(g)' <=> Quiet(g)
  BY DEF IInv, Quiet, Dispatch
<1>1. ASSUME NEW u \in Threads PROVE ControlOf(u)'
  BY DEF IInv, Dispatch, Control, ControlOf, Stopping
<1>2. Locks'
  BY DEF IInv, Dispatch, Control, ControlOf, Locks, HoldsMutex, HoldsLifecycle, Stopping
<1>3. ASSUME NEW f \in Entries PROVE EntryState(f)'
  BY <1>a DEF IInv, Dispatch, Control, ControlOf, Locks, HoldsMutex, Stopping, EntryStates, EntryState, Starts, StartOf, Loops, LoopOf, Quiet
<1>4. ASSUME NEW u \in Threads, NEW f \in Entries, TearingDown(u, f)'
      PROVE  Teardown(u, f)'
  <2>1. TearingDown(u, f) /\ Teardown(u, f)
    BY <1>a, <1>4 DEF IInv, Teardowns
  <2>2. \A w \in Threads : TearingDown(w, f)' => u = w
    BY <1>a, <2>1 DEF Teardown
  <2> QED
    BY <2>1, <2>2 DEF IInv, Teardown, TearingDown, Dispatch, Control, ControlOf, EntryStates, EntryState, Starts, StartOf, Loops, LoopOf, Quiet
<1>5. ASSUME NEW u \in Threads PROVE StartOf(u)'
  BY DEF IInv, Dispatch, Control, ControlOf, Locks, HoldsMutex, Stopping, EntryStates, EntryState, Teardowns, Teardown, Starts, StartOf, TearingDown, Quiet
<1>6. ASSUME NEW u \in Threads PROVE LoopOf(u)'
  BY DEF IInv, Dispatch, Control, ControlOf, Locks, HoldsMutex, HoldsLifecycle, Stopping, EntryStates, EntryState, Starts, StartOf, Loops, LoopOf, Outsiders, Quiet
<1>7. Outsiders'
  BY DEF IInv, Dispatch, Control, ControlOf, Locks, HoldsMutex, HoldsLifecycle, Stopping, EntryStates, EntryState, Starts, StartOf, Outsiders, Progress, ProgressOf, Quiet
<1>8. ASSUME NEW u \in Threads PROVE ProgressOf(u)'
  BY <1>a, <1>b DEF IInv, Dispatch, Control, ControlOf, Locks, HoldsMutex, HoldsLifecycle, Stopping, EntryStates, EntryState, Starts, StartOf, Loops, LoopOf, Outsiders, Progress, ProgressOf
<1>9. /\ running' => \A f \in entries' : started'[f]
      /\ lifecycle' = NoThread /\ ~running' => \A f \in entries' : Quiet(f)'
  BY <1>a, <1>b DEF IInv, Dispatch, Control, ControlOf, Locks, HoldsMutex, HoldsLifecycle, Stopping, EntryStates, EntryState, Starts, StartOf, Progress, ProgressOf
<1> QED
  BY <1>0, <1>1, <1>2, <1>3, <1>4, <1>5, <1>6, <1>7, <1>8, <1>9 DEF IInv, Control, EntryStates, Teardowns, Starts, Loops, Progress

\* Push keeps every part of the inductive invariant.
LEMMA PushStep ==
  ASSUME IInv, NEW t \in Threads, NEW e \in Entries, Push(t, e) PROVE IInv'
<1> USE Sorts DEF TypeOK, Goto, Return, Call, Home, lockVars, tableVars, queueVars, entryVars
<1>0. TypeOK'
  BY PushType DEF IInv
<1>c. closed[e] => queue' = queue
  BY DEF IInv, Push, Pushed
<1>a. \A w \in Threads, g \in Entries : TearingDown(w, g)' <=> TearingDown(w, g)
  BY <1>c DEF IInv, Control, ControlOf, TearingDown, Push, IsFirst
<1>b. \A g \in Entries : Quiet(g)' <=> Quiet(g)
  BY <1>c DEF IInv, Quiet, Push, IsFirst
<1>1. ASSUME NEW u \in Threads PROVE ControlOf(u)'
  BY <1>c DEF IInv, Push, IsFirst, Control, ControlOf, Stopping
<1>2. Locks'
  BY <1>c DEF IInv, Push, IsFirst, Control, ControlOf, Locks, HoldsMutex, HoldsLifecycle, Stopping
<1>3. ASSUME NEW f \in Entries PROVE EntryState(f)'
  BY SMTT(30), <1>c, <1>a DEF IInv, Push, IsFirst, Control, ControlOf, Locks, HoldsMutex, Stopping, EntryStates, EntryState, Starts, StartOf, Loops, LoopOf, Quiet
<1>4. ASSUME NEW u \in Threads, NEW f \in Entries, TearingDown(u, f)'
      PROVE  Teardown(u, f)'
  <2>1. TearingDown(u, f) /\ Teardown(u, f)
    BY <1>a, <1>4 DEF IInv, Teardowns
  <2>2. \A w \in Threads : TearingDown(w, f)' => u = w
    BY <1>a, <2>1 DEF Teardown
  <2> QED
    BY <2>1, <2>2, <1>c DEF IInv, Teardown, TearingDown, Push, IsFirst, Control, ControlOf, EntryStates, EntryState, Starts, StartOf, Loops, LoopOf, Quiet
<1>5. ASSUME NEW u \in Threads PROVE StartOf(u)'
  BY SMTT(30), <1>c DEF IInv, Push, IsFirst, Control, ControlOf, Locks, HoldsMutex, Stopping, EntryStates, EntryState, Teardowns, Teardown, Starts, StartOf, TearingDown, Quiet
<1>6. ASSUME NEW u \in Threads PROVE LoopOf(u)'
  BY <1>c DEF IInv, Push, IsFirst, Control, ControlOf, Locks, HoldsMutex, HoldsLifecycle, Stopping, EntryStates, EntryState, Starts, StartOf, Loops, LoopOf, Outsiders, Quiet
<1>7. Outsiders'
  BY <1>c DEF IInv, Push, IsFirst, Control, ControlOf, Locks, HoldsMutex, HoldsLifecycle, Stopping, EntryStates, EntryState, Starts, StartOf, Outsiders, Progress, ProgressOf, Quiet
<1>8. ASSUME NEW u \in Threads PROVE ProgressOf(u)'
  BY SMTT(30), <1>c, <1>a, <1>b DEF IInv, Push, IsFirst, Control, ControlOf, Locks, HoldsMutex, HoldsLifecycle, Stopping, EntryStates, EntryState, Starts, StartOf, Loops, LoopOf, Outsiders, Progress, ProgressOf
<1>9. /\ running' => \A f \in entries' : started'[f]
      /\ lifecycle' = NoThread /\ ~running' => \A f \in entries' : Quiet(f)'
  BY <1>c, <1>a, <1>b DEF IInv, Push, IsFirst, Control, ControlOf, Locks, HoldsMutex, HoldsLifecycle, Stopping, EntryStates, EntryState, Starts, StartOf, Progress, ProgressOf
<1> QED
  BY <1>0, <1>1, <1>2, <1>3, <1>4, <1>5, <1>6, <1>7, <1>8, <1>9 DEF IInv, Control, EntryStates, Teardowns, Starts, Loops, Progress

\* DispatchDone keeps every part of the inductive invariant.
LEMMA DispatchDoneStep ==
  ASSUME IInv, NEW t \in Threads, DispatchDone(t) PROVE IInv'
<1> USE Sorts DEF TypeOK, Goto, Return, Call, Home, lockVars, tableVars, queueVars, entryVars
<1>0. TypeOK'
  BY DispatchDoneType DEF IInv
<1>a. \A w \in Threads, g \in Entries : TearingDown(w, g)' <=> TearingDown(w, g)
  BY DEF IInv, Control, ControlOf, TearingDown, DispatchDone
<1>b. \A g \in Entries : Quiet(g)' <=> Quiet(g)
  BY DEF IInv, Quiet, DispatchDone
<1>1. ASSUME NEW u \in Threads PROVE ControlOf(u)'
  BY DEF IInv, DispatchDone, Control, ControlOf, Stopping
<1>2. Locks'
  BY DEF IInv, DispatchDone, Control, ControlOf, Locks, HoldsMutex, HoldsLifecycle, Stopping
<1>3. ASSUME NEW f \in Entries PROVE EntryState(f)'
  BY <1>a DEF IInv, DispatchDone, Control, ControlOf, Locks, HoldsMutex, Stopping, EntryStates, EntryState, Starts, StartOf, Loops, LoopOf, Quiet
<1>4. ASSUME NEW u \in Threads, NEW f \in Entries, TearingDown(u, f)'
      PROVE  Teardown(u, f)'
  <2>1. TearingDown(u, f) /\ Teardown(u, f)
    BY <1>a, <1>4 DEF IInv, Teardowns
  <2>2. \A w \in Threads : TearingDown(w, f)' => u = w
    BY <1>a, <2>1 DEF Teardown
  <2> QED
    BY <2>1, <2>2 DEF IInv, Teardown, TearingDown, DispatchDone, Control, ControlOf, EntryStates, EntryState, Starts, StartOf, Loops, LoopOf, Quiet
<1>5. ASSUME NEW u \in Threads PROVE StartOf(u)'
  BY DEF IInv, DispatchDone, Control, ControlOf, Locks, HoldsMutex, Stopping, EntryStates, EntryState, Teardowns, Teardown, Starts, StartOf, TearingDown, Quiet
<1>6. ASSUME NEW u \in Threads PROVE LoopOf(u)'
  BY DEF IInv, DispatchDone, Control, ControlOf, Locks, HoldsMutex, HoldsLifecycle, Stopping, EntryStates, EntryState, Starts, StartOf, Loops, LoopOf, Outsiders, Quiet
<1>7. Outsiders'
  BY DEF IInv, DispatchDone, Control, ControlOf, Locks, HoldsMutex, HoldsLifecycle, Stopping, EntryStates, EntryState, Starts, StartOf, Outsiders, Progress, ProgressOf, Quiet
<1>8. ASSUME NEW u \in Threads PROVE ProgressOf(u)'
  BY <1>a, <1>b DEF IInv, DispatchDone, Control, ControlOf, Locks, HoldsMutex, HoldsLifecycle, Stopping, EntryStates, EntryState, Starts, StartOf, Loops, LoopOf, Outsiders, Progress, ProgressOf
<1>9. /\ running' => \A f \in entries' : started'[f]
      /\ lifecycle' = NoThread /\ ~running' => \A f \in entries' : Quiet(f)'
  BY <1>a, <1>b DEF IInv, DispatchDone, Control, ControlOf, Locks, HoldsMutex, HoldsLifecycle, Stopping, EntryStates, EntryState, Starts, StartOf, Progress, ProgressOf
<1> QED
  BY <1>0, <1>1, <1>2, <1>3, <1>4, <1>5, <1>6, <1>7, <1>8, <1>9 DEF IInv, Control, EntryStates, Teardowns, Starts, Loops, Progress

\* Pop keeps every part of the inductive invariant.
LEMMA PopStep ==
  ASSUME IInv, NEW e \in Entries, Pop(e) PROVE IInv'
<1> USE Sorts DEF TypeOK, Goto, Return, Call, Home, lockVars, tableVars, queueVars, entryVars
<1>0. TypeOK'
  BY PopType DEF IInv
<1>a. \A w \in Threads, g \in Entries : TearingDown(w, g)' <=> TearingDown(w, g)
  BY DEF IInv, Control, ControlOf, TearingDown, Pop
<1>b. \A g \in Entries : Quiet(g)' <=> Quiet(g)
  BY DEF IInv, Quiet, Pop
<1>1. ASSUME NEW u \in Threads PROVE ControlOf(u)'
  BY SMTT(30) DEF IInv, Pop, Control, ControlOf, Stopping
<1>2. Locks'
  BY ZenonT(30) DEF IInv, Pop, Control, ControlOf, Locks, HoldsMutex, HoldsLifecycle, Stopping
<1>3. ASSUME NEW f \in Entries PROVE EntryState(f)'
  BY SMTT(30), <1>a DEF IInv, Pop, Control, ControlOf, Locks, HoldsMutex, Stopping, EntryStates, EntryState, Starts, StartOf, Loops, LoopOf, Quiet
<1>4. ASSUME NEW u \in Threads, NEW f \in Entries, TearingDown(u, f)'
      PROVE  Teardown(u, f)'
  <2>1. TearingDown(u, f) /\ Teardown(u, f)
    BY <1>a, <1>4 DEF IInv, Teardowns
  <2>2. \A w \in Threads : TearingDown(w, f)' => u = w
    BY <1>a, <2>1 DEF Teardown
  <2> QED
    BY <2>1, <2>2 DEF IInv, Teardown, TearingDown, Pop, Control, ControlOf, EntryStates, EntryState, Starts, StartOf, Loops, LoopOf, Quiet
<1>5. ASSUME NEW u \in Threads PROVE StartOf(u)'
  BY SMTT(30) DEF IInv, Pop, Control, ControlOf, Locks, HoldsMutex, Stopping, EntryStates, EntryState, Teardowns, Teardown, Starts, StartOf, TearingDown, Quiet
<1>6. ASSUME NEW u \in Threads PROVE LoopOf(u)'
  BY SMTT(30) DEF IInv, Pop, Control, ControlOf, Locks, HoldsMutex, HoldsLifecycle, Stopping, EntryStates, EntryState, Starts, StartOf, Loops, LoopOf, Outsiders, Quiet
<1>7. Outsiders'
  BY DEF IInv, Pop, Control, ControlOf, Locks, HoldsMutex, HoldsLifecycle, Stopping, EntryStates, EntryState, Starts, StartOf, Outsiders, Progress, ProgressOf, Quiet
<1>8. ASSUME NEW u \in Threads PROVE ProgressOf(u)'
  BY SMTT(30), <1>a, <1>b DEF IInv, Pop, Control, ControlOf, Locks, HoldsMutex, HoldsLifecycle, Stopping, EntryStates, EntryState, Starts, StartOf, Loops, LoopOf, Outsiders, Progress, ProgressOf
<1>9. /\ running' => \A f \in entries' : started'[f]
      /\ lifecycle' = NoThread /\ ~running' => \A f \in entries' : Quiet(f)'
  BY <1>a, <1>b DEF IInv, Pop, Control, ControlOf, Locks, HoldsMutex, HoldsLifecycle, Stopping, EntryStates, EntryState, Starts, StartOf, Progress, ProgressOf
<1> QED
  BY <1>0, <1>1, <1>2, <1>3, <1>4, <1>5, <1>6, <1>7, <1>8, <1>9 DEF IInv, Control, EntryStates, Teardowns, Starts, Loops, Progress

\* ConsumeDone keeps every part of the inductive invariant.
LEMMA ConsumeDoneStep ==
  ASSUME IInv, NEW e \in Entries, ConsumeDone(e) PROVE IInv'
<1> USE Sorts DEF TypeOK, Goto, Return, Call, Home, lockVars, tableVars, queueVars, entryVars
<1>0. TypeOK'
  BY ConsumeDoneType DEF IInv
<1>a. \A w \in Threads, g \in Entries : TearingDown(w, g)' <=> TearingDown(w, g)
  BY DEF IInv, Control, ControlOf, TearingDown, ConsumeDone
<1>b. \A g \in Entries : Quiet(g)' <=> Quiet(g)
  BY DEF IInv, Quiet, ConsumeDone
<1>1. ASSUME NEW u \in Threads PROVE ControlOf(u)'
  BY DEF IInv, ConsumeDone, Control, ControlOf, Stopping
<1>2. Locks'
  BY DEF IInv, ConsumeDone, Control, ControlOf, Locks, HoldsMutex, HoldsLifecycle, Stopping
<1>3. ASSUME NEW f \in Entries PROVE EntryState(f)'
  BY <1>a DEF IInv, ConsumeDone, Control, ControlOf, Locks, HoldsMutex, Stopping, EntryStates, EntryState, Starts, StartOf, Loops, LoopOf, Quiet
<1>4. ASSUME NEW u \in Threads, NEW f \in Entries, TearingDown(u, f)'
      PROVE  Teardown(u, f)'
  <2>1. TearingDown(u, f) /\ Teardown(u, f)
    BY <1>a, <1>4 DEF IInv, Teardowns
  <2>2. \A w \in Threads : TearingDown(w, f)' => u = w
    BY <1>a, <2>1 DEF Teardown
  <2> QED
    BY <2>1, <2>2 DEF IInv, Teardown, TearingDown, ConsumeDone, Control, ControlOf, EntryStates, EntryState, Starts, StartOf, Loops, LoopOf, Quiet
<1>5. ASSUME NEW u \in Threads PROVE StartOf(u)'
  BY DEF IInv, ConsumeDone, Control, ControlOf, Locks, HoldsMutex, Stopping, EntryStates, EntryState, Teardowns, Teardown, Starts, StartOf, TearingDown, Quiet
<1>6. ASSUME NEW u \in Threads PROVE LoopOf(u)'
  BY DEF IInv, ConsumeDone, Control, ControlOf, Locks, HoldsMutex, HoldsLifecycle, Stopping, EntryStates, EntryState, Starts, StartOf, Loops, LoopOf, Outsiders, Quiet
<1>7. Outsiders'
  BY DEF IInv, ConsumeDone, Control, ControlOf, Locks, HoldsMutex, HoldsLifecycle, Stopping, EntryStates, EntryState, Starts, StartOf, Outsiders, Progress, ProgressOf, Quiet
<1>8. ASSUME NEW u \in Threads PROVE ProgressOf(u)'
  BY <1>a, <1>b DEF IInv, ConsumeDone, Control, ControlOf, Locks, HoldsMutex, HoldsLifecycle, Stopping, EntryStates, EntryState, Starts, StartOf, Loops, LoopOf, Outsiders, Progress, ProgressOf
<1>9. /\ running' => \A f \in entries' : started'[f]
      /\ lifecycle' = NoThread /\ ~running' => \A f \in entries' : Quiet(f)'
  BY <1>a, <1>b DEF IInv, ConsumeDone, Control, ControlOf, Locks, HoldsMutex, HoldsLifecycle, Stopping, EntryStates, EntryState, Starts, StartOf, Progress, ProgressOf
<1> QED
  BY <1>0, <1>1, <1>2, <1>3, <1>4, <1>5, <1>6, <1>7, <1>8, <1>9 DEF IInv, Control, EntryStates, Teardowns, Starts, Loops, Progress

\* WorkerExit keeps every part of the inductive invariant.
LEMMA WorkerExitStep ==
  ASSUME IInv, NEW e \in Entries, WorkerExit(e) PROVE IInv'
<1> USE Sorts DEF TypeOK, Goto, Return, Call, Home, lockVars, tableVars, queueVars, entryVars
<1>0. TypeOK'
  BY WorkerExitType DEF IInv
<1>c. worker[e] = "live"
  BY DEF IInv, WorkerExit, EntryStates, EntryState
<1>a. \A w \in Threads, g \in Entries : TearingDown(w, g)' <=> TearingDown(w, g)
  BY <1>c DEF IInv, Control, ControlOf, TearingDown, WorkerExit
<1>b. \A g \in Entries : Quiet(g)' <=> Quiet(g)
  BY <1>c DEF IInv, Quiet, WorkerExit
<1>1. ASSUME NEW u \in Threads PROVE ControlOf(u)'
  BY <1>c DEF IInv, WorkerExit, Control, ControlOf, Stopping
<1>2. Locks'
  BY <1>c DEF IInv, WorkerExit, Control, ControlOf, Locks, HoldsMutex, HoldsLifecycle, Stopping
<1>3. ASSUME NEW f \in Entries PROVE EntryState(f)'
  BY <1>c, <1>a DEF IInv, WorkerExit, Control, ControlOf, Locks, HoldsMutex, Stopping, EntryStates, EntryState, Starts, StartOf, Loops, LoopOf, Quiet
<1>4. ASSUME NEW u \in Threads, NEW f \in Entries, TearingDown(u, f)'
      PROVE  Teardown(u, f)'
  <2>1. TearingDown(u, f) /\ Teardown(u, f)
    BY <1>a, <1>4 DEF IInv, Teardowns
  <2>2. \A w \in Threads : TearingDown(w, f)' => u = w
    BY <1>a, <2>1 DEF Teardown
  <2> QED
    BY <2>1, <2>2, <1>c DEF IInv, Teardown, TearingDown, WorkerExit, Control, ControlOf, EntryStates, EntryState, Starts, StartOf, Loops, LoopOf, Quiet
<1>5. ASSUME NEW u \in Threads PROVE StartOf(u)'
  BY <1>c DEF IInv, WorkerExit, Control, ControlOf, Locks, HoldsMutex, Stopping, EntryStates, EntryState, Teardowns, Teardown, Starts, StartOf, TearingDown, Quiet
<1>6. ASSUME NEW u \in Threads PROVE LoopOf(u)'
  BY <1>c DEF IInv, WorkerExit, Control, ControlOf, Locks, HoldsMutex, HoldsLifecycle, Stopping, EntryStates, EntryState, Starts, StartOf, Loops, LoopOf, Outsiders, Quiet
<1>7. Outsiders'
  BY <1>c DEF IInv, WorkerExit, Control, ControlOf, Locks, HoldsMutex, HoldsLifecycle, Stopping, EntryStates, EntryState, Starts, StartOf, Outsiders, Progress, ProgressOf, Quiet
<1>8. ASSUME NEW u \in Threads PROVE ProgressOf(u)'
  BY <1>c, <1>a, <1>b DEF IInv, WorkerExit, Control, ControlOf, Locks, HoldsMutex, HoldsLifecycle, Stopping, EntryStates, EntryState, Starts, StartOf, Loops, LoopOf, Outsiders, Progress, ProgressOf
<1>9. /\ running' => \A f \in entries' : started'[f]
      /\ lifecycle' = NoThread /\ ~running' => \A f \in entries' : Quiet(f)'
  BY <1>c, <1>a, <1>b DEF IInv, WorkerExit, Control, ControlOf, Locks, HoldsMutex, HoldsLifecycle, Stopping, EntryStates, EntryState, Starts, StartOf, Progress, ProgressOf
<1> QED
  BY <1>0, <1>1, <1>2, <1>3, <1>4, <1>5, <1>6, <1>7, <1>8, <1>9 DEF IInv, Control, EntryStates, Teardowns, Starts, Loops, Progress

\* Every step of the fanout preserves the invariant.
LEMMA IInvNext == IInv /\ [Next]_vars => IInv'
<1> SUFFICES ASSUME IInv, [Next]_vars PROVE IInv'
  OBVIOUS
<1>1. ASSUME NEW t \in Threads, NEW o \in Calls(t), NewCall(t, o) PROVE IInv'
  BY <1>1, NewCallStep
<1>2. ASSUME NEW t \in Threads, PushVideoPacket(t) PROVE IInv'
  BY <1>2, PushVideoPacketStep
<1>3. ASSUME NEW t \in Threads, Step(t) PROVE IInv'
  <2>1. CASE AddStopped(t) \/ AddRunning(t) \/ AddRefused(t)
             \/ AddedSinkStarts(t) \/ AddedSinkFails(t)
    BY <2>1, AddStoppedStep, AddRunningStep, AddRefusedStep, AddedSinkStartsStep,
       AddedSinkFailsStep
  <2>2. CASE Start(t) \/ StartRefused(t) \/ StartFanout(t) \/ StartDone(t)
             \/ StartFailsLater(t) \/ SinkStarts(t) \/ SinkFails(t)
    BY <2>2, StartStep, StartRefusedStep, StartFanoutStep, StartDoneStep,
       StartFailsLaterStep, SinkStartsStep, SinkFailsStep
  <2>3. CASE Stop(t) \/ StopRefused(t) \/ StopLock(t) \/ StopFanout(t)
             \/ Join(t) \/ SinkStop(t) \/ StopDone(t)
    BY <2>3, StopStep, StopRefusedStep, StopLockStep, StopFanoutStep, JoinStep,
       SinkStopStep, StopDoneStep
  <2>4. CASE Dispatch(t) \/ DispatchDone(t)
    BY <2>4, DispatchStep, DispatchDoneStep
  <2>5. ASSUME NEW e \in Entries,
               StartNext(t, e) \/ Remove(t, e) \/ RemoveRefused(t, e)
               \/ StopEntry(t, e) \/ SkipEntry(t, e) \/ Push(t, e)
        PROVE  IInv'
    BY <2>5, StartNextStep, RemoveStep, RemoveRefusedStep, StopEntryStep,
       SkipEntryStep, PushStep
  <2> QED
    BY <1>3, <2>1, <2>2, <2>3, <2>4, <2>5 DEF Step
<1>4. ASSUME NEW e \in Entries, Work(e) PROVE IInv'
  BY <1>4, PopStep, ConsumeDoneStep, WorkerExitStep DEF Work
<1>5. CASE UNCHANGED vars
  BY <1>5 DEF vars, IInv, TypeOK, Control, ControlOf, Locks, HoldsMutex, HoldsLifecycle,
     EntryStates, EntryState, Teardowns, Teardown, TearingDown, Quiet, Starts, StartOf,
     Loops, LoopOf, Outsiders, Progress, ProgressOf
<1> QED
  BY <1>1, <1>2, <1>3, <1>4, <1>5 DEF Next

\* The constructed fanout, with no sink and no call, satisfies the invariant.
LEMMA IInvInit == Init => IInv
<1> SUFFICES ASSUME Init PROVE IInv
  OBVIOUS
<1> USE Sorts DEF Init
<1>1. TypeOK
  BY TypeInit
<1>2. Control /\ Locks /\ Outsiders
  BY DEF Control, ControlOf, Locks, HoldsMutex, HoldsLifecycle, Stopping, Outsiders
<1>3. EntryStates /\ Teardowns
  BY DEF EntryStates, EntryState, Teardowns, TearingDown, Quiet
<1>4. Starts /\ Loops /\ Progress
  BY DEF Starts, StartOf, Loops, LoopOf, Progress, ProgressOf, HoldsLifecycle
<1> QED
  BY <1>1, <1>2, <1>3, <1>4 DEF IInv

\* The inductive invariant: types, who holds which lock, and how the flag, the
\* worker and the sink of every entry go together wherever each thread is.
THEOREM Invariance == Spec => []IInv
<1>1. Init => IInv
  BY IInvInit
<1>2. IInv /\ [Next]_vars => IInv'
  BY IInvNext
<1> QED
  BY <1>1, <1>2, PTL DEF Spec

\* Every variable keeps its type, whatever the number of threads and entries.
THEOREM TypeCorrect == Spec => []TypeOK
<1>1. IInv => TypeOK
  BY DEF IInv
<1> QED
  BY <1>1, Invariance, PTL

\* consume() of a sink runs only between its start() and its stop().
THEOREM ConsumeInsideSessionHolds == Spec => []ConsumeInsideSession
<1>1. IInv => ConsumeInsideSession
  BY DEF IInv, ConsumeInsideSession, EntryStates, EntryState, Teardowns, Teardown, Quiet
<1> QED
  BY <1>1, Invariance, PTL

\* No session of a sink begins before its previous one has ended.
THEOREM NoSecondWorkerHolds == Spec => []NoSecondWorker
<1>1. IInv => NoSecondWorker
  BY DEF IInv, NoSecondWorker, Starts, StartOf
<1> QED
  BY <1>1, Invariance, PTL

\* Sink::stop() finds the worker joined and the queue drained.
THEOREM DrainedBeforeStopHolds == Spec => []DrainedBeforeStop
<1>1. IInv => DrainedBeforeStop
  <2> SUFFICES ASSUME IInv, NEW t \in Threads, pc[t] = "sinkStop"
               PROVE  /\ worker[cur[t]] = "none" /\ queue[cur[t]] = <<>>
                      /\ sink[cur[t]] = "started"
    BY DEF DrainedBeforeStop
  <2>1. cur[t] \in Entries /\ TearingDown(t, cur[t])
    BY DEF IInv, Control, ControlOf, TearingDown
  <2> QED
    BY <2>1 DEF IInv, Teardowns, Teardown
<1> QED
  BY <1>1, Invariance, PTL

\* remove(), stop() and a rollback that meet at an entry: exactly one stops it.
THEOREM OneTeardownHolds == Spec => []OneTeardown
<1>1. IInv => OneTeardown
  BY DEF IInv, OneTeardown, EntryStates, EntryState, Teardowns, Teardown
<1> QED
  BY <1>1, Invariance, PTL

\* Registered sinks are served while the fanout runs and quiet once it is stopped.
THEOREM RegisteredFollowsRunningHolds == Spec => []RegisteredFollowsRunning
<1>1. IInv => RegisteredFollowsRunning
  BY DEF IInv, RegisteredFollowsRunning, TypeOK, Progress, EntryStates, EntryState
<1> QED
  BY <1>1, Invariance, PTL

\* No worker ever joins itself: the -EDEADLK branch of stopEntry() is dead.
THEOREM NoSelfJoinHolds == Spec => []NoSelfJoin
<1>1. IInv => NoSelfJoin
  <2> SUFFICES ASSUME IInv, NEW t \in Threads, pc[t] = "join" PROVE cur[t] # t
    BY DEF NoSelfJoin
  <2>1. cur[t] \in Entries /\ TearingDown(t, cur[t])
    BY DEF IInv, Control, ControlOf, TearingDown
  <2> QED
    BY <2>1 DEF IInv, Teardowns, Teardown
<1> QED
  BY <1>1, Invariance, PTL

-----------------------------------------------------------------------------
(* SinkFanout implements SinkContract: what that needs beside IInv. *)

\* One encode worker dispatches, and stop() joins it.
OneEncoder == ~ExternalPush /\ \A p, q \in Pushers : p = q

\* The packet of a dispatch is the newest; none begins after the fanout stopped.
Dispatches ==
  /\ nextPacket \in 1 .. MaxPackets + 1
  /\ \A p \in Pushers : pc[p] # "idle" => running /\ cur[p] = nextPacket - 1 /\ cur[p] > 0

\* Packets are queued in their order, and older ones were delivered.
InOrder(e) ==
  /\ Len(queue[e]) <= Capacity /\ last[e] < nextPacket
  /\ \A i \in 1 .. Len(queue[e]) : last[e] < queue[e][i] /\ queue[e][i] < nextPacket
  /\ \A i, j \in 1 .. Len(queue[e]) : i < j => queue[e][i] < queue[e][j]

\* p has yet to push its packet to e, if e takes it.
Due(p, e) == pc[p] = "dispatch" \/ (pc[p] = "push" /\ e \in todo[p])

\* Of a packet that is due: it is newer than what e has had.
Newer(p, e) ==
  Due(p, e) =>
    /\ last[e] < cur[p] /\ \A i \in 1 .. Len(queue[e]) : queue[e][i] < cur[p]
    /\ pc[p] = "push" => started[e] \/ closed[e]

Queues ==
  /\ \A e \in Entries : InOrder(e) /\ (Quiet(e) => queue[e] = <<>>)
  /\ \A p \in Pushers, e \in Entries : Newer(p, e)

CInv == OneEncoder /\ Dispatches /\ Queues

\* What a step of any thread but the encode worker and the sinks' workers does
\* to the packets: nothing that CInv would notice.
Elsewhere ==
  /\ UNCHANGED <<queue, last, nextPacket>>
  /\ \A p \in Pushers : pc'[p] = pc[p] /\ cur'[p] = cur[p] /\ todo'[p] = todo[p]
  /\ \A p \in Pushers, e \in Entries :
       pc[p] = "push" /\ e \in todo[p] /\ (started[e] \/ closed[e]) => started'[e] \/ closed'[e]
  /\ \A e \in Entries : Quiet(e)' => Quiet(e) \/ queue[e] = <<>>
  /\ running => running' \/ \A p \in Pushers : pc[p] = "idle"

\* Where a sink is not in consume().
Away == {"off", "pop"}

\* Such a step keeps CInv.
LEMMA ElsewhereKeeps ==
  ASSUME TypeOK, CInv, Elsewhere PROVE CInv'
<1>1. OneEncoder'
  BY DEF CInv, OneEncoder
<1>2. Dispatches'
  BY DEF CInv, Dispatches, Elsewhere
<1>3. ASSUME NEW e \in Entries PROVE InOrder(e)' /\ (Quiet(e)' => queue'[e] = <<>>)
  <2>1. InOrder(e) /\ (Quiet(e) => queue[e] = <<>>)
    BY DEF CInv, Queues
  <2> QED
    BY <2>1 DEF Elsewhere, InOrder
<1>4. ASSUME NEW p \in Pushers, NEW e \in Entries PROVE Newer(p, e)'
  <2>1. Newer(p, e)
    BY DEF CInv, Queues
  <2> QED
    BY <2>1 DEF Elsewhere, Newer, Due
<1> QED
  BY <1>1, <1>2, <1>3, <1>4 DEF CInv, Queues

\* The places of a thread that moves inside its calls are not those of a pusher,
\* nor those of a worker between two packets.
LEMMA Moves ==
  ASSUME TypeOK, NEW t \in Threads, t \notin Pushers, NEW l \in Labels, pc[t] \notin Away, l \notin Away,
         pc' = [pc EXCEPT ![t] = l]
  PROVE  /\ \A p \in Pushers : pc'[p] = pc[p]
         /\ [e \in Entries |-> pc[e] \notin Away]' = [e \in Entries |-> pc[e] \notin Away]
  BY Sorts DEF TypeOK

\* NewCall is a step elsewhere, which the contract does not see.
LEMMA NewCallElse ==
  ASSUME IInv, CInv, NEW t \in Threads, NEW o \in Calls(t), NewCall(t, o) PROVE Elsewhere /\ UNCHANGED Contract!vars
<1> USE Sorts DEF TypeOK, Goto, Return, Call, Home, lockVars, tableVars, queueVars, entryVars
<1>c. o \in Ops /\ t \notin Pushers
  BY CallsAreOps
<1>m. /\ \A p \in Pushers : pc'[p] = pc[p]
      /\ [g \in Entries |-> pc[g] \notin Away]' = [g \in Entries |-> pc[g] \notin Away]
  BY <1>c, Moves DEF IInv, NewCall, Control, ControlOf, Away, Ops, Labels
<1>1. UNCHANGED <<queue, last, nextPacket>>
  BY <1>c, <1>m DEF NewCall, IInv
<1>2. \A p \in Pushers : cur'[p] = cur[p] /\ todo'[p] = todo[p]
  BY <1>c, <1>m DEF NewCall, IInv
<1>3. \A p \in Pushers, g \in Entries :
        pc[p] = "push" /\ g \in todo[p] /\ (started[g] \/ closed[g]) => started'[g] \/ closed'[g]
  BY <1>c, <1>m DEF NewCall, IInv
<1>4. \A g \in Entries : Quiet(g)' => Quiet(g) \/ queue[g] = <<>>
  BY <1>c, <1>m DEF NewCall, IInv, Quiet
<1>5. running => running' \/ \A p \in Pushers : pc[p] = "idle"
  BY <1>c, <1>m DEF NewCall, IInv
<1>6. UNCHANGED Contract!vars
  BY <1>c, <1>m, <1>1 DEF NewCall, Contract!vars, Away
<1> QED
  BY <1>c, <1>m, <1>1, <1>2, <1>3, <1>4, <1>5, <1>6 DEF Elsewhere

\* AddStopped is a step elsewhere, which the contract does not see.
LEMMA AddStoppedElse ==
  ASSUME IInv, CInv, NEW t \in Threads, AddStopped(t) PROVE Elsewhere /\ UNCHANGED Contract!vars
<1> USE Sorts DEF TypeOK, Goto, Return, Call, Home, lockVars, tableVars, queueVars, entryVars
<1>c. t \notin Pushers
  BY DEF IInv, AddStopped, Control, ControlOf, Stopping
<1>m. /\ \A p \in Pushers : pc'[p] = pc[p]
      /\ [g \in Entries |-> pc[g] \notin Away]' = [g \in Entries |-> pc[g] \notin Away]
  BY <1>c, Moves DEF IInv, AddStopped, Control, ControlOf, Away, Ops, Labels
<1>1. UNCHANGED <<queue, last, nextPacket>>
  BY <1>c, <1>m DEF AddStopped, IInv
<1>2. \A p \in Pushers : cur'[p] = cur[p] /\ todo'[p] = todo[p]
  BY <1>c, <1>m DEF AddStopped, IInv
<1>3. \A p \in Pushers, g \in Entries :
        pc[p] = "push" /\ g \in todo[p] /\ (started[g] \/ closed[g]) => started'[g] \/ closed'[g]
  BY <1>c, <1>m DEF AddStopped, IInv
<1>4. \A g \in Entries : Quiet(g)' => Quiet(g) \/ queue[g] = <<>>
  BY <1>c, <1>m DEF AddStopped, IInv, Quiet
<1>5. running => running' \/ \A p \in Pushers : pc[p] = "idle"
  BY <1>c, <1>m DEF AddStopped, IInv
<1>6. UNCHANGED Contract!vars
  BY <1>c, <1>m, <1>1 DEF AddStopped, Contract!vars, Away
<1> QED
  BY <1>c, <1>m, <1>1, <1>2, <1>3, <1>4, <1>5, <1>6 DEF Elsewhere

\* AddRunning is a step elsewhere, which the contract does not see.
LEMMA AddRunningElse ==
  ASSUME IInv, CInv, NEW t \in Threads, AddRunning(t) PROVE Elsewhere /\ UNCHANGED Contract!vars
<1> USE Sorts DEF TypeOK, Goto, Return, Call, Home, lockVars, tableVars, queueVars, entryVars
<1>c. /\ t \notin Pushers /\ nextId \in Entries /\ queue[nextId] = <<>>
      /\ \A p \in Pushers : nextId \notin todo[p]
  <2>1. t \notin Pushers /\ nextId \in Entries
    BY DEF IInv, AddRunning, Control, ControlOf
  <2>2. Quiet(nextId)
    BY <2>1 DEF IInv, EntryStates, EntryState
  <2>3. ASSUME NEW p \in Pushers, nextId \in todo[p] PROVE FALSE
    <3>1. p \in Threads
      OBVIOUS
    <3>2. nextId < nextId /\ nextId \in Nat
      BY <2>1, <2>3, <3>1 DEF IInv, Loops, LoopOf
    <3> QED
      BY <3>2
  <2> QED
    BY <2>1, <2>2, <2>3 DEF CInv, Queues
<1>m. /\ \A p \in Pushers : pc'[p] = pc[p]
      /\ [g \in Entries |-> pc[g] \notin Away]' = [g \in Entries |-> pc[g] \notin Away]
  BY <1>c, Moves DEF IInv, AddRunning, Reset, Control, ControlOf, Away, Ops, Labels
<1>1. UNCHANGED <<queue, last, nextPacket>>
  BY <1>c, <1>m DEF AddRunning, Reset, IInv
<1>2. \A p \in Pushers : cur'[p] = cur[p] /\ todo'[p] = todo[p]
  BY <1>c, <1>m DEF AddRunning, Reset, IInv
<1>3. \A p \in Pushers, g \in Entries :
        pc[p] = "push" /\ g \in todo[p] /\ (started[g] \/ closed[g]) => started'[g] \/ closed'[g]
  BY <1>c, <1>m DEF AddRunning, Reset, IInv
<1>4. \A g \in Entries : Quiet(g)' => Quiet(g) \/ queue[g] = <<>>
  BY <1>c, <1>m DEF AddRunning, Reset, IInv, Quiet
<1>5. running => running' \/ \A p \in Pushers : pc[p] = "idle"
  BY <1>c, <1>m DEF AddRunning, Reset, IInv
<1>6. UNCHANGED Contract!vars
  BY <1>c, <1>m, <1>1 DEF AddRunning, Reset, Contract!vars, Away
<1> QED
  BY <1>c, <1>m, <1>1, <1>2, <1>3, <1>4, <1>5, <1>6 DEF Elsewhere

\* AddRefused is a step elsewhere, which the contract does not see.
LEMMA AddRefusedElse ==
  ASSUME IInv, CInv, NEW t \in Threads, AddRefused(t) PROVE Elsewhere /\ UNCHANGED Contract!vars
<1> USE Sorts DEF TypeOK, Goto, Return, Call, Home, lockVars, tableVars, queueVars, entryVars
<1>c. t \notin Pushers
  BY DEF IInv, AddRefused, Control, ControlOf, Stopping
<1>m. /\ \A p \in Pushers : pc'[p] = pc[p]
      /\ [g \in Entries |-> pc[g] \notin Away]' = [g \in Entries |-> pc[g] \notin Away]
  BY <1>c, Moves DEF IInv, AddRefused, Control, ControlOf, Away, Ops, Labels
<1>1. UNCHANGED <<queue, last, nextPacket>>
  BY <1>c, <1>m DEF AddRefused, IInv
<1>2. \A p \in Pushers : cur'[p] = cur[p] /\ todo'[p] = todo[p]
  BY <1>c, <1>m DEF AddRefused, IInv
<1>3. \A p \in Pushers, g \in Entries :
        pc[p] = "push" /\ g \in todo[p] /\ (started[g] \/ closed[g]) => started'[g] \/ closed'[g]
  BY <1>c, <1>m DEF AddRefused, IInv
<1>4. \A g \in Entries : Quiet(g)' => Quiet(g) \/ queue[g] = <<>>
  BY <1>c, <1>m DEF AddRefused, IInv, Quiet
<1>5. running => running' \/ \A p \in Pushers : pc[p] = "idle"
  BY <1>c, <1>m DEF AddRefused, IInv
<1>6. UNCHANGED Contract!vars
  BY <1>c, <1>m, <1>1 DEF AddRefused, Contract!vars, Away
<1> QED
  BY <1>c, <1>m, <1>1, <1>2, <1>3, <1>4, <1>5, <1>6 DEF Elsewhere

\* AddedSinkFails is a step elsewhere, which the contract does not see.
LEMMA AddedSinkFailsElse ==
  ASSUME IInv, CInv, NEW t \in Threads, AddedSinkFails(t) PROVE Elsewhere /\ UNCHANGED Contract!vars
<1> USE Sorts DEF TypeOK, Goto, Return, Call, Home, lockVars, tableVars, queueVars, entryVars
<1>c. t \notin Pushers
  BY DEF IInv, AddedSinkFails, Control, ControlOf, Stopping
<1>m. /\ \A p \in Pushers : pc'[p] = pc[p]
      /\ [g \in Entries |-> pc[g] \notin Away]' = [g \in Entries |-> pc[g] \notin Away]
  BY <1>c, Moves DEF IInv, AddedSinkFails, Control, ControlOf, Away, Ops, Labels
<1>1. UNCHANGED <<queue, last, nextPacket>>
  BY <1>c, <1>m DEF AddedSinkFails, IInv
<1>2. \A p \in Pushers : cur'[p] = cur[p] /\ todo'[p] = todo[p]
  BY <1>c, <1>m DEF AddedSinkFails, IInv
<1>3. \A p \in Pushers, g \in Entries :
        pc[p] = "push" /\ g \in todo[p] /\ (started[g] \/ closed[g]) => started'[g] \/ closed'[g]
  BY <1>c, <1>m DEF AddedSinkFails, IInv
<1>4. \A g \in Entries : Quiet(g)' => Quiet(g) \/ queue[g] = <<>>
  BY <1>c, <1>m DEF AddedSinkFails, IInv, Quiet
<1>5. running => running' \/ \A p \in Pushers : pc[p] = "idle"
  BY <1>c, <1>m DEF AddedSinkFails, IInv
<1>6. UNCHANGED Contract!vars
  BY <1>c, <1>m, <1>1 DEF AddedSinkFails, Contract!vars, Away
<1> QED
  BY <1>c, <1>m, <1>1, <1>2, <1>3, <1>4, <1>5, <1>6 DEF Elsewhere

\* Start is a step elsewhere, which the contract does not see.
LEMMA StartElse ==
  ASSUME IInv, CInv, NEW t \in Threads, Start(t) PROVE Elsewhere /\ UNCHANGED Contract!vars
<1> USE Sorts DEF TypeOK, Goto, Return, Call, Home, lockVars, tableVars, queueVars, entryVars
<1>c. t \notin Pushers
  BY DEF IInv, Start, Control, ControlOf, Stopping
<1>m. /\ \A p \in Pushers : pc'[p] = pc[p]
      /\ [g \in Entries |-> pc[g] \notin Away]' = [g \in Entries |-> pc[g] \notin Away]
  BY <1>c, Moves DEF IInv, Start, Control, ControlOf, Away, Ops, Labels
<1>1. UNCHANGED <<queue, last, nextPacket>>
  BY <1>c, <1>m DEF Start, IInv
<1>2. \A p \in Pushers : cur'[p] = cur[p] /\ todo'[p] = todo[p]
  BY <1>c, <1>m DEF Start, IInv
<1>3. \A p \in Pushers, g \in Entries :
        pc[p] = "push" /\ g \in todo[p] /\ (started[g] \/ closed[g]) => started'[g] \/ closed'[g]
  BY <1>c, <1>m DEF Start, IInv
<1>4. \A g \in Entries : Quiet(g)' => Quiet(g) \/ queue[g] = <<>>
  BY <1>c, <1>m DEF Start, IInv, Quiet
<1>5. running => running' \/ \A p \in Pushers : pc[p] = "idle"
  BY <1>c, <1>m DEF Start, IInv
<1>6. UNCHANGED Contract!vars
  BY <1>c, <1>m, <1>1 DEF Start, Contract!vars, Away
<1> QED
  BY <1>c, <1>m, <1>1, <1>2, <1>3, <1>4, <1>5, <1>6 DEF Elsewhere

\* StartRefused is a step elsewhere, which the contract does not see.
LEMMA StartRefusedElse ==
  ASSUME IInv, CInv, NEW t \in Threads, StartRefused(t) PROVE Elsewhere /\ UNCHANGED Contract!vars
<1> USE Sorts DEF TypeOK, Goto, Return, Call, Home, lockVars, tableVars, queueVars, entryVars
<1>c. t \notin Pushers
  BY DEF IInv, StartRefused, Control, ControlOf, Stopping
<1>m. /\ \A p \in Pushers : pc'[p] = pc[p]
      /\ [g \in Entries |-> pc[g] \notin Away]' = [g \in Entries |-> pc[g] \notin Away]
  BY <1>c, Moves DEF IInv, StartRefused, Control, ControlOf, Away, Ops, Labels
<1>1. UNCHANGED <<queue, last, nextPacket>>
  BY <1>c, <1>m DEF StartRefused, IInv
<1>2. \A p \in Pushers : cur'[p] = cur[p] /\ todo'[p] = todo[p]
  BY <1>c, <1>m DEF StartRefused, IInv
<1>3. \A p \in Pushers, g \in Entries :
        pc[p] = "push" /\ g \in todo[p] /\ (started[g] \/ closed[g]) => started'[g] \/ closed'[g]
  BY <1>c, <1>m DEF StartRefused, IInv
<1>4. \A g \in Entries : Quiet(g)' => Quiet(g) \/ queue[g] = <<>>
  BY <1>c, <1>m DEF StartRefused, IInv, Quiet
<1>5. running => running' \/ \A p \in Pushers : pc[p] = "idle"
  BY <1>c, <1>m DEF StartRefused, IInv
<1>6. UNCHANGED Contract!vars
  BY <1>c, <1>m, <1>1 DEF StartRefused, Contract!vars, Away
<1> QED
  BY <1>c, <1>m, <1>1, <1>2, <1>3, <1>4, <1>5, <1>6 DEF Elsewhere

\* StartFanout is a step elsewhere, which the contract does not see.
LEMMA StartFanoutElse ==
  ASSUME IInv, CInv, NEW t \in Threads, StartFanout(t) PROVE Elsewhere /\ UNCHANGED Contract!vars
<1> USE Sorts DEF TypeOK, Goto, Return, Call, Home, lockVars, tableVars, queueVars, entryVars
<1>c. t \notin Pushers
  BY DEF IInv, StartFanout, Control, ControlOf, Stopping
<1>m. /\ \A p \in Pushers : pc'[p] = pc[p]
      /\ [g \in Entries |-> pc[g] \notin Away]' = [g \in Entries |-> pc[g] \notin Away]
  BY <1>c, Moves DEF IInv, StartFanout, Control, ControlOf, Away, Ops, Labels
<1>1. UNCHANGED <<queue, last, nextPacket>>
  BY <1>c, <1>m DEF StartFanout, IInv
<1>2. \A p \in Pushers : cur'[p] = cur[p] /\ todo'[p] = todo[p]
  BY <1>c, <1>m DEF StartFanout, IInv
<1>3. \A p \in Pushers, g \in Entries :
        pc[p] = "push" /\ g \in todo[p] /\ (started[g] \/ closed[g]) => started'[g] \/ closed'[g]
  BY <1>c, <1>m DEF StartFanout, IInv
<1>4. \A g \in Entries : Quiet(g)' => Quiet(g) \/ queue[g] = <<>>
  BY <1>c, <1>m DEF StartFanout, IInv, Quiet
<1>5. running => running' \/ \A p \in Pushers : pc[p] = "idle"
  BY <1>c, <1>m DEF StartFanout, IInv
<1>6. UNCHANGED Contract!vars
  BY <1>c, <1>m, <1>1 DEF StartFanout, Contract!vars, Away
<1> QED
  BY <1>c, <1>m, <1>1, <1>2, <1>3, <1>4, <1>5, <1>6 DEF Elsewhere

\* StartNext is a step elsewhere, which the contract does not see.
LEMMA StartNextElse ==
  ASSUME IInv, CInv, NEW t \in Threads, NEW e \in Entries, StartNext(t, e) PROVE Elsewhere /\ UNCHANGED Contract!vars
<1> USE Sorts DEF TypeOK, Goto, Return, Call, Home, lockVars, tableVars, queueVars, entryVars
<1>c. /\ t \notin Pushers /\ queue[e] = <<>> /\ \A p \in Pushers : pc[p] = "idle"
  BY DEF IInv, CInv, Queues, Dispatches, StartNext, IsFirst, Control, ControlOf, Progress, ProgressOf, HoldsLifecycle
<1>m. /\ \A p \in Pushers : pc'[p] = pc[p]
      /\ [g \in Entries |-> pc[g] \notin Away]' = [g \in Entries |-> pc[g] \notin Away]
  BY <1>c, Moves DEF IInv, StartNext, Reset, IsFirst, Control, ControlOf, Away, Ops, Labels
<1>1. UNCHANGED <<queue, last, nextPacket>>
  BY <1>c, <1>m DEF StartNext, Reset, IsFirst, IInv
<1>2. \A p \in Pushers : cur'[p] = cur[p] /\ todo'[p] = todo[p]
  BY <1>c, <1>m DEF StartNext, Reset, IsFirst, IInv
<1>3. \A p \in Pushers, g \in Entries :
        pc[p] = "push" /\ g \in todo[p] /\ (started[g] \/ closed[g]) => started'[g] \/ closed'[g]
  BY <1>c, <1>m DEF StartNext, Reset, IsFirst, IInv
<1>4. \A g \in Entries : Quiet(g)' => Quiet(g) \/ queue[g] = <<>>
  BY <1>c, <1>m DEF StartNext, Reset, IsFirst, IInv, Quiet
<1>5. running => running' \/ \A p \in Pushers : pc[p] = "idle"
  BY <1>c, <1>m DEF StartNext, Reset, IsFirst, IInv
<1>6. UNCHANGED Contract!vars
  BY <1>c, <1>m, <1>1 DEF StartNext, Reset, IsFirst, Contract!vars, Away
<1> QED
  BY <1>c, <1>m, <1>1, <1>2, <1>3, <1>4, <1>5, <1>6 DEF Elsewhere

\* StartDone is a step elsewhere, which the contract does not see.
LEMMA StartDoneElse ==
  ASSUME IInv, CInv, NEW t \in Threads, StartDone(t) PROVE Elsewhere /\ UNCHANGED Contract!vars
<1> USE Sorts DEF TypeOK, Goto, Return, Call, Home, lockVars, tableVars, queueVars, entryVars
<1>c. t \notin Pushers
  BY DEF IInv, StartDone, Control, ControlOf, Stopping
<1>m. /\ \A p \in Pushers : pc'[p] = pc[p]
      /\ [g \in Entries |-> pc[g] \notin Away]' = [g \in Entries |-> pc[g] \notin Away]
  BY <1>c, Moves DEF IInv, StartDone, Control, ControlOf, Away, Ops, Labels
<1>1. UNCHANGED <<queue, last, nextPacket>>
  BY <1>c, <1>m DEF StartDone, IInv
<1>2. \A p \in Pushers : cur'[p] = cur[p] /\ todo'[p] = todo[p]
  BY <1>c, <1>m DEF StartDone, IInv
<1>3. \A p \in Pushers, g \in Entries :
        pc[p] = "push" /\ g \in todo[p] /\ (started[g] \/ closed[g]) => started'[g] \/ closed'[g]
  BY <1>c, <1>m DEF StartDone, IInv
<1>4. \A g \in Entries : Quiet(g)' => Quiet(g) \/ queue[g] = <<>>
  BY <1>c, <1>m DEF StartDone, IInv, Quiet
<1>5. running => running' \/ \A p \in Pushers : pc[p] = "idle"
  BY <1>c, <1>m DEF StartDone, IInv
<1>6. UNCHANGED Contract!vars
  BY <1>c, <1>m, <1>1 DEF StartDone, Contract!vars, Away
<1> QED
  BY <1>c, <1>m, <1>1, <1>2, <1>3, <1>4, <1>5, <1>6 DEF Elsewhere

\* StartFailsLater is a step elsewhere, which the contract does not see.
LEMMA StartFailsLaterElse ==
  ASSUME IInv, CInv, NEW t \in Threads, StartFailsLater(t) PROVE Elsewhere /\ UNCHANGED Contract!vars
<1> USE Sorts DEF TypeOK, Goto, Return, Call, Home, lockVars, tableVars, queueVars, entryVars
<1>c. t \notin Pushers
  BY DEF IInv, StartFailsLater, Control, ControlOf, Stopping
<1>m. /\ \A p \in Pushers : pc'[p] = pc[p]
      /\ [g \in Entries |-> pc[g] \notin Away]' = [g \in Entries |-> pc[g] \notin Away]
  BY <1>c, Moves DEF IInv, StartFailsLater, Control, ControlOf, Away, Ops, Labels
<1>1. UNCHANGED <<queue, last, nextPacket>>
  BY <1>c, <1>m DEF StartFailsLater, IInv
<1>2. \A p \in Pushers : cur'[p] = cur[p] /\ todo'[p] = todo[p]
  BY <1>c, <1>m DEF StartFailsLater, IInv
<1>3. \A p \in Pushers, g \in Entries :
        pc[p] = "push" /\ g \in todo[p] /\ (started[g] \/ closed[g]) => started'[g] \/ closed'[g]
  BY <1>c, <1>m DEF StartFailsLater, IInv
<1>4. \A g \in Entries : Quiet(g)' => Quiet(g) \/ queue[g] = <<>>
  BY <1>c, <1>m DEF StartFailsLater, IInv, Quiet
<1>5. running => running' \/ \A p \in Pushers : pc[p] = "idle"
  BY <1>c, <1>m DEF StartFailsLater, IInv
<1>6. UNCHANGED Contract!vars
  BY <1>c, <1>m, <1>1 DEF StartFailsLater, Contract!vars, Away
<1> QED
  BY <1>c, <1>m, <1>1, <1>2, <1>3, <1>4, <1>5, <1>6 DEF Elsewhere

\* SinkFails is a step elsewhere, which the contract does not see.
LEMMA SinkFailsElse ==
  ASSUME IInv, CInv, NEW t \in Threads, SinkFails(t) PROVE Elsewhere /\ UNCHANGED Contract!vars
<1> USE Sorts DEF TypeOK, Goto, Return, Call, Home, lockVars, tableVars, queueVars, entryVars
<1>c. t \notin Pushers
  BY DEF IInv, SinkFails, Control, ControlOf, Stopping
<1>m. /\ \A p \in Pushers : pc'[p] = pc[p]
      /\ [g \in Entries |-> pc[g] \notin Away]' = [g \in Entries |-> pc[g] \notin Away]
  BY <1>c, Moves DEF IInv, SinkFails, Control, ControlOf, Away, Ops, Labels
<1>1. UNCHANGED <<queue, last, nextPacket>>
  BY <1>c, <1>m DEF SinkFails, IInv
<1>2. \A p \in Pushers : cur'[p] = cur[p] /\ todo'[p] = todo[p]
  BY <1>c, <1>m DEF SinkFails, IInv
<1>3. \A p \in Pushers, g \in Entries :
        pc[p] = "push" /\ g \in todo[p] /\ (started[g] \/ closed[g]) => started'[g] \/ closed'[g]
  BY <1>c, <1>m DEF SinkFails, IInv
<1>4. \A g \in Entries : Quiet(g)' => Quiet(g) \/ queue[g] = <<>>
  BY <1>c, <1>m DEF SinkFails, IInv, Quiet
<1>5. running => running' \/ \A p \in Pushers : pc[p] = "idle"
  BY <1>c, <1>m DEF SinkFails, IInv
<1>6. UNCHANGED Contract!vars
  BY <1>c, <1>m, <1>1 DEF SinkFails, Contract!vars, Away
<1> QED
  BY <1>c, <1>m, <1>1, <1>2, <1>3, <1>4, <1>5, <1>6 DEF Elsewhere

\* Remove is a step elsewhere, which the contract does not see.
LEMMA RemoveElse ==
  ASSUME IInv, CInv, NEW t \in Threads, NEW e \in Entries, Remove(t, e) PROVE Elsewhere /\ UNCHANGED Contract!vars
<1> USE Sorts DEF TypeOK, Goto, Return, Call, Home, lockVars, tableVars, queueVars, entryVars
<1>c. t \notin Pushers
  BY DEF IInv, Remove, Control, ControlOf, Stopping
<1>m. /\ \A p \in Pushers : pc'[p] = pc[p]
      /\ [g \in Entries |-> pc[g] \notin Away]' = [g \in Entries |-> pc[g] \notin Away]
  BY <1>c, Moves DEF IInv, Remove, Control, ControlOf, Away, Ops, Labels
<1>1. UNCHANGED <<queue, last, nextPacket>>
  BY <1>c, <1>m DEF Remove, IInv
<1>2. \A p \in Pushers : cur'[p] = cur[p] /\ todo'[p] = todo[p]
  BY <1>c, <1>m DEF Remove, IInv
<1>3. \A p \in Pushers, g \in Entries :
        pc[p] = "push" /\ g \in todo[p] /\ (started[g] \/ closed[g]) => started'[g] \/ closed'[g]
  BY <1>c, <1>m DEF Remove, IInv
<1>4. \A g \in Entries : Quiet(g)' => Quiet(g) \/ queue[g] = <<>>
  BY <1>c, <1>m DEF Remove, IInv, Quiet
<1>5. running => running' \/ \A p \in Pushers : pc[p] = "idle"
  BY <1>c, <1>m DEF Remove, IInv
<1>6. UNCHANGED Contract!vars
  BY <1>c, <1>m, <1>1 DEF Remove, Contract!vars, Away
<1> QED
  BY <1>c, <1>m, <1>1, <1>2, <1>3, <1>4, <1>5, <1>6 DEF Elsewhere

\* RemoveRefused is a step elsewhere, which the contract does not see.
LEMMA RemoveRefusedElse ==
  ASSUME IInv, CInv, NEW t \in Threads, NEW e \in Entries, RemoveRefused(t, e) PROVE Elsewhere /\ UNCHANGED Contract!vars
<1> USE Sorts DEF TypeOK, Goto, Return, Call, Home, lockVars, tableVars, queueVars, entryVars
<1>c. t \notin Pushers
  BY DEF IInv, RemoveRefused, Control, ControlOf, Stopping
<1>m. /\ \A p \in Pushers : pc'[p] = pc[p]
      /\ [g \in Entries |-> pc[g] \notin Away]' = [g \in Entries |-> pc[g] \notin Away]
  BY <1>c, Moves DEF IInv, RemoveRefused, Control, ControlOf, Away, Ops, Labels
<1>1. UNCHANGED <<queue, last, nextPacket>>
  BY <1>c, <1>m DEF RemoveRefused, IInv
<1>2. \A p \in Pushers : cur'[p] = cur[p] /\ todo'[p] = todo[p]
  BY <1>c, <1>m DEF RemoveRefused, IInv
<1>3. \A p \in Pushers, g \in Entries :
        pc[p] = "push" /\ g \in todo[p] /\ (started[g] \/ closed[g]) => started'[g] \/ closed'[g]
  BY <1>c, <1>m DEF RemoveRefused, IInv
<1>4. \A g \in Entries : Quiet(g)' => Quiet(g) \/ queue[g] = <<>>
  BY <1>c, <1>m DEF RemoveRefused, IInv, Quiet
<1>5. running => running' \/ \A p \in Pushers : pc[p] = "idle"
  BY <1>c, <1>m DEF RemoveRefused, IInv
<1>6. UNCHANGED Contract!vars
  BY <1>c, <1>m, <1>1 DEF RemoveRefused, Contract!vars, Away
<1> QED
  BY <1>c, <1>m, <1>1, <1>2, <1>3, <1>4, <1>5, <1>6 DEF Elsewhere

\* Stop is a step elsewhere, which the contract does not see.
LEMMA StopElse ==
  ASSUME IInv, CInv, NEW t \in Threads, Stop(t) PROVE Elsewhere /\ UNCHANGED Contract!vars
<1> USE Sorts DEF TypeOK, Goto, Return, Call, Home, lockVars, tableVars, queueVars, entryVars
<1>c. t \notin Pushers
  BY DEF IInv, Stop, Control, ControlOf, Stopping
<1>m. /\ \A p \in Pushers : pc'[p] = pc[p]
      /\ [g \in Entries |-> pc[g] \notin Away]' = [g \in Entries |-> pc[g] \notin Away]
  BY <1>c, Moves DEF IInv, Stop, Control, ControlOf, Away, Ops, Labels
<1>1. UNCHANGED <<queue, last, nextPacket>>
  BY <1>c, <1>m DEF Stop, IInv
<1>2. \A p \in Pushers : cur'[p] = cur[p] /\ todo'[p] = todo[p]
  BY <1>c, <1>m DEF Stop, IInv
<1>3. \A p \in Pushers, g \in Entries :
        pc[p] = "push" /\ g \in todo[p] /\ (started[g] \/ closed[g]) => started'[g] \/ closed'[g]
  BY <1>c, <1>m DEF Stop, IInv
<1>4. \A g \in Entries : Quiet(g)' => Quiet(g) \/ queue[g] = <<>>
  BY <1>c, <1>m DEF Stop, IInv, Quiet
<1>5. running => running' \/ \A p \in Pushers : pc[p] = "idle"
  BY <1>c, <1>m DEF Stop, IInv
<1>6. UNCHANGED Contract!vars
  BY <1>c, <1>m, <1>1 DEF Stop, Contract!vars, Away
<1> QED
  BY <1>c, <1>m, <1>1, <1>2, <1>3, <1>4, <1>5, <1>6 DEF Elsewhere

\* StopRefused is a step elsewhere, which the contract does not see.
LEMMA StopRefusedElse ==
  ASSUME IInv, CInv, NEW t \in Threads, StopRefused(t) PROVE Elsewhere /\ UNCHANGED Contract!vars
<1> USE Sorts DEF TypeOK, Goto, Return, Call, Home, lockVars, tableVars, queueVars, entryVars
<1>c. t \notin Pushers
  BY DEF IInv, StopRefused, Control, ControlOf, Stopping
<1>m. /\ \A p \in Pushers : pc'[p] = pc[p]
      /\ [g \in Entries |-> pc[g] \notin Away]' = [g \in Entries |-> pc[g] \notin Away]
  BY <1>c, Moves DEF IInv, StopRefused, Control, ControlOf, Away, Ops, Labels
<1>1. UNCHANGED <<queue, last, nextPacket>>
  BY <1>c, <1>m DEF StopRefused, IInv
<1>2. \A p \in Pushers : cur'[p] = cur[p] /\ todo'[p] = todo[p]
  BY <1>c, <1>m DEF StopRefused, IInv
<1>3. \A p \in Pushers, g \in Entries :
        pc[p] = "push" /\ g \in todo[p] /\ (started[g] \/ closed[g]) => started'[g] \/ closed'[g]
  BY <1>c, <1>m DEF StopRefused, IInv
<1>4. \A g \in Entries : Quiet(g)' => Quiet(g) \/ queue[g] = <<>>
  BY <1>c, <1>m DEF StopRefused, IInv, Quiet
<1>5. running => running' \/ \A p \in Pushers : pc[p] = "idle"
  BY <1>c, <1>m DEF StopRefused, IInv
<1>6. UNCHANGED Contract!vars
  BY <1>c, <1>m, <1>1 DEF StopRefused, Contract!vars, Away
<1> QED
  BY <1>c, <1>m, <1>1, <1>2, <1>3, <1>4, <1>5, <1>6 DEF Elsewhere

\* StopLock is a step elsewhere, which the contract does not see.
LEMMA StopLockElse ==
  ASSUME IInv, CInv, NEW t \in Threads, StopLock(t) PROVE Elsewhere /\ UNCHANGED Contract!vars
<1> USE Sorts DEF TypeOK, Goto, Return, Call, Home, lockVars, tableVars, queueVars, entryVars
<1>c. t \notin Pushers
  BY DEF IInv, StopLock, Control, ControlOf, Stopping
<1>m. /\ \A p \in Pushers : pc'[p] = pc[p]
      /\ [g \in Entries |-> pc[g] \notin Away]' = [g \in Entries |-> pc[g] \notin Away]
  BY <1>c, Moves DEF IInv, StopLock, Control, ControlOf, Away, Ops, Labels
<1>1. UNCHANGED <<queue, last, nextPacket>>
  BY <1>c, <1>m DEF StopLock, IInv
<1>2. \A p \in Pushers : cur'[p] = cur[p] /\ todo'[p] = todo[p]
  BY <1>c, <1>m DEF StopLock, IInv
<1>3. \A p \in Pushers, g \in Entries :
        pc[p] = "push" /\ g \in todo[p] /\ (started[g] \/ closed[g]) => started'[g] \/ closed'[g]
  BY <1>c, <1>m DEF StopLock, IInv
<1>4. \A g \in Entries : Quiet(g)' => Quiet(g) \/ queue[g] = <<>>
  BY <1>c, <1>m DEF StopLock, IInv, Quiet
<1>5. running => running' \/ \A p \in Pushers : pc[p] = "idle"
  BY <1>c, <1>m DEF StopLock, IInv
<1>6. UNCHANGED Contract!vars
  BY <1>c, <1>m, <1>1 DEF StopLock, Contract!vars, Away
<1> QED
  BY <1>c, <1>m, <1>1, <1>2, <1>3, <1>4, <1>5, <1>6 DEF Elsewhere

\* StopFanout is a step elsewhere, which the contract does not see.
LEMMA StopFanoutElse ==
  ASSUME IInv, CInv, NEW t \in Threads, StopFanout(t) PROVE Elsewhere /\ UNCHANGED Contract!vars
<1> USE Sorts DEF TypeOK, Goto, Return, Call, Home, lockVars, tableVars, queueVars, entryVars
<1>c. t \notin Pushers /\ \A p \in Pushers : pc[p] = "idle"
  BY DEF IInv, CInv, OneEncoder, StopFanout, Control, ControlOf
<1>m. /\ \A p \in Pushers : pc'[p] = pc[p]
      /\ [g \in Entries |-> pc[g] \notin Away]' = [g \in Entries |-> pc[g] \notin Away]
  BY <1>c, Moves DEF IInv, StopFanout, Control, ControlOf, Away, Ops, Labels
<1>1. UNCHANGED <<queue, last, nextPacket>>
  BY <1>c, <1>m DEF StopFanout, IInv
<1>2. \A p \in Pushers : cur'[p] = cur[p] /\ todo'[p] = todo[p]
  BY <1>c, <1>m DEF StopFanout, IInv
<1>3. \A p \in Pushers, g \in Entries :
        pc[p] = "push" /\ g \in todo[p] /\ (started[g] \/ closed[g]) => started'[g] \/ closed'[g]
  BY <1>c, <1>m DEF StopFanout, IInv
<1>4. \A g \in Entries : Quiet(g)' => Quiet(g) \/ queue[g] = <<>>
  BY <1>c, <1>m DEF StopFanout, IInv, Quiet
<1>5. running => running' \/ \A p \in Pushers : pc[p] = "idle"
  BY <1>c, <1>m DEF StopFanout, IInv
<1>6. UNCHANGED Contract!vars
  BY <1>c, <1>m, <1>1 DEF StopFanout, Contract!vars, Away
<1> QED
  BY <1>c, <1>m, <1>1, <1>2, <1>3, <1>4, <1>5, <1>6 DEF Elsewhere

\* StopEntry is a step elsewhere, which the contract does not see.
LEMMA StopEntryElse ==
  ASSUME IInv, CInv, NEW t \in Threads, NEW e \in Entries, StopEntry(t, e) PROVE Elsewhere /\ UNCHANGED Contract!vars
<1> USE Sorts DEF TypeOK, Goto, Return, Call, Home, lockVars, tableVars, queueVars, entryVars
<1>c. t \notin Pushers /\ worker[e] = "live"
  BY DEF IInv, StopEntry, Control, ControlOf, Stopping, EntryStates, EntryState
<1>m. /\ \A p \in Pushers : pc'[p] = pc[p]
      /\ [g \in Entries |-> pc[g] \notin Away]' = [g \in Entries |-> pc[g] \notin Away]
  BY <1>c, Moves DEF IInv, StopEntry, Control, ControlOf, Away, Ops, Labels
<1>1. UNCHANGED <<queue, last, nextPacket>>
  BY <1>c, <1>m DEF StopEntry, IInv
<1>2. \A p \in Pushers : cur'[p] = cur[p] /\ todo'[p] = todo[p]
  BY <1>c, <1>m DEF StopEntry, IInv
<1>3. \A p \in Pushers, g \in Entries :
        pc[p] = "push" /\ g \in todo[p] /\ (started[g] \/ closed[g]) => started'[g] \/ closed'[g]
  BY <1>c, <1>m DEF StopEntry, IInv
<1>4. \A g \in Entries : Quiet(g)' => Quiet(g) \/ queue[g] = <<>>
  BY <1>c, <1>m DEF StopEntry, IInv, Quiet
<1>5. running => running' \/ \A p \in Pushers : pc[p] = "idle"
  BY <1>c, <1>m DEF StopEntry, IInv
<1>6. UNCHANGED Contract!vars
  BY <1>c, <1>m, <1>1 DEF StopEntry, Contract!vars, Away
<1> QED
  BY <1>c, <1>m, <1>1, <1>2, <1>3, <1>4, <1>5, <1>6 DEF Elsewhere

\* SkipEntry is a step elsewhere, which the contract does not see.
LEMMA SkipEntryElse ==
  ASSUME IInv, CInv, NEW t \in Threads, NEW e \in Entries, SkipEntry(t, e) PROVE Elsewhere /\ UNCHANGED Contract!vars
<1> USE Sorts DEF TypeOK, Goto, Return, Call, Home, lockVars, tableVars, queueVars, entryVars
<1>c. t \notin Pushers
  BY DEF IInv, SkipEntry, Control, ControlOf, Stopping
<1>1. UNCHANGED <<queue, last, nextPacket>>
  BY <1>c DEF SkipEntry, IInv
<1>2. \A p \in Pushers : cur'[p] = cur[p] /\ todo'[p] = todo[p]
  BY <1>c DEF SkipEntry, IInv
<1>3. \A p \in Pushers, g \in Entries :
        pc[p] = "push" /\ g \in todo[p] /\ (started[g] \/ closed[g]) => started'[g] \/ closed'[g]
  BY <1>c DEF SkipEntry, IInv
<1>4. \A g \in Entries : Quiet(g)' => Quiet(g) \/ queue[g] = <<>>
  BY <1>c DEF SkipEntry, IInv, Quiet
<1>5. running => running' \/ \A p \in Pushers : pc[p] = "idle"
  BY <1>c DEF SkipEntry, IInv
<1>6. UNCHANGED Contract!vars
  BY <1>c, <1>1 DEF SkipEntry, Contract!vars, Away
<1> QED
  BY <1>c, <1>1, <1>2, <1>3, <1>4, <1>5, <1>6 DEF Elsewhere, SkipEntry

\* Join is a step elsewhere, which the contract does not see.
LEMMA JoinElse ==
  ASSUME IInv, CInv, NEW t \in Threads, Join(t) PROVE Elsewhere /\ UNCHANGED Contract!vars
<1> USE Sorts DEF TypeOK, Goto, Return, Call, Home, lockVars, tableVars, queueVars, entryVars
<1>c. t \notin Pushers /\ cur[t] \in Entries /\ ~Quiet(cur[t])' /\ cur[t] # t
  BY DEF IInv, Join, Control, ControlOf, Teardowns, Teardown, TearingDown, Quiet
<1>m. /\ \A p \in Pushers : pc'[p] = pc[p]
      /\ [g \in Entries |-> pc[g] \notin Away]' = [g \in Entries |-> pc[g] \notin Away]
  BY <1>c, Moves DEF IInv, Join, Control, ControlOf, Away, Ops, Labels
<1>1. UNCHANGED <<queue, last, nextPacket>>
  BY <1>c, <1>m DEF Join, IInv
<1>2. \A p \in Pushers : cur'[p] = cur[p] /\ todo'[p] = todo[p]
  BY <1>c, <1>m DEF Join, IInv
<1>3. \A p \in Pushers, g \in Entries :
        pc[p] = "push" /\ g \in todo[p] /\ (started[g] \/ closed[g]) => started'[g] \/ closed'[g]
  BY <1>c, <1>m DEF Join, IInv
<1>4. \A g \in Entries : Quiet(g)' => Quiet(g) \/ queue[g] = <<>>
  BY <1>c, <1>m DEF Join, IInv, Quiet
<1>5. running => running' \/ \A p \in Pushers : pc[p] = "idle"
  BY <1>c, <1>m DEF Join, IInv
<1>6. UNCHANGED Contract!vars
  BY <1>c, <1>m, <1>1 DEF Join, Contract!vars, Away
<1> QED
  BY <1>c, <1>m, <1>1, <1>2, <1>3, <1>4, <1>5, <1>6 DEF Elsewhere

\* StopDone is a step elsewhere, which the contract does not see.
LEMMA StopDoneElse ==
  ASSUME IInv, CInv, NEW t \in Threads, StopDone(t) PROVE Elsewhere /\ UNCHANGED Contract!vars
<1> USE Sorts DEF TypeOK, Goto, Return, Call, Home, lockVars, tableVars, queueVars, entryVars
<1>c. t \notin Pushers
  BY DEF IInv, StopDone, Control, ControlOf, Stopping
<1>m. /\ \A p \in Pushers : pc'[p] = pc[p]
      /\ [g \in Entries |-> pc[g] \notin Away]' = [g \in Entries |-> pc[g] \notin Away]
  BY <1>c, Moves DEF IInv, StopDone, Release, Control, ControlOf, Away, Ops, Labels
<1>1. UNCHANGED <<queue, last, nextPacket>>
  BY <1>c, <1>m DEF StopDone, Release, IInv
<1>2. \A p \in Pushers : cur'[p] = cur[p] /\ todo'[p] = todo[p]
  BY <1>c, <1>m DEF StopDone, Release, IInv
<1>3. \A p \in Pushers, g \in Entries :
        pc[p] = "push" /\ g \in todo[p] /\ (started[g] \/ closed[g]) => started'[g] \/ closed'[g]
  BY <1>c, <1>m DEF StopDone, Release, IInv
<1>4. \A g \in Entries : Quiet(g)' => Quiet(g) \/ queue[g] = <<>>
  BY <1>c, <1>m DEF StopDone, Release, IInv, Quiet
<1>5. running => running' \/ \A p \in Pushers : pc[p] = "idle"
  BY <1>c, <1>m DEF StopDone, Release, IInv
<1>6. UNCHANGED Contract!vars
  BY <1>c, <1>m, <1>1 DEF StopDone, Release, Contract!vars, Away
<1> QED
  BY <1>c, <1>m, <1>1, <1>2, <1>3, <1>4, <1>5, <1>6 DEF Elsewhere

\* The sink of an added entry starts: the contract's Begin.
LEMMA AddedSinkStartsElse ==
  ASSUME IInv, CInv, NEW t \in Threads, AddedSinkStarts(t) PROVE Elsewhere /\ Contract!Begin(cur[t])
<1> USE Sorts DEF TypeOK, Goto, Return, Call, Home, lockVars, tableVars, queueVars, entryVars
<1>c. /\ t \notin Pushers /\ cur[t] \in Entries /\ cur[t] # t /\ pc[cur[t]] = "off"
      /\ sink[cur[t]] = "stopped"
  <2>1. t \notin Pushers /\ cur[t] \in Entries /\ Quiet(cur[t])
    BY DEF IInv, AddedSinkStarts, Control, ControlOf, Starts, StartOf
  <2>2. pc[cur[t]] = "off"
    BY <2>1 DEF IInv, EntryStates, EntryState, Quiet
  <2> QED
    BY <2>1, <2>2 DEF AddedSinkStarts, Quiet
<1>1. UNCHANGED <<queue, last, nextPacket>>
  BY <1>c DEF AddedSinkStarts, Launch, IInv
<1>2. \A p \in Pushers : pc'[p] = pc[p] /\ cur'[p] = cur[p] /\ todo'[p] = todo[p]
  <2>1. /\ \A p \in Pushers : p # t /\ p # cur[t] /\ p \in Threads
        /\ pc \in [Threads -> Labels] /\ cur \in [Threads -> Nat] /\ todo \in [Threads -> SUBSET Entries]
    BY <1>c DEF IInv
  <2> QED
    BY <2>1 DEF AddedSinkStarts, Launch
<1>3. \A p \in Pushers, g \in Entries :
        pc[p] = "push" /\ g \in todo[p] /\ (started[g] \/ closed[g]) => started'[g] \/ closed'[g]
  BY <1>c DEF AddedSinkStarts, Launch, IInv
<1>4. \A g \in Entries : Quiet(g)' => Quiet(g) \/ queue[g] = <<>>
  BY <1>c DEF AddedSinkStarts, Launch, IInv, Quiet
<1>5. running => running' \/ \A p \in Pushers : pc[p] = "idle"
  BY <1>c DEF AddedSinkStarts, Launch, IInv
<1>6. Contract!Begin(cur[t])
  <2>1. [g \in Entries |-> pc[g] \notin Away]' = [g \in Entries |-> pc[g] \notin Away]
    BY <1>c DEF AddedSinkStarts, IInv, Away
  <2> QED
    BY <1>1, <1>c, <2>1 DEF AddedSinkStarts, Launch, Contract!Begin, Away
<1> QED
  BY <1>1, <1>2, <1>3, <1>4, <1>5, <1>6 DEF Elsewhere

\* A sink of start()'s loop starts: the contract's Begin.
LEMMA SinkStartsElse ==
  ASSUME IInv, CInv, NEW t \in Threads, SinkStarts(t) PROVE Elsewhere /\ Contract!Begin(cur[t])
<1> USE Sorts DEF TypeOK, Goto, Return, Call, Home, lockVars, tableVars, queueVars, entryVars
<1>c. /\ t \notin Pushers /\ cur[t] \in Entries /\ cur[t] # t /\ pc[cur[t]] = "off"
      /\ sink[cur[t]] = "stopped"
  <2>1. t \notin Pushers /\ cur[t] \in Entries /\ Quiet(cur[t])
    BY DEF IInv, SinkStarts, Control, ControlOf, Starts, StartOf
  <2>2. pc[cur[t]] = "off"
    BY <2>1 DEF IInv, EntryStates, EntryState, Quiet
  <2> QED
    BY <2>1, <2>2 DEF SinkStarts, Quiet
<1>1. UNCHANGED <<queue, last, nextPacket>>
  BY <1>c DEF SinkStarts, Launch, IInv
<1>2. \A p \in Pushers : pc'[p] = pc[p] /\ cur'[p] = cur[p] /\ todo'[p] = todo[p]
  <2>1. /\ \A p \in Pushers : p # t /\ p # cur[t] /\ p \in Threads
        /\ pc \in [Threads -> Labels] /\ cur \in [Threads -> Nat] /\ todo \in [Threads -> SUBSET Entries]
    BY <1>c DEF IInv
  <2> QED
    BY <2>1 DEF SinkStarts, Launch
<1>3. \A p \in Pushers, g \in Entries :
        pc[p] = "push" /\ g \in todo[p] /\ (started[g] \/ closed[g]) => started'[g] \/ closed'[g]
  BY <1>c DEF SinkStarts, Launch, IInv
<1>4. \A g \in Entries : Quiet(g)' => Quiet(g) \/ queue[g] = <<>>
  BY <1>c DEF SinkStarts, Launch, IInv, Quiet
<1>5. running => running' \/ \A p \in Pushers : pc[p] = "idle"
  BY <1>c DEF SinkStarts, Launch, IInv
<1>6. Contract!Begin(cur[t])
  <2>1. [g \in Entries |-> pc[g] \notin Away]' = [g \in Entries |-> pc[g] \notin Away]
    BY <1>c DEF SinkStarts, IInv, Away
  <2> QED
    BY <1>1, <1>c, <2>1 DEF SinkStarts, Launch, Contract!Begin, Away
<1> QED
  BY <1>1, <1>2, <1>3, <1>4, <1>5, <1>6 DEF Elsewhere

\* The sink is stopped: the contract's End.
LEMMA SinkStopElse ==
  ASSUME IInv, CInv, NEW t \in Threads, SinkStop(t) PROVE Elsewhere /\ Contract!End(cur[t])
<1> USE Sorts DEF TypeOK, Goto, Return, Call, Home, lockVars, tableVars, queueVars, entryVars
<1>c. /\ t \notin Pushers /\ cur[t] \in Entries /\ cur[t] # t /\ pc[cur[t]] = "off"
      /\ sink[cur[t]] = "started" /\ queue[cur[t]] = <<>>
  <2>1. t \notin Pushers /\ cur[t] \in Entries /\ TearingDown(t, cur[t])
    BY DEF IInv, SinkStop, Control, ControlOf, TearingDown
  <2>2. Teardown(t, cur[t])
    BY <2>1 DEF IInv, Teardowns
  <2>3. pc[cur[t]] = "off"
    BY <2>1, <2>2 DEF IInv, EntryStates, EntryState, Teardown, SinkStop
  <2> QED
    BY <2>1, <2>2, <2>3 DEF SinkStop, Teardown
<1>1. UNCHANGED <<queue, last, nextPacket>>
  BY <1>c DEF SinkStop, IInv
<1>2. \A p \in Pushers : pc'[p] = pc[p] /\ cur'[p] = cur[p] /\ todo'[p] = todo[p]
  BY <1>c DEF SinkStop, IInv, Control, ControlOf
<1>3. \A p \in Pushers, g \in Entries :
        pc[p] = "push" /\ g \in todo[p] /\ (started[g] \/ closed[g]) => started'[g] \/ closed'[g]
  BY <1>c DEF SinkStop, IInv
<1>4. \A g \in Entries : Quiet(g)' => Quiet(g) \/ queue[g] = <<>>
  BY <1>c DEF SinkStop, IInv, Quiet
<1>5. running => running' \/ \A p \in Pushers : pc[p] = "idle"
  BY <1>c DEF SinkStop, IInv
<1>6. Contract!End(cur[t])
  <2>1. [g \in Entries |-> pc[g] \notin Away]' = [g \in Entries |-> pc[g] \notin Away]
    BY <1>c DEF SinkStop, IInv, Away
  <2> QED
    BY <1>1, <1>c, <2>1 DEF SinkStop, Contract!End, Away
<1> QED
  BY <1>1, <1>2, <1>3, <1>4, <1>5, <1>6 DEF Elsewhere

\* consume() returned: the contract's Consumed.
LEMMA ConsumeDoneElse ==
  ASSUME IInv, CInv, NEW e \in Entries, ConsumeDone(e) PROVE Elsewhere /\ Contract!Consumed(e)
<1> USE Sorts DEF TypeOK, Goto, Return, Call, Home, lockVars, tableVars, queueVars, entryVars
<1>c. e \notin Pushers
  OBVIOUS
<1>1. UNCHANGED <<queue, last, nextPacket>>
  BY <1>c DEF ConsumeDone, IInv
<1>2. \A p \in Pushers : pc'[p] = pc[p] /\ cur'[p] = cur[p] /\ todo'[p] = todo[p]
  BY <1>c DEF ConsumeDone, IInv, Control, ControlOf
<1>3. \A p \in Pushers, g \in Entries :
        pc[p] = "push" /\ g \in todo[p] /\ (started[g] \/ closed[g]) => started'[g] \/ closed'[g]
  BY <1>c DEF ConsumeDone, IInv
<1>4. \A g \in Entries : Quiet(g)' => Quiet(g) \/ queue[g] = <<>>
  BY <1>c DEF ConsumeDone, IInv, Quiet
<1>5. running => running' \/ \A p \in Pushers : pc[p] = "idle"
  BY <1>c DEF ConsumeDone, IInv
<1>6. Contract!Consumed(e)
  <2>1. [g \in Entries |-> pc[g] \notin Away]' = [[g \in Entries |-> pc[g] \notin Away] EXCEPT ![e] = FALSE]
    BY DEF ConsumeDone, IInv, Away
  <2> QED
    BY <1>1, <2>1 DEF ConsumeDone, Contract!Consumed, Away
<1> QED
  BY <1>1, <1>2, <1>3, <1>4, <1>5, <1>6 DEF Elsewhere

\* WorkerExit is a step elsewhere, which the contract does not see.
LEMMA WorkerExitElse ==
  ASSUME IInv, CInv, NEW e \in Entries, WorkerExit(e) PROVE Elsewhere /\ UNCHANGED Contract!vars
<1> USE Sorts DEF TypeOK, Goto, Return, Call, Home, lockVars, tableVars, queueVars, entryVars
<1>c. e \notin Pushers
  OBVIOUS
<1>1. UNCHANGED <<queue, last, nextPacket>>
  BY <1>c DEF WorkerExit, IInv
<1>2. \A p \in Pushers : pc'[p] = pc[p] /\ cur'[p] = cur[p] /\ todo'[p] = todo[p]
  BY <1>c DEF WorkerExit, IInv, Control, ControlOf
<1>3. \A p \in Pushers, g \in Entries :
        pc[p] = "push" /\ g \in todo[p] /\ (started[g] \/ closed[g]) => started'[g] \/ closed'[g]
  BY <1>c DEF WorkerExit, IInv
<1>4. \A g \in Entries : Quiet(g)' => Quiet(g) \/ queue[g] = <<>>
  BY <1>c DEF WorkerExit, IInv, Quiet
<1>5. running => running' \/ \A p \in Pushers : pc[p] = "idle"
  BY <1>c DEF WorkerExit, IInv
<1>6. UNCHANGED Contract!vars
  <2>1. [g \in Entries |-> pc[g] \notin Away]' = [g \in Entries |-> pc[g] \notin Away]
    BY DEF WorkerExit, IInv, Away
  <2> QED
    BY <1>1, <2>1 DEF WorkerExit, Contract!vars, Away
<1> QED
  BY <1>1, <1>2, <1>3, <1>4, <1>5, <1>6 DEF Elsewhere

\* A new packet is the newest one, due at every registered entry.
LEMMA PushVideoPacketKeeps ==
  ASSUME IInv, CInv, NEW t \in Threads, PushVideoPacket(t) PROVE CInv' /\ UNCHANGED Contract!vars
<1> USE Sorts DEF TypeOK, Goto, Return, Call, Home, lockVars, tableVars, queueVars, entryVars
<1>1. t \in Pushers /\ running /\ ~ExternalPush /\ (\A p \in Pushers : p = t) /\ nextPacket \in 1 .. MaxPackets
  BY BoundsAssumption DEF PushVideoPacket, CInv, OneEncoder, Dispatches
<1>2. OneEncoder'
  BY DEF CInv, OneEncoder
<1>3. Dispatches'
  BY <1>1, BoundsAssumption DEF IInv, PushVideoPacket, Dispatches
<1>4. ASSUME NEW e \in Entries PROVE InOrder(e)' /\ (Quiet(e)' => queue'[e] = <<>>)
  <2>1. InOrder(e) /\ (Quiet(e) => queue[e] = <<>>)
    BY DEF CInv, Queues
  <2> QED
    BY SMTT(30), <1>1, <2>1 DEF IInv, PushVideoPacket, InOrder, Quiet
<1>5. ASSUME NEW p \in Pushers, NEW e \in Entries PROVE Newer(p, e)'
  <2>1. InOrder(e) /\ p = t
    BY <1>1 DEF CInv, Queues
  <2> QED
    BY <1>1, <2>1 DEF IInv, PushVideoPacket, InOrder, Newer, Due
<1>6. UNCHANGED Contract!vars
  BY <1>1 DEF PushVideoPacket, IInv, Contract!vars
<1> QED
  BY <1>2, <1>3, <1>4, <1>5, <1>6 DEF CInv, Queues

\* The loop over the snapshot begins at started entries.
LEMMA DispatchKeeps ==
  ASSUME IInv, CInv, NEW t \in Threads, Dispatch(t) PROVE CInv' /\ UNCHANGED Contract!vars
<1> USE Sorts DEF TypeOK, Goto, Return, Call, Home, lockVars, tableVars, queueVars, entryVars
<1>1. t \in Pushers /\ running /\ \A p \in Pushers : p = t
  BY DEF IInv, Control, ControlOf, Dispatch, CInv, OneEncoder, Dispatches
<1>2. OneEncoder'
  BY DEF CInv, OneEncoder
<1>3. Dispatches'
  BY <1>1 DEF IInv, Dispatch, CInv, Dispatches
<1>4. ASSUME NEW e \in Entries PROVE InOrder(e)' /\ (Quiet(e)' => queue'[e] = <<>>)
  <2>1. InOrder(e) /\ (Quiet(e) => queue[e] = <<>>)
    BY DEF CInv, Queues
  <2> QED
    BY <2>1 DEF Dispatch, InOrder, Quiet
<1>5. ASSUME NEW p \in Pushers, NEW e \in Entries PROVE Newer(p, e)'
  <2>1. Newer(p, e) /\ p = t
    BY <1>1 DEF CInv, Queues
  <2>2. e \in entries => started[e]
    BY <1>1 DEF IInv, Progress
  <2> QED
    BY <1>1, <2>1, <2>2 DEF IInv, Dispatch, Newer, Due
<1>6. UNCHANGED Contract!vars
  BY <1>1 DEF Dispatch, IInv, Contract!vars
<1> QED
  BY <1>2, <1>3, <1>4, <1>5, <1>6 DEF CInv, Queues

\* The end of the dispatch leaves nothing due.
LEMMA DispatchDoneKeeps ==
  ASSUME IInv, CInv, NEW t \in Threads, DispatchDone(t) PROVE CInv' /\ UNCHANGED Contract!vars
<1> USE Sorts DEF TypeOK, Goto, Return, Call, Home, lockVars, tableVars, queueVars, entryVars
<1>1. t \in Pushers
  BY DEF IInv, Control, ControlOf, DispatchDone
<1>2. OneEncoder'
  BY DEF CInv, OneEncoder
<1>3. Dispatches'
  BY <1>1 DEF IInv, DispatchDone, CInv, Dispatches
<1>4. ASSUME NEW e \in Entries PROVE InOrder(e)' /\ (Quiet(e)' => queue'[e] = <<>>)
  <2>1. InOrder(e) /\ (Quiet(e) => queue[e] = <<>>)
    BY DEF CInv, Queues
  <2> QED
    BY <2>1 DEF DispatchDone, InOrder, Quiet
<1>5. ASSUME NEW p \in Pushers, NEW e \in Entries PROVE Newer(p, e)'
  <2>1. Newer(p, e)
    BY DEF CInv, Queues
  <2> QED
    BY <1>1, <2>1 DEF IInv, DispatchDone, Newer, Due
<1>6. UNCHANGED Contract!vars
  BY <1>1 DEF DispatchDone, IInv, Contract!vars
<1> QED
  BY <1>2, <1>3, <1>4, <1>5, <1>6 DEF CInv, Queues

\* The worker takes the oldest packet: the contract's Consume.
LEMMA PopKeeps ==
  ASSUME IInv, CInv, NEW e \in Entries, Pop(e) PROVE CInv' /\ Contract!Consume(e)
<1> USE Sorts DEF TypeOK, Goto, Return, Call, Home, lockVars, tableVars, queueVars, entryVars
<1>1. /\ InOrder(e) /\ queue[e] \in Seq(Nat) /\ queue[e] # <<>>
      /\ worker[e] = "live" /\ sink[e] = "started" /\ e \notin Pushers
  <2>1. worker[e] = "live" /\ \A t \in Threads : TearingDown(t, e) => sink[e] = "started"
    BY DEF IInv, Pop, EntryStates, EntryState, Teardowns, Teardown
  <2>2. sink[e] = "started"
    BY <2>1 DEF IInv, EntryStates, EntryState, Quiet
  <2> QED
    BY <2>1, <2>2 DEF IInv, Pop, CInv, Queues
<1>2. /\ Head(queue[e]) = queue[e][1] /\ Len(queue[e]) \in Nat \ {0}
      /\ Tail(queue[e]) \in Seq(Nat) /\ Len(Tail(queue[e])) = Len(queue[e]) - 1
      /\ \A i \in 1 .. Len(queue[e]) - 1 : Tail(queue[e])[i] = queue[e][i + 1]
  BY <1>1
<1>3. /\ queue' = [queue EXCEPT ![e] = Tail(queue[e])]
      /\ last' = [last EXCEPT ![e] = queue[e][1]]
  BY <1>2 DEF Pop
<1>4. OneEncoder'
  BY DEF CInv, OneEncoder
<1>5. Dispatches'
  BY <1>1 DEF IInv, Pop, CInv, Dispatches
<1>6. ASSUME NEW f \in Entries PROVE InOrder(f)' /\ (Quiet(f)' => queue'[f] = <<>>)
  <2>1. CASE f = e
    <3>1. ~Quiet(e)'
      BY <1>1 DEF Pop, Quiet
    <3>2. InOrder(e)'
      <4>1. queue'[e] = Tail(queue[e]) /\ last'[e] = queue[e][1] /\ nextPacket' = nextPacket
        BY <1>3 DEF IInv, Pop
      <4>2. \A i \in 1 .. Len(queue'[e]) : queue'[e][i] = queue[e][i + 1] /\ i + 1 \in 1 .. Len(queue[e])
        BY <1>2, <4>1
      <4>3. Len(queue'[e]) <= Capacity /\ last'[e] < nextPacket'
        BY <1>1, <1>2, <4>1, BoundsAssumption DEF InOrder
      <4>4. \A i \in 1 .. Len(queue'[e]) : last'[e] < queue'[e][i] /\ queue'[e][i] < nextPacket'
        BY <1>1, <1>2, <4>1, <4>2 DEF InOrder
      <4>5. \A i, j \in 1 .. Len(queue'[e]) : i < j => queue'[e][i] < queue'[e][j]
        BY <1>1, <1>2, <4>1, <4>2 DEF InOrder
      <4> QED
        BY <4>3, <4>4, <4>5 DEF InOrder
    <3> QED
      BY <2>1, <3>1, <3>2
  <2>2. CASE f # e
    <3>1. InOrder(f) /\ (Quiet(f) => queue[f] = <<>>)
      BY DEF CInv, Queues
    <3>2. queue'[f] = queue[f] /\ last'[f] = last[f]
      BY <1>3, <2>2 DEF IInv
    <3> QED
      BY <3>1, <3>2 DEF Pop, InOrder, Quiet
  <2> QED
    BY <2>1, <2>2
<1>7. ASSUME NEW p \in Pushers, NEW f \in Entries PROVE Newer(p, f)'
  <2>1. Newer(p, f) /\ (Due(p, f)' <=> Due(p, f)) /\ pc'[p] = pc[p] /\ cur'[p] = cur[p]
    BY <1>1 DEF CInv, Queues, Due, Pop, IInv
  <2>2. started'[f] = started[f] /\ closed'[f] = closed[f]
    BY DEF Pop
  <2>3. CASE f = e
    <3>1. queue'[e] = Tail(queue[e]) /\ last'[e] = queue[e][1]
      BY <1>3 DEF IInv
    <3> QED
      BY <1>2, <2>1, <2>2, <2>3, <3>1 DEF Newer
  <2>4. CASE f # e
    BY <1>3, <2>1, <2>2, <2>4 DEF Newer, IInv
  <2> QED
    BY <2>3, <2>4
<1>8. Contract!Consume(e)
  <2>1. [g \in Entries |-> pc[g] \notin Away]' = [[g \in Entries |-> pc[g] \notin Away] EXCEPT ![e] = TRUE]
    BY DEF Pop, IInv, Away
  <2> QED
    BY <1>1, <2>1 DEF Pop, IInv, Contract!Consume, Away
<1> QED
  BY <1>4, <1>5, <1>6, <1>7, <1>8 DEF CInv, Queues

\* What an appended sequence holds at each index.
LEMMA AppendAt ==
  ASSUME NEW s \in Seq(Nat), NEW x \in Nat, NEW i \in 1 .. Len(Append(s, x))
  PROVE  \/ i \in 1 .. Len(s) /\ Append(s, x)[i] = s[i]
         \/ i = Len(s) + 1 /\ Append(s, x)[i] = x
  OBVIOUS

\* push() appends the newest packet, in the place of the oldest when full: the
\* contract's Offer, or nothing when the queue is closed or keeps what it has.
LEMMA PushKeeps ==
  ASSUME IInv, CInv, NEW t \in Threads, NEW e \in Entries, Push(t, e)
  PROVE  CInv' /\ (Contract!Offer(e) \/ UNCHANGED Contract!vars)
<1> USE Sorts DEF TypeOK, Goto, Return, Call, Home, lockVars, tableVars, queueVars, entryVars
<1> DEFINE q == queue[e]
             p == cur[t]
<1>1. /\ t \in Pushers /\ (\A u \in Pushers : u = t) /\ e \in todo[t]
      /\ InOrder(e) /\ Newer(t, e) /\ q \in Seq(Nat) /\ Len(q) \in Nat
      /\ p \in 1 .. MaxPackets /\ p < nextPacket /\ last[e] \in Nat
  BY SMTT(30), BoundsAssumption DEF IInv, Control, ControlOf, Push, IsFirst, CInv, OneEncoder, Dispatches, Queues
<1>2. (\A i \in 1 .. Len(q) : q[i] < p) /\ last[e] < p /\ (started[e] \/ closed[e])
  BY <1>1 DEF Newer, Due, Push
<1>3. \/ queue' = queue
      \/ ~closed[e] /\ Len(q) < Capacity /\ queue' = [queue EXCEPT ![e] = Append(q, p)]
      \/ ~closed[e] /\ Len(q) = Capacity /\ queue' = [queue EXCEPT ![e] = Append(Tail(q), p)]
  <2>1. queue' = [queue EXCEPT ![e] = Pushed(e, p)] /\ [queue EXCEPT ![e] = queue[e]] = queue
    BY DEF Push, IInv
  <2>2. Len(q) < Capacity \/ Len(q) = Capacity
    BY <1>1, BoundsAssumption DEF InOrder
  <2>3. CASE Pushed(e, p) = queue[e]
    BY <2>1, <2>3
  <2>4. CASE ~closed[e] /\ Len(q) < Capacity
    BY <2>1, <2>4 DEF Pushed
  <2>5. CASE ~closed[e] /\ ~(Len(q) < Capacity) /\ Policy = "DropOldest"
    BY <2>1, <2>2, <2>5 DEF Pushed
  <2> QED
    BY <2>3, <2>4, <2>5 DEF Pushed
<1>4. OneEncoder'
  BY DEF CInv, OneEncoder
<1>5. Dispatches'
  BY <1>1 DEF IInv, Push, CInv, Dispatches
<1>6. \A u \in Pushers : Due(u, e)' => FALSE
  BY <1>1 DEF Push, Due, IInv
<1>7. ASSUME NEW u \in Pushers, NEW f \in Entries PROVE Newer(u, f)'
  <2>1. CASE f = e
    BY <1>6, <2>1 DEF Newer
  <2>2. CASE f # e
    <3>1. queue'[f] = queue[f]
      BY <1>3, <2>2 DEF IInv
    <3>2. Newer(u, f)
      BY DEF CInv, Queues
    <3> QED
      BY <1>1, <3>1, <3>2 DEF Push, Newer, Due, IInv
  <2> QED
    BY <2>1, <2>2
<1>8. ASSUME NEW f \in Entries, queue'[f] = queue[f] PROVE InOrder(f)' /\ (Quiet(f)' => queue'[f] = <<>>)
  <2>1. InOrder(f) /\ (Quiet(f) => queue[f] = <<>>)
    BY DEF CInv, Queues
  <2> QED
    BY <1>8, <2>1 DEF Push, InOrder, Quiet
<1>9. CASE queue' = queue
  <2>1. \A f \in Entries : InOrder(f)' /\ (Quiet(f)' => queue'[f] = <<>>)
    BY <1>8, <1>9
  <2>2. UNCHANGED Contract!vars
    BY <1>1, <1>9 DEF Push, IInv, Contract!vars
  <2> QED
    BY <1>4, <1>5, <1>7, <2>1, <2>2 DEF CInv, Queues
<1>10. ASSUME ~closed[e], NEW kept \in Seq(Nat), NEW d \in {0, 1}, d = 1 => Len(q) = Capacity,
              kept = SubSeq(q, d + 1, Len(q)), Len(kept) = Len(q) - d, Len(kept) < Capacity,
              \A i \in 1 .. Len(kept) : kept[i] = q[i + d],
              queue' = [queue EXCEPT ![e] = Append(kept, p)]
       PROVE  CInv' /\ Contract!Offer(e)
  <2>1. queue'[e] = Append(kept, p) /\ \A f \in Entries : f # e => queue'[f] = queue[f]
    BY <1>10 DEF IInv
  <2>2. /\ Len(Append(kept, p)) = Len(kept) + 1 /\ Append(kept, p)[Len(kept) + 1] = p
        /\ \A i \in 1 .. Len(kept) : Append(kept, p)[i] = kept[i]
    BY <1>1
  <2>3. \A i \in 1 .. Len(kept) : i + d \in 1 .. Len(q) /\ kept[i] = q[i + d]
    BY <1>1, <1>10
  <2>4. \A i \in 1 .. Len(kept) : last[e] < kept[i] /\ kept[i] < p
    BY <1>1, <1>2, <2>3 DEF InOrder
  <2>5. \A i, j \in 1 .. Len(kept) : i < j => kept[i] < kept[j]
    BY <1>1, <1>10, <2>3 DEF InOrder
  <2>6. InOrder(e)'
    <3>1. last'[e] = last[e] /\ nextPacket' = nextPacket
      BY DEF Push
    <3>2. Len(queue'[e]) <= Capacity /\ last'[e] < nextPacket'
      BY <1>1, <1>10, <2>1, <2>2, <3>1, BoundsAssumption DEF InOrder
    <3>3. \A i \in 1 .. Len(queue'[e]) :
            \/ i \in 1 .. Len(kept) /\ queue'[e][i] = kept[i]
            \/ i = Len(kept) + 1 /\ queue'[e][i] = p
      <4>1. kept \in Seq(Nat)
        BY <1>10
      <4>2. p \in Nat
        BY <1>1, BoundsAssumption
      <4>3. queue'[e] = Append(kept, p)
        BY <2>1
      <4> HIDE DEF p
      <4>4. \A i \in 1 .. Len(Append(kept, p)) :
              \/ i \in 1 .. Len(kept) /\ Append(kept, p)[i] = kept[i]
              \/ i = Len(kept) + 1 /\ Append(kept, p)[i] = p
        BY <4>1, <4>2, AppendAt
      <4> QED
        BY ONLY <4>3, <4>4
    <3>4. \A i \in 1 .. Len(queue'[e]) : last'[e] < queue'[e][i] /\ queue'[e][i] < nextPacket'
      <4> SUFFICES ASSUME NEW i \in 1 .. Len(queue'[e])
                   PROVE  last'[e] < queue'[e][i] /\ queue'[e][i] < nextPacket'
        OBVIOUS
      <4>1. CASE i \in 1 .. Len(kept) /\ queue'[e][i] = kept[i]
        <5>1. kept[i] \in Nat /\ nextPacket \in Nat
          BY <1>10, <4>1 DEF IInv
        <5> QED
          BY <4>1, <5>1, <1>1, <2>4, <3>1
      <4>2. CASE queue'[e][i] = p
        BY <4>2, <1>1, <1>2, <3>1
      <4> QED
        BY <3>3, <4>1, <4>2
    <3>5. \A i, j \in 1 .. Len(queue'[e]) : i < j => queue'[e][i] < queue'[e][j]
      <4> SUFFICES ASSUME NEW i \in 1 .. Len(queue'[e]), NEW j \in 1 .. Len(queue'[e]), i < j
                   PROVE  queue'[e][i] < queue'[e][j]
        OBVIOUS
      <4>1. Len(kept) \in Nat /\ Len(queue'[e]) = Len(kept) + 1 /\ i # Len(kept) + 1
        BY SMTT(30), <1>10, <2>1, <2>2
      <4>2. i \in 1 .. Len(kept) /\ queue'[e][i] = kept[i]
        BY <3>3, <4>1
      <4>3. CASE j \in 1 .. Len(kept) /\ queue'[e][j] = kept[j]
        BY <2>5, <4>2, <4>3
      <4>4. CASE queue'[e][j] = p
        BY <2>4, <4>2, <4>4
      <4> QED
        BY <3>3, <4>3, <4>4
    <3> QED
      BY <3>2, <3>4, <3>5 DEF InOrder
  <2>7. ~Quiet(e)'
    BY <1>2, <1>10 DEF Push, Quiet
  <2>8. \A f \in Entries : InOrder(f)' /\ (Quiet(f)' => queue'[f] = <<>>)
    BY <1>8, <2>1, <2>6, <2>7
  <2>9. Contract!Offer(e)
    <3>1. [g \in Entries |-> pc[g] \notin Away]' = [g \in Entries |-> pc[g] \notin Away]
      BY DEF Push
    <3>2. UNCHANGED <<sink, last>>
      BY DEF Push
    <3>3. p > last[e] /\ \A i \in 1 .. Len(kept) : p > kept[i]
      <4>1. \A i \in 1 .. Len(kept) : kept[i] \in Nat
        BY <1>10
      <4> QED
        BY <1>1, <1>2, <2>4, <4>1
    <3> QED
      BY <1>1, <1>10, <3>1, <3>2, <3>3 DEF Contract!Offer, Away
  <2> QED
    BY <1>4, <1>5, <1>7, <2>8, <2>9 DEF CInv, Queues
<1>11. CASE ~closed[e] /\ Len(q) < Capacity /\ queue' = [queue EXCEPT ![e] = Append(q, p)]
  <2>1. SubSeq(q, 1, Len(q)) = q
    BY <1>1
  <2>2. /\ ~closed[e] /\ q \in Seq(Nat) /\ 0 \in {0, 1} /\ (0 = 1 => Len(q) = Capacity)
        /\ q = SubSeq(q, 0 + 1, Len(q)) /\ Len(q) = Len(q) - 0 /\ Len(q) < Capacity
        /\ (\A i \in 1 .. Len(q) : q[i] = q[i + 0])
        /\ queue' = [queue EXCEPT ![e] = Append(q, p)]
    BY <1>1, <1>11, <2>1
  <2> HIDE DEF q, p
  <2> QED
    BY <1>10, <2>2
<1>12. CASE ~closed[e] /\ Len(q) = Capacity /\ queue' = [queue EXCEPT ![e] = Append(Tail(q), p)]
  <2>1. /\ Tail(q) = SubSeq(q, 2, Len(q)) /\ Len(Tail(q)) = Len(q) - 1 /\ Tail(q) \in Seq(Nat)
        /\ \A i \in 1 .. Len(Tail(q)) : Tail(q)[i] = q[i + 1]
    BY <1>1, <1>12, BoundsAssumption
  <2>2. /\ ~closed[e] /\ Tail(q) \in Seq(Nat) /\ 1 \in {0, 1} /\ (1 = 1 => Len(q) = Capacity)
        /\ Tail(q) = SubSeq(q, 1 + 1, Len(q)) /\ Len(Tail(q)) = Len(q) - 1
        /\ Len(Tail(q)) < Capacity
        /\ (\A i \in 1 .. Len(Tail(q)) : Tail(q)[i] = q[i + 1])
        /\ queue' = [queue EXCEPT ![e] = Append(Tail(q), p)]
    BY <1>1, <1>12, <2>1, BoundsAssumption
  <2> HIDE DEF q, p
  <2> QED
    BY <1>10, <2>2
<1> QED
  BY <1>3, <1>9, <1>11, <1>12

\* Every step of the fanout is a step of the contract or none that it sees.
LEMMA ContractNext == IInv /\ CInv /\ [Next]_vars => CInv' /\ [Contract!Next]_(Contract!vars)
<1> SUFFICES ASSUME IInv, CInv, [Next]_vars PROVE CInv' /\ [Contract!Next]_(Contract!vars)
  OBVIOUS
<1>0. TypeOK
  BY DEF IInv
<1>1. ASSUME NEW t \in Threads, NEW o \in Calls(t), NewCall(t, o)
      PROVE  CInv' /\ UNCHANGED Contract!vars
  BY <1>0, <1>1, NewCallElse, ElsewhereKeeps
<1>2. ASSUME NEW t \in Threads,
             \/ AddStopped(t) \/ AddRunning(t) \/ AddRefused(t) \/ AddedSinkFails(t)
             \/ Start(t) \/ StartRefused(t) \/ StartFanout(t) \/ StartDone(t)
             \/ StartFailsLater(t) \/ SinkFails(t) \/ Stop(t) \/ StopRefused(t)
             \/ StopLock(t) \/ StopFanout(t) \/ Join(t) \/ StopDone(t)
      PROVE  CInv' /\ UNCHANGED Contract!vars
  <2>1. Elsewhere /\ UNCHANGED Contract!vars
    BY <1>2, AddStoppedElse, AddRunningElse, AddRefusedElse, AddedSinkFailsElse, StartElse,
       StartRefusedElse, StartFanoutElse, StartDoneElse, StartFailsLaterElse, SinkFailsElse,
       StopElse, StopRefusedElse, StopLockElse, StopFanoutElse, JoinElse, StopDoneElse
  <2> QED
    BY <1>0, <2>1, ElsewhereKeeps
<1>3. ASSUME NEW t \in Threads, NEW e \in Entries,
             \/ StartNext(t, e) \/ Remove(t, e) \/ RemoveRefused(t, e)
             \/ StopEntry(t, e) \/ SkipEntry(t, e)
      PROVE  CInv' /\ UNCHANGED Contract!vars
  <2>1. Elsewhere /\ UNCHANGED Contract!vars
    BY <1>3, StartNextElse, RemoveElse, RemoveRefusedElse, StopEntryElse, SkipEntryElse
  <2> QED
    BY <1>0, <2>1, ElsewhereKeeps
<1>4. ASSUME NEW t \in Threads, AddedSinkStarts(t) \/ SinkStarts(t)
      PROVE  CInv' /\ Contract!Next
  <2>1. Elsewhere /\ Contract!Begin(cur[t]) /\ cur[t] \in Entries
    BY <1>4, AddedSinkStartsElse, SinkStartsElse
       DEF AddedSinkStarts, SinkStarts, IInv, Control, ControlOf
  <2> QED
    BY <1>0, <2>1, ElsewhereKeeps DEF Contract!Next
<1>5. ASSUME NEW t \in Threads, SinkStop(t) PROVE CInv' /\ Contract!Next
  <2>1. Elsewhere /\ Contract!End(cur[t]) /\ cur[t] \in Entries
    BY <1>5, SinkStopElse DEF SinkStop, IInv, Control, ControlOf
  <2> QED
    BY <1>0, <2>1, ElsewhereKeeps DEF Contract!Next
<1>6. ASSUME NEW t \in Threads, PushVideoPacket(t) \/ Dispatch(t) \/ DispatchDone(t)
      PROVE  CInv' /\ UNCHANGED Contract!vars
  BY <1>6, PushVideoPacketKeeps, DispatchKeeps, DispatchDoneKeeps
<1>7. ASSUME NEW t \in Threads, NEW e \in Entries, Push(t, e)
      PROVE  CInv' /\ [Contract!Next]_(Contract!vars)
  BY <1>7, PushKeeps DEF Contract!Next
<1>8. ASSUME NEW e \in Entries, Work(e) PROVE CInv' /\ [Contract!Next]_(Contract!vars)
  <2>1. CASE Pop(e)
    BY <2>1, PopKeeps DEF Contract!Next
  <2>2. CASE ConsumeDone(e)
    BY <1>0, <2>2, ConsumeDoneElse, ElsewhereKeeps DEF Contract!Next
  <2>3. CASE WorkerExit(e)
    BY <1>0, <2>3, WorkerExitElse, ElsewhereKeeps
  <2> QED
    BY <1>8, <2>1, <2>2, <2>3 DEF Work
<1>9. CASE UNCHANGED vars
  BY <1>9 DEF vars, CInv, OneEncoder, Dispatches, Queues, InOrder, Newer, Due, Quiet, Contract!vars
<1>10. ASSUME NEW t \in Threads, Step(t) PROVE CInv' /\ [Contract!Next]_(Contract!vars)
  BY <1>10, <1>2, <1>3, <1>4, <1>5, <1>6, <1>7 DEF Step
<1> QED
  BY <1>1, <1>6, <1>8, <1>9, <1>10 DEF Next

\* With one encode worker, which stop() joins, the fanout implements the contract
\* of its sinks: start() and stop() alternate, consume() is called between them,
\* one packet at a time, in the order of dispatch, and nothing is lost but what a
\* full queue gave up.
THEOREM ContractKept ==
  ASSUME OneEncoder PROVE Spec => KeepsContract
<1>1. Init => CInv /\ Contract!Init
  <2> SUFFICES ASSUME Init PROVE CInv /\ Contract!Init
    OBVIOUS
  <2> USE Sorts, BoundsAssumption DEF Init
  <2>1. Dispatches
    BY DEF Dispatches
  <2>2. Queues
    BY DEF Queues, InOrder, Newer, Due, Quiet
  <2>3. Contract!Init
    BY DEF Contract!Init
  <2> QED
    BY OneEncoder, <2>1, <2>2, <2>3 DEF CInv
<1>2. IInv /\ CInv /\ [Next]_vars => CInv' /\ [Contract!Next]_(Contract!vars)
  BY ContractNext
<1> QED
  BY <1>1, <1>2, Invariance, PTL DEF Spec, KeepsContract, Contract!Spec
=============================================================================
