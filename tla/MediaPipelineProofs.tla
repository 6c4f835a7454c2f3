-------------------------- MODULE MediaPipelineProofs --------------------------
(***************************************************************************)
(* Proofs about MediaPipeline, for every set of clients, every choice of   *)
(* streams and encoders, and every size of the queues and the event ring.  *)
(***************************************************************************)
EXTENDS MediaPipeline, TLAPS

(* The client inside a call is the one that holds lifecycleMutex_. *)
OneClient == \A c \in Clients : pc[c] # "idle" <=> lifecycle = c

\* Where the client that holds lifecycleMutex_ is.
Phase == IF lifecycle = NoClient THEN "idle" ELSE pc[lifecycle]

(* What state_, the parts, accepting_ and the queues are in each phase. *)
Phases ==
  /\ Phase = "idle" =>
       /\ state \in {"Created", "Stopped", "Failed"} \cup Running
       /\ state \in Running => up = Parts
       /\ state \notin Running => up = {} /\ ~accepting
  /\ Phase = "start" => state = "Starting" /\ \A s \in Coded : ~closed[s]
  /\ Phase = "announce" => state \in Running /\ up = Parts
  /\ Phase \in {"teardown", "join"} =>
       /\ ~accepting /\ state \in {"Starting", "Stopping"}
       /\ result \in {"Stopped", "Failed"}
       /\ state = "Starting" => result = "Failed"
  /\ Phase = "join" => \A s \in Coded : closed[s]

(* A part is up only while what it calls is. *)
Supported ==
  \A s \in Coded :
    /\ <<"source", s>> \in up => <<"worker", s>> \in up
    /\ <<"worker", s>> \in up => <<"fanout", s>> \in up
    /\ <<"worker", s>> \in up /\ s \in Encoded => <<"encoder", s>> \in up

(* A worker that is up runs until its queue is closed and drained; a source  *)
(* calls back only while its queue is open and its worker up, from before    *)
(* start() has noticed (LaunchSource) to its stop.                           *)
ThreadsOf(s) ==
  /\ at[<<"worker", s>>] # "off" => <<"worker", s>> \in up
  /\ at[<<"worker", s>>] = "off" => queued[s] = 0
  /\ <<"worker", s>> \in up /\ ~closed[s] => at[<<"worker", s>>] # "off"
  /\ <<"source", s>> \in up => at[<<"source", s>>] # "off"
  /\ at[<<"source", s>>] # "off" =>
       /\ ~closed[s] /\ <<"worker", s>> \in up
       /\ <<"source", s>> \in up \/ \E c \in Clients : IsNextToStart(c, <<"source", s>>)

Threads == \A s \in Coded : ThreadsOf(s)

\* The frames that the threads of s have between a queue and a counter.
InHand(s) ==
  (IF at[<<"source", s>>] = "push" THEN 1 ELSE 0)
    + (IF at[<<"worker", s>>] = "encode" THEN 1 ELSE 0)

(* Every captured frame is handled, dropped, queued or in hand. *)
Balanced(s) == captured[s] = handled[s] + dropped[s] + queued[s] + InHand(s)

Counted == \A s \in Coded : Balanced(s)

Places == {"off", "idle", "push", "encode", "dispatch", "degrade", "announce"}

Event == States \cup {"error", "drop"}

(* The types, in parts that different steps change. *)
ControlTyped ==
  /\ state \in States /\ accepting \in BOOLEAN /\ lifecycle \in Clients \cup {NoClient}
  /\ up \subseteq Parts /\ closed \in [Coded -> BOOLEAN] /\ errors \in 0 .. MaxErrors
  /\ pc \in [Clients -> {"idle", "start", "announce", "teardown", "join"}]
  /\ result \in {"none", "Stopped", "Failed"}

FramesTyped ==
  /\ queued \in [Coded -> 0 .. Capacity] /\ captured \in [Coded -> 0 .. MaxFrames]
  /\ dropped \in [Coded -> Nat] /\ handled \in [Coded -> Nat]

EventsTyped ==
  /\ events \in Seq(Event) /\ Len(events) <= EventCapacity /\ seen \in States \cup {"none"}

PlacesTyped == at \in [Reporters -> Places]

(* The inductive invariant. *)
IInv ==
  /\ ControlTyped /\ EventsTyped /\ PlacesTyped /\ FramesTyped
  /\ OneClient /\ Phases /\ Supported /\ Threads /\ Counted

(* start() is at one part at most. *)
LEMMA OneNext ==
  ASSUME NEW p \in Parts, NEW q \in Parts, NEW c, NEW d,
         IsNextToStart(c, p), IsNextToStart(d, q)
  PROVE  p = q
<1>1. DOMAIN StartOrder = 1 .. 8
  BY DEF StartOrder
<1>2. PICK i \in 1 .. 8 :
        /\ StartOrder[i] = p
        /\ \A k \in 1 .. i - 1 : StartOrder[k] \in Parts => StartOrder[k] \in up
  BY <1>1 DEF IsNextToStart
<1>3. PICK j \in 1 .. 8 :
        /\ StartOrder[j] = q
        /\ \A k \in 1 .. j - 1 : StartOrder[k] \in Parts => StartOrder[k] \in up
  BY <1>1 DEF IsNextToStart
<1>4. p \notin up /\ q \notin up
  BY DEF IsNextToStart
<1>5. ~(i < j) /\ ~(j < i)
  BY <1>2, <1>3, <1>4
<1> QED
  BY <1>2, <1>3, <1>5

(* The names a stream's parts and threads have. *)
LEMMA PartsOf ==
  ASSUME NEW s \in Coded
  PROVE  /\ <<"source", s>> \in Parts /\ <<"worker", s>> \in Parts
         /\ <<"fanout", s>> \in Parts
         /\ s \in Encoded => <<"encoder", s>> \in Parts
         /\ <<"source", s>> \in Reporters /\ <<"worker", s>> \in Reporters
  BY StreamsAssumption DEF Parts, Reporters

(* start() comes to a source when its worker runs, and to a worker when its *)
(* fanout and its encoder are up.                                           *)
LEMMA StartsAfter ==
  ASSUME NEW s \in Coded, NEW c
  PROVE  /\ IsNextToStart(c, <<"source", s>>) => <<"worker", s>> \in up
         /\ IsNextToStart(c, <<"worker", s>>) =>
              <<"fanout", s>> \in up /\ (s \in Encoded => <<"encoder", s>> \in up)
<1>1. s \in {"video", "audio"}
  BY StreamsAssumption
<1>2. DOMAIN StartOrder = 1 .. 8
  BY DEF StartOrder
<1>3. ASSUME IsNextToStart(c, <<"source", s>>) PROVE <<"worker", s>> \in up
  <2>1. PICK i \in 1 .. 8 :
          /\ StartOrder[i] = <<"source", s>>
          /\ \A k \in 1 .. i - 1 : StartOrder[k] \in Parts => StartOrder[k] \in up
    BY <1>2, <1>3 DEF IsNextToStart
  <2>2. i \in {7, 8}
    BY <1>1, <2>1 DEF StartOrder
  <2>3. /\ <<"worker", "video">> \in Parts => <<"worker", "video">> \in up
        /\ <<"worker", "audio">> \in Parts => <<"worker", "audio">> \in up
    <3>1. StartOrder[5] = <<"worker", "video">> /\ StartOrder[6] = <<"worker", "audio">>
      BY DEF StartOrder
    <3>2. 5 \in 1 .. i - 1 /\ 6 \in 1 .. i - 1
      BY <2>2
    <3> QED
      BY <2>1, <3>1, <3>2
  <2> QED
    BY <1>1, <2>3, PartsOf
<1>4. ASSUME IsNextToStart(c, <<"worker", s>>)
      PROVE  <<"fanout", s>> \in up /\ (s \in Encoded => <<"encoder", s>> \in up)
  <2>1. PICK i \in 1 .. 8 :
          /\ StartOrder[i] = <<"worker", s>>
          /\ \A k \in 1 .. i - 1 : StartOrder[k] \in Parts => StartOrder[k] \in up
    BY <1>2, <1>4 DEF IsNextToStart
  <2>2. i \in {5, 6}
    BY <1>1, <2>1 DEF StartOrder
  <2>3. \A q \in {"encoder", "fanout"} \X {"video", "audio"} : q \in Parts => q \in up
    <3>1. /\ StartOrder[1] = <<"encoder", "video">>
          /\ StartOrder[2] = <<"encoder", "audio">>
          /\ StartOrder[3] = <<"fanout", "video">> /\ StartOrder[4] = <<"fanout", "audio">>
      BY DEF StartOrder
    <3>2. \A k \in 1 .. 4 : k \in 1 .. i - 1
      BY <2>2
    <3> QED
      BY <2>1, <3>1, <3>2
  <2> QED
    BY <1>1, <2>3, PartsOf
<1> QED
  BY <1>3, <1>4

(* teardown() comes to a worker when its source is stopped, and to an       *)
(* encoder or a fanout when its worker has been joined.                     *)
LEMMA StopsBefore ==
  ASSUME NEW s \in Coded
  PROVE  /\ IsNextToStop(<<"worker", s>>) => <<"source", s>> \notin up
         /\ IsNextToStop(<<"encoder", s>>) => <<"worker", s>> \notin up
         /\ IsNextToStop(<<"fanout", s>>) => <<"worker", s>> \notin up
<1>1. s \in {"video", "audio"}
  BY StreamsAssumption
<1>2. DOMAIN StopOrder = 1 .. 8
  BY DEF StopOrder
<1>3. /\ StopOrder[1] = <<"source", "video">> /\ StopOrder[2] = <<"source", "audio">>
      /\ StopOrder[3] = <<"worker", "video">> /\ StopOrder[4] = <<"worker", "audio">>
  BY DEF StopOrder
<1>4. ASSUME IsNextToStop(<<"worker", s>>) PROVE <<"source", s>> \notin up
  <2>1. PICK i \in 1 .. 8 :
          StopOrder[i] = <<"worker", s>> /\ \A k \in 1 .. i - 1 : StopOrder[k] \notin up
    BY <1>2, <1>4 DEF IsNextToStop
  <2>2. i \in {3, 4}
    BY <1>1, <2>1 DEF StopOrder
  <2> QED
    BY <1>1, <1>3, <2>1, <2>2
<1>5. ASSUME NEW kind \in {"encoder", "fanout"}, IsNextToStop(<<kind, s>>)
      PROVE  <<"worker", s>> \notin up
  <2>1. PICK i \in 1 .. 8 :
          StopOrder[i] = <<kind, s>> /\ \A k \in 1 .. i - 1 : StopOrder[k] \notin up
    BY <1>2, <1>5 DEF IsNextToStop
  <2>2. i \in 5 .. 8
    BY <1>1, <2>1 DEF StopOrder
  <2> QED
    BY <1>1, <1>3, <2>1, <2>2
<1> QED
  BY <1>4, <1>5

(* An event pushed keeps the ring within its size. *)
LEMMA RingKept ==
  ASSUME NEW ring \in Seq(Event), Len(ring) <= EventCapacity,
         NEW event \in Event
  PROVE  /\ WithEvent(ring, event) \in Seq(Event)
         /\ Len(WithEvent(ring, event)) <= EventCapacity
<1> USE BoundsAssumption
<1>1. CASE Len(ring) >= EventCapacity
  <2>1. Tail(ring) \in Seq(Event) /\ Len(Tail(ring)) = Len(ring) - 1
    BY <1>1
  <2> QED
    BY <1>1, <2>1 DEF WithEvent
<1>2. CASE ~(Len(ring) >= EventCapacity)
  BY <1>2 DEF WithEvent
<1> QED
  BY <1>1, <1>2

(* What the steps need of the types. *)
LEMMA FunctionsOf ==
  TypeOK =>
    /\ at \in [Reporters -> Places] /\ closed \in [Coded -> BOOLEAN]
    /\ queued \in [Coded -> Nat] /\ captured \in [Coded -> Nat]
    /\ dropped \in [Coded -> Nat] /\ handled \in [Coded -> Nat]
    /\ pc \in [Clients -> {"idle", "start", "announce", "teardown", "join"}]
    /\ lifecycle \in Clients \cup {NoClient} /\ up \subseteq Parts
  BY BoundsAssumption DEF TypeOK, Places

(* A part is of one of four kinds. *)
LEMMA PartKinds ==
  ASSUME NEW p \in Parts
  PROVE  \/ \E s \in Encoded : p = <<"encoder", s>>
         \/ \E s \in Streams : p = <<"fanout", s>>
         \/ \E s \in Coded : p = <<"worker", s>>
         \/ \E s \in Coded : p = <<"source", s>>
  BY DEF Parts

(* What the start of a part does to the threads of a stream... *)
LEMMA StartPartMoves ==
  ASSUME TypeOK, NEW c, NEW p \in Parts, StartPart(c, p), NEW s \in Coded
  PROVE  /\ at'[<<"source", s>>] = at[<<"source", s>>]
         /\ at'[<<"worker", s>>] =
              IF p = <<"worker", s>> THEN "idle" ELSE at[<<"worker", s>>]
<1>0. at \in [Reporters -> Places]
  BY FunctionsOf
<1>1. CASE \E q \in Encoded : p = <<"encoder", q>>
  BY <1>1 DEF StartPart
<1>2. CASE \E q \in Streams : p = <<"fanout", q>>
  <2>1. PICK q \in Streams : p = <<"fanout", q>>
    BY <1>2
  <2>2. at' = [at EXCEPT ![<<"sink", q>>] = IF @ = "off" THEN "idle" ELSE @]
    BY <2>1 DEF StartPart
  <2> QED
    BY <1>0, <2>1, <2>2, PartsOf
<1>3. CASE \E q \in Coded : p = <<"worker", q>>
  <2>1. PICK q \in Coded : p = <<"worker", q>>
    BY <1>3
  <2>2. at' = [at EXCEPT ![<<"worker", q>>] = "idle"]
    BY <2>1 DEF StartPart
  <2> QED
    BY <1>0, <2>1, <2>2, PartsOf
<1>4. CASE \E q \in Coded : p = <<"source", q>>
  BY <1>4 DEF StartPart
<1> QED
  BY <1>1, <1>2, <1>3, <1>4, PartKinds

(* ...and its failure... *)
LEMMA StartPartFailsMoves ==
  ASSUME TypeOK, NEW c, NEW p \in Parts, StartPartFails(c, p), NEW s \in Coded
  PROVE  /\ at'[<<"worker", s>>] = at[<<"worker", s>>]
         /\ p # <<"source", s>> => at'[<<"source", s>>] = at[<<"source", s>>]
         /\ p = <<"source", s>> =>
              at[<<"source", s>>] \in {"off", "idle"} /\ at'[<<"source", s>>] = "off"
<1>0. at \in [Reporters -> Places]
  BY FunctionsOf
<1>1. CASE p[1] = "source"
  <2>1. PICK q \in Coded : p = <<"source", q>>
    BY <1>1, PartKinds
  <2>2. at[p] \in {"off", "idle"} /\ at' = [at EXCEPT ![p] = "off"]
    BY <1>1 DEF StartPartFails
  <2> QED
    BY <1>0, <2>1, <2>2, PartsOf
<1>2. CASE p[1] # "source"
  BY <1>2 DEF StartPartFails
<1> QED
  BY <1>1, <1>2

(* ...and the stop of a source. *)
LEMMA StopSourceMoves ==
  ASSUME TypeOK, NEW c, NEW p \in Parts, StopSource(c, p), NEW s \in Coded
  PROVE  /\ at'[<<"worker", s>>] = at[<<"worker", s>>]
         /\ p # <<"source", s>> => at'[<<"source", s>>] = at[<<"source", s>>]
         /\ p = <<"source", s>> =>
              at[<<"source", s>>] = "idle" /\ at'[<<"source", s>>] = "off"
<1>0. at \in [Reporters -> Places]
  BY FunctionsOf
<1>1. PICK q \in Coded : p = <<"source", q>>
  BY PartKinds DEF StopSource
<1>2. at[p] = "idle" /\ at' = [at EXCEPT ![p] = "off"]
  BY DEF StopSource
<1> QED
  BY <1>0, <1>1, <1>2, PartsOf

(* lifecycleMutex_ goes from one client to the next. *)
LEMMA OneClientStep ==
  ASSUME TypeOK, OneClient, [Next]_vars
  PROVE  OneClient'
<1>1. ASSUME NEW c \in Clients, Start(c) PROVE OneClient'
  BY <1>1, NoClientAssumption DEF Start, Goto, TypeOK, OneClient
<1>2. ASSUME NEW c \in Clients, StartDone(c) PROVE OneClient'
  BY <1>2, NoClientAssumption DEF StartDone, Goto, frameVars, TypeOK, OneClient
<1>3. ASSUME NEW c \in Clients, AnnounceRunning(c) PROVE OneClient'
  BY <1>3, NoClientAssumption DEF AnnounceRunning, Goto, frameVars, TypeOK,
     OneClient
<1>4. ASSUME NEW c \in Clients, Stop(c) PROVE OneClient'
  BY <1>4, NoClientAssumption DEF Stop, Goto, frameVars, TypeOK, OneClient
<1>5. ASSUME NEW c \in Clients, CloseQueues(c) PROVE OneClient'
  BY <1>5, NoClientAssumption DEF CloseQueues, Goto, frameVars, TypeOK, OneClient
<1>6. ASSUME NEW c \in Clients, StopDone(c) PROVE OneClient'
  BY <1>6, NoClientAssumption DEF StopDone, Goto, frameVars, TypeOK, OneClient
<1>7. ASSUME NEW c \in Clients, NEW s \in Coded, LaunchSource(c, s) PROVE OneClient'
  BY <1>7, NoClientAssumption DEF LaunchSource, frameVars, TypeOK, OneClient
<1>8. ASSUME NEW c \in Clients, NEW p \in Parts, StartPart(c, p) PROVE OneClient'
  BY <1>8, NoClientAssumption DEF StartPart, frameVars, TypeOK, OneClient
<1>9. ASSUME NEW c \in Clients, NEW p \in Parts, StartPartFails(c, p) PROVE OneClient'
  BY <1>9, NoClientAssumption DEF StartPartFails, Goto, frameVars, IsNextToStart,
     TypeOK, OneClient
<1>10. ASSUME NEW c \in Clients, NEW p \in Parts, StopSource(c, p) PROVE OneClient'
  BY <1>10, NoClientAssumption DEF StopSource, frameVars, TypeOK, OneClient
<1>11. ASSUME NEW c \in Clients, NEW p \in Parts, StopPart(c, p) PROVE OneClient'
  BY <1>11, NoClientAssumption DEF StopPart, frameVars, TypeOK, OneClient
<1>12. ASSUME NEW s \in Coded, CaptureFrame(s) PROVE OneClient'
  BY <1>12, NoClientAssumption DEF CaptureFrame, TypeOK, OneClient
<1>13. ASSUME NEW s \in Coded, PushFrame(s) PROVE OneClient'
  BY <1>13, NoClientAssumption DEF PushFrame, TypeOK, OneClient
<1>14. ASSUME NEW s \in Coded, PopFrame(s) PROVE OneClient'
  BY <1>14, NoClientAssumption DEF PopFrame, TypeOK, OneClient
<1>15. ASSUME NEW s \in Coded, Encode(s) PROVE OneClient'
  BY <1>15, NoClientAssumption DEF Encode, TypeOK, OneClient
<1>16. ASSUME NEW s \in Coded, EncodeFails(s) PROVE OneClient'
  BY <1>16, NoClientAssumption DEF EncodeFails, TypeOK, OneClient
<1>17. ASSUME NEW s \in Coded, Dispatch(s) PROVE OneClient'
  BY <1>17, NoClientAssumption DEF Dispatch, frameVars, TypeOK, OneClient
<1>18. ASSUME NEW s \in Coded, EncoderExit(s) PROVE OneClient'
  BY <1>18, NoClientAssumption DEF EncoderExit, frameVars, TypeOK, OneClient
<1>19. ASSUME NEW r \in Reporters, ReportError(r) PROVE OneClient'
  BY <1>19, NoClientAssumption DEF ReportError, frameVars, TypeOK, OneClient
<1>20. ASSUME NEW r \in Reporters, MarkDegraded(r) PROVE OneClient'
  BY <1>20, NoClientAssumption DEF MarkDegraded, frameVars, TypeOK, OneClient
<1>21. ASSUME NEW r \in Reporters, AnnounceDegraded(r) PROVE OneClient'
  BY <1>21, NoClientAssumption DEF AnnounceDegraded, frameVars, TypeOK, OneClient
<1>22. CASE WaitEvent
  BY <1>22, NoClientAssumption DEF WaitEvent, frameVars, TypeOK, OneClient
<1>23. CASE UNCHANGED vars
  BY <1>23, NoClientAssumption DEF vars, frameVars, TypeOK, OneClient
<1> QED
  BY <1>1, <1>2, <1>3, <1>4, <1>5, <1>6, <1>7, <1>8, <1>9, <1>10, <1>11, <1>12,
     <1>13, <1>14, <1>15, <1>16, <1>17, <1>18, <1>19, <1>20, <1>21, <1>22, <1>23 DEF
     Next, ClientStep, WorkerStep, CallbackStep

(* Every step of a client takes the pipeline to the phase that follows; the *)
(* data threads change none of what a phase says.                           *)
LEMMA PhasesStep ==
  ASSUME TypeOK, OneClient, Phases, [Next]_vars
  PROVE  Phases'
<1>1. ASSUME NEW c \in Clients, Start(c) PROVE Phases'
  BY <1>1, NoClientAssumption DEF Start, Goto, TypeOK, OneClient, Phases, Phase,
     Running
<1>2. ASSUME NEW c \in Clients, StartDone(c) PROVE Phases'
  BY <1>2, NoClientAssumption DEF StartDone, Goto, frameVars, TypeOK, OneClient,
     Phases, Phase, Running
<1>3. ASSUME NEW c \in Clients, AnnounceRunning(c) PROVE Phases'
  BY <1>3, NoClientAssumption DEF AnnounceRunning, Goto, frameVars, TypeOK,
     OneClient, Phases, Phase, Running
<1>4. ASSUME NEW c \in Clients, Stop(c) PROVE Phases'
  BY <1>4, NoClientAssumption DEF Stop, Goto, frameVars, TypeOK, OneClient, Phases,
     Phase, Running
<1>5. ASSUME NEW c \in Clients, CloseQueues(c) PROVE Phases'
  BY <1>5, NoClientAssumption DEF CloseQueues, Goto, frameVars, TypeOK, OneClient,
     Phases, Phase, Running
<1>6. ASSUME NEW c \in Clients, StopDone(c) PROVE Phases'
  BY <1>6, NoClientAssumption DEF StopDone, Goto, frameVars, TypeOK, OneClient,
     Phases, Phase, Running
<1>7. ASSUME NEW c \in Clients, NEW s \in Coded, LaunchSource(c, s) PROVE Phases'
  BY <1>7, NoClientAssumption DEF LaunchSource, frameVars, TypeOK, OneClient,
     Phases, Phase, Running, IsNextToStart
<1>8. ASSUME NEW c \in Clients, NEW p \in Parts, StartPart(c, p) PROVE Phases'
  BY <1>8, NoClientAssumption DEF StartPart, frameVars, TypeOK, OneClient, Phases,
     Phase, Running, IsNextToStart
<1>9. ASSUME NEW c \in Clients, NEW p \in Parts, StartPartFails(c, p) PROVE Phases'
  BY <1>9, NoClientAssumption DEF StartPartFails, Goto, frameVars, TypeOK,
     OneClient, Phases, Phase, Running, IsNextToStart
<1>10. ASSUME NEW c \in Clients, NEW p \in Parts, StopSource(c, p) PROVE Phases'
  BY <1>10, NoClientAssumption DEF StopSource, frameVars, TypeOK, OneClient, Phases,
     Phase, Running, IsNextToStop, Outcomes
<1>11. ASSUME NEW c \in Clients, NEW p \in Parts, StopPart(c, p) PROVE Phases'
  BY <1>11, NoClientAssumption DEF StopPart, frameVars, TypeOK, OneClient, Phases,
     Phase, Running, IsNextToStop, Outcomes
<1>12. ASSUME NEW s \in Coded, CaptureFrame(s) PROVE Phases'
  BY <1>12, NoClientAssumption DEF CaptureFrame, TypeOK, OneClient, Phases, Phase,
     Running
<1>13. ASSUME NEW s \in Coded, PushFrame(s) PROVE Phases'
  BY <1>13, NoClientAssumption DEF PushFrame, TypeOK, OneClient, Phases, Phase,
     Running
<1>14. ASSUME NEW s \in Coded, PopFrame(s) PROVE Phases'
  BY <1>14, NoClientAssumption DEF PopFrame, TypeOK, OneClient, Phases, Phase,
     Running
<1>15. ASSUME NEW s \in Coded, Encode(s) PROVE Phases'
  BY <1>15, NoClientAssumption DEF Encode, TypeOK, OneClient, Phases, Phase, Running
<1>16. ASSUME NEW s \in Coded, EncodeFails(s) PROVE Phases'
  BY <1>16, NoClientAssumption DEF EncodeFails, TypeOK, OneClient, Phases, Phase,
     Running
<1>17. ASSUME NEW s \in Coded, Dispatch(s) PROVE Phases'
  BY <1>17, NoClientAssumption DEF Dispatch, frameVars, TypeOK, OneClient, Phases,
     Phase, Running
<1>18. ASSUME NEW s \in Coded, EncoderExit(s) PROVE Phases'
  BY <1>18, NoClientAssumption DEF EncoderExit, frameVars, TypeOK, OneClient,
     Phases, Phase, Running
<1>19. ASSUME NEW r \in Reporters, ReportError(r) PROVE Phases'
  BY <1>19, NoClientAssumption DEF ReportError, frameVars, TypeOK, OneClient,
     Phases, Phase, Running
<1>20. ASSUME NEW r \in Reporters, MarkDegraded(r) PROVE Phases'
  BY <1>20, NoClientAssumption DEF MarkDegraded, frameVars, TypeOK, OneClient,
     Phases, Phase, Running
<1>21. ASSUME NEW r \in Reporters, AnnounceDegraded(r) PROVE Phases'
  BY <1>21, NoClientAssumption DEF AnnounceDegraded, frameVars, TypeOK, OneClient,
     Phases, Phase, Running
<1>22. CASE WaitEvent
  BY <1>22, NoClientAssumption DEF WaitEvent, frameVars, TypeOK, OneClient, Phases,
     Phase, Running
<1>23. CASE UNCHANGED vars
  BY <1>23, NoClientAssumption DEF vars, frameVars, TypeOK, OneClient, Phases,
     Phase, Running
<1> QED
  BY <1>1, <1>2, <1>3, <1>4, <1>5, <1>6, <1>7, <1>8, <1>9, <1>10, <1>11, <1>12,
     <1>13, <1>14, <1>15, <1>16, <1>17, <1>18, <1>19, <1>20, <1>21, <1>22, <1>23 DEF
     Next, ClientStep, WorkerStep, CallbackStep

(* The order of start() and teardown() keeps a part's support. *)
LEMMA SupportedStep ==
  ASSUME TypeOK, Supported, [Next]_vars
  PROVE  Supported'
<1>1. ASSUME NEW c \in Clients, Start(c) PROVE Supported'
  BY <1>1 DEF Start, Goto, Supported
<1>2. ASSUME NEW c \in Clients, StartDone(c) PROVE Supported'
  BY <1>2 DEF StartDone, Goto, frameVars, Supported
<1>3. ASSUME NEW c \in Clients, AnnounceRunning(c) PROVE Supported'
  BY <1>3 DEF AnnounceRunning, Goto, frameVars, Supported
<1>4. ASSUME NEW c \in Clients, Stop(c) PROVE Supported'
  BY <1>4 DEF Stop, Goto, frameVars, Supported
<1>5. ASSUME NEW c \in Clients, CloseQueues(c) PROVE Supported'
  BY <1>5 DEF CloseQueues, Goto, frameVars, Supported
<1>6. ASSUME NEW c \in Clients, StopDone(c) PROVE Supported'
  BY <1>6 DEF StopDone, Goto, frameVars, Supported
<1>7. ASSUME NEW c \in Clients, NEW s \in Coded, LaunchSource(c, s) PROVE Supported'
  BY <1>7 DEF LaunchSource, frameVars, Supported
<1>8. ASSUME NEW c \in Clients, NEW p \in Parts, StartPart(c, p) PROVE Supported'
  BY <1>8, PartsOf, StartsAfter DEF StartPart, frameVars, Supported
<1>9. ASSUME NEW c \in Clients, NEW p \in Parts, StartPartFails(c, p) PROVE Supported'
  BY <1>9 DEF StartPartFails, Goto, frameVars, Supported
<1>10. ASSUME NEW c \in Clients, NEW p \in Parts, StopSource(c, p) PROVE Supported'
  BY <1>10, PartsOf, StopsBefore DEF StopSource, frameVars, Supported
<1>11. ASSUME NEW c \in Clients, NEW p \in Parts, StopPart(c, p) PROVE Supported'
  BY <1>11, PartsOf, StopsBefore DEF StopPart, frameVars, Supported, Parts
<1>12. ASSUME NEW s \in Coded, CaptureFrame(s) PROVE Supported'
  BY <1>12 DEF CaptureFrame, Supported
<1>13. ASSUME NEW s \in Coded, PushFrame(s) PROVE Supported'
  BY <1>13 DEF PushFrame, Supported
<1>14. ASSUME NEW s \in Coded, PopFrame(s) PROVE Supported'
  BY <1>14 DEF PopFrame, Supported
<1>15. ASSUME NEW s \in Coded, Encode(s) PROVE Supported'
  BY <1>15 DEF Encode, Supported
<1>16. ASSUME NEW s \in Coded, EncodeFails(s) PROVE Supported'
  BY <1>16 DEF EncodeFails, Supported
<1>17. ASSUME NEW s \in Coded, Dispatch(s) PROVE Supported'
  BY <1>17 DEF Dispatch, frameVars, Supported
<1>18. ASSUME NEW s \in Coded, EncoderExit(s) PROVE Supported'
  BY <1>18 DEF EncoderExit, frameVars, Supported
<1>19. ASSUME NEW r \in Reporters, ReportError(r) PROVE Supported'
  BY <1>19 DEF ReportError, frameVars, Supported
<1>20. ASSUME NEW r \in Reporters, MarkDegraded(r) PROVE Supported'
  BY <1>20 DEF MarkDegraded, frameVars, Supported
<1>21. ASSUME NEW r \in Reporters, AnnounceDegraded(r) PROVE Supported'
  BY <1>21 DEF AnnounceDegraded, frameVars, Supported
<1>22. CASE WaitEvent
  BY <1>22 DEF WaitEvent, frameVars, Supported
<1>23. CASE UNCHANGED vars
  BY <1>23 DEF vars, frameVars, Supported
<1> QED
  BY <1>1, <1>2, <1>3, <1>4, <1>5, <1>6, <1>7, <1>8, <1>9, <1>10, <1>11, <1>12,
     <1>13, <1>14, <1>15, <1>16, <1>17, <1>18, <1>19, <1>20, <1>21, <1>22, <1>23 DEF
     Next, ClientStep, WorkerStep, CallbackStep

(* The threads run while, and only while, their parts are up. *)
LEMMA ThreadsStep ==
  ASSUME TypeOK, OneClient, Phases, Supported, Threads, [Next]_vars
  PROVE  Threads'
<1>1. ASSUME NEW c \in Clients, Start(c) PROVE Threads'
  BY <1>1, FunctionsOf, PartsOf DEF Start, Goto, OneClient, Phases, Phase, Running,
     Threads, ThreadsOf, IsNextToStart
<1>2. ASSUME NEW c \in Clients, StartDone(c) PROVE Threads'
  BY <1>2, FunctionsOf, PartsOf DEF StartDone, Goto, frameVars, Threads, ThreadsOf,
     IsNextToStart
<1>3. ASSUME NEW c \in Clients, AnnounceRunning(c) PROVE Threads'
  BY <1>3, FunctionsOf, PartsOf DEF AnnounceRunning, Goto, frameVars, Threads,
     ThreadsOf, IsNextToStart
<1>4. ASSUME NEW c \in Clients, Stop(c) PROVE Threads'
  BY <1>4, FunctionsOf, PartsOf DEF Stop, Goto, frameVars, Threads, ThreadsOf,
     IsNextToStart
<1>5. ASSUME NEW c \in Clients, CloseQueues(c) PROVE Threads'
  <2> SUFFICES ASSUME NEW t \in Coded PROVE ThreadsOf(t)'
    BY DEF Threads
  <2>1. ThreadsOf(t)
    BY DEF Threads
  <2> QED
    BY <1>5, <2>1, FunctionsOf, PartsOf DEF CloseQueues, Goto, frameVars, ThreadsOf,
       OneClient, IsNextToStart
<1>6. ASSUME NEW c \in Clients, StopDone(c) PROVE Threads'
  BY <1>6, FunctionsOf, PartsOf DEF StopDone, Goto, frameVars, Threads, ThreadsOf,
     IsNextToStart
<1>7. ASSUME NEW c \in Clients, NEW s \in Coded, LaunchSource(c, s) PROVE Threads'
  BY ZenonT(30), <1>7, FunctionsOf, PartsOf, StartsAfter DEF LaunchSource, frameVars, OneClient,
     Phases, Phase, Threads, ThreadsOf, IsNextToStart
<1>8. ASSUME NEW c \in Clients, NEW p \in Parts, StartPart(c, p) PROVE Threads'
  <2> SUFFICES ASSUME NEW t \in Coded PROVE ThreadsOf(t)'
    BY DEF Threads
  <2>1. ThreadsOf(t) /\ <<"worker", t>> \in Parts /\ <<"source", t>> \in Parts
    BY PartsOf DEF Threads
  <2>2. /\ at'[<<"source", t>>] = at[<<"source", t>>]
        /\ at'[<<"worker", t>>] =
             IF p = <<"worker", t>> THEN "idle" ELSE at[<<"worker", t>>]
    BY <1>8, StartPartMoves
  <2>3. up' = up \cup {p} /\ UNCHANGED <<queued, closed, pc>> /\ IsNextToStart(c, p)
    BY <1>8 DEF StartPart, frameVars
  <2>4. p = <<"source", t>> => at[<<"source", t>>] # "off"
    BY <1>8 DEF StartPart
  <2>5. at[<<"source", t>>] # "off" => <<"source", t>> \in up'
    BY <2>1, <2>3, OneNext DEF ThreadsOf
  <2> QED
    BY <2>1, <2>2, <2>3, <2>4, <2>5 DEF ThreadsOf
<1>9. ASSUME NEW c \in Clients, NEW p \in Parts, StartPartFails(c, p) PROVE Threads'
  <2> SUFFICES ASSUME NEW t \in Coded PROVE ThreadsOf(t)'
    BY DEF Threads
  <2>1. ThreadsOf(t) /\ <<"source", t>> \in Parts
    BY PartsOf DEF Threads
  <2>2. /\ at'[<<"worker", t>>] = at[<<"worker", t>>]
        /\ p # <<"source", t>> => at'[<<"source", t>>] = at[<<"source", t>>]
        /\ p = <<"source", t>> => at'[<<"source", t>>] = "off"
    BY <1>9, StartPartFailsMoves
  <2>3. UNCHANGED <<up, queued, closed>> /\ IsNextToStart(c, p)
    BY <1>9 DEF StartPartFails, frameVars
  <2>4. p = <<"source", t>> => <<"source", t>> \notin up
    BY <2>3 DEF IsNextToStart
  <2>5. p # <<"source", t>> /\ at[<<"source", t>>] # "off" => <<"source", t>> \in up
    BY <2>1, <2>3, OneNext DEF ThreadsOf
  <2> QED
    BY <2>1, <2>2, <2>3, <2>4, <2>5 DEF ThreadsOf
<1>10. ASSUME NEW c \in Clients, NEW p \in Parts, StopSource(c, p) PROVE Threads'
  <2> SUFFICES ASSUME NEW t \in Coded PROVE ThreadsOf(t)'
    BY DEF Threads
  <2>1. ThreadsOf(t)
    BY DEF Threads
  <2> QED
    BY <1>10, <2>1, FunctionsOf, PartsOf, StopSourceMoves DEF StopSource, frameVars,
       ThreadsOf, OneClient, IsNextToStart
<1>11. ASSUME NEW c \in Clients, NEW p \in Parts, StopPart(c, p) PROVE Threads'
  <2> SUFFICES ASSUME NEW t \in Coded PROVE ThreadsOf(t)'
    BY DEF Threads
  <2>1. ThreadsOf(t)
    BY DEF Threads
  <2>2. up' = up \ {p} /\ UNCHANGED <<at, queued, closed>>
    BY <1>11 DEF StopPart, frameVars
  <2>3. p = <<"worker", t>> => at[<<"worker", t>>] = "off"
    BY <1>11 DEF StopPart
  <2>4. at[<<"source", t>>] = "off"
    <3>1. closed[t]
      BY <1>11, NoClientAssumption DEF StopPart, OneClient, Phases, Phase
    <3> QED
      BY <2>1, <3>1 DEF ThreadsOf
  <2> QED
    BY <2>1, <2>2, <2>3, <2>4 DEF ThreadsOf
<1>12. ASSUME NEW s \in Coded, CaptureFrame(s) PROVE Threads'
  BY <1>12, FunctionsOf, PartsOf DEF CaptureFrame, Threads, ThreadsOf, IsNextToStart
<1>13. ASSUME NEW s \in Coded, PushFrame(s) PROVE Threads'
  BY ZenonT(30), <1>13, FunctionsOf, PartsOf DEF PushFrame, Threads, ThreadsOf, IsNextToStart
<1>14. ASSUME NEW s \in Coded, PopFrame(s) PROVE Threads'
  BY <1>14, FunctionsOf, PartsOf DEF PopFrame, Threads, ThreadsOf, IsNextToStart
<1>15. ASSUME NEW s \in Coded, Encode(s) PROVE Threads'
  BY ZenonT(30), <1>15, FunctionsOf, PartsOf DEF Encode, Threads, ThreadsOf, IsNextToStart
<1>16. ASSUME NEW s \in Coded, EncodeFails(s) PROVE Threads'
  BY <1>16, FunctionsOf, PartsOf DEF EncodeFails, Threads, ThreadsOf, IsNextToStart
<1>17. ASSUME NEW s \in Coded, Dispatch(s) PROVE Threads'
  BY <1>17, FunctionsOf, PartsOf DEF Dispatch, frameVars, Threads, ThreadsOf,
     IsNextToStart
<1>18. ASSUME NEW s \in Coded, EncoderExit(s) PROVE Threads'
  BY <1>18, FunctionsOf, PartsOf DEF EncoderExit, frameVars, Threads, ThreadsOf,
     IsNextToStart
<1>19. ASSUME NEW r \in Reporters, ReportError(r) PROVE Threads'
  BY <1>19, FunctionsOf, PartsOf DEF ReportError, frameVars, Threads, ThreadsOf,
     IsNextToStart
<1>20. ASSUME NEW r \in Reporters, MarkDegraded(r) PROVE Threads'
  BY ZenonT(30), <1>20, FunctionsOf, PartsOf DEF MarkDegraded, frameVars, Threads, ThreadsOf,
     IsNextToStart
<1>21. ASSUME NEW r \in Reporters, AnnounceDegraded(r) PROVE Threads'
  BY <1>21, FunctionsOf, PartsOf DEF AnnounceDegraded, frameVars, Threads,
     ThreadsOf, IsNextToStart
<1>22. CASE WaitEvent
  BY <1>22, FunctionsOf, PartsOf DEF WaitEvent, frameVars, Threads, ThreadsOf,
     IsNextToStart
<1>23. CASE UNCHANGED vars
  BY <1>23, FunctionsOf, PartsOf DEF vars, frameVars, Threads, ThreadsOf,
     IsNextToStart
<1> QED
  BY <1>1, <1>2, <1>3, <1>4, <1>5, <1>6, <1>7, <1>8, <1>9, <1>10, <1>11, <1>12,
     <1>13, <1>14, <1>15, <1>16, <1>17, <1>18, <1>19, <1>20, <1>21, <1>22, <1>23 DEF
     Next, ClientStep, WorkerStep, CallbackStep

(* No step loses a frame, or counts one twice. *)
LEMMA CountedStep ==
  ASSUME TypeOK, OneClient, Phases, Supported, Threads, Counted, [Next]_vars
  PROVE  Counted'
<1>1. ASSUME NEW c \in Clients, Start(c) PROVE Counted'
  BY <1>1, FunctionsOf, PartsOf DEF Start, Goto, OneClient, Phases, Phase, Running,
     Threads, ThreadsOf, Counted, Balanced, InHand
<1>2. ASSUME NEW c \in Clients, StartDone(c) PROVE Counted'
  BY <1>2 DEF StartDone, Goto, frameVars, Counted, Balanced, InHand
<1>3. ASSUME NEW c \in Clients, AnnounceRunning(c) PROVE Counted'
  BY <1>3 DEF AnnounceRunning, Goto, frameVars, Counted, Balanced, InHand
<1>4. ASSUME NEW c \in Clients, Stop(c) PROVE Counted'
  BY <1>4 DEF Stop, Goto, frameVars, Counted, Balanced, InHand
<1>5. ASSUME NEW c \in Clients, CloseQueues(c) PROVE Counted'
  BY <1>5 DEF CloseQueues, Goto, frameVars, Counted, Balanced, InHand
<1>6. ASSUME NEW c \in Clients, StopDone(c) PROVE Counted'
  BY <1>6 DEF StopDone, Goto, frameVars, Counted, Balanced, InHand
<1>7. ASSUME NEW c \in Clients, NEW s \in Coded, LaunchSource(c, s) PROVE Counted'
  <2>1. ThreadsOf(s) /\ \A t \in Coded : Balanced(t)
    BY DEF Threads, Counted
  <2>2. /\ at[<<"source", s>>] = "off" /\ at'[<<"source", s>>] = "idle"
        /\ at'[<<"worker", s>>] = at[<<"worker", s>>]
        /\ \A t \in Coded \ {s} : /\ at'[<<"source", t>>] = at[<<"source", t>>]
                                 /\ at'[<<"worker", t>>] = at[<<"worker", t>>]
    BY <1>7, FunctionsOf, PartsOf DEF LaunchSource, frameVars
  <2>3. /\ UNCHANGED <<captured, handled, dropped, queued>>
        /\ \A t \in Coded \ {s} : /\ captured'[t] = captured[t] /\ handled'[t] = handled[t]
                                 /\ dropped'[t] = dropped[t] /\ queued'[t] = queued[t]
    BY <1>7, <2>1, FunctionsOf DEF LaunchSource, frameVars
  <2>4. Balanced(s)'
    BY <2>1, <2>2, <2>3, FunctionsOf DEF Balanced, InHand
  <2>5. ASSUME NEW t \in Coded \ {s} PROVE Balanced(t)'
    BY <2>1, <2>2, <2>3 DEF Balanced, InHand
  <2> QED
    BY <2>4, <2>5 DEF Counted
<1>8. ASSUME NEW c \in Clients, NEW p \in Parts, StartPart(c, p) PROVE Counted'
  <2> SUFFICES ASSUME NEW t \in Coded PROVE Balanced(t)'
    BY DEF Counted
  <2>1. Balanced(t) /\ ThreadsOf(t)
    BY DEF Counted, Threads
  <2>2. /\ at'[<<"source", t>>] = at[<<"source", t>>]
        /\ at'[<<"worker", t>>] =
             IF p = <<"worker", t>> THEN "idle" ELSE at[<<"worker", t>>]
    BY <1>8, StartPartMoves
  <2>3. p \notin up /\ UNCHANGED frameVars
    BY <1>8 DEF StartPart, IsNextToStart
  <2>4. p = <<"worker", t>> => at[<<"worker", t>>] = "off"
    BY <2>1, <2>3 DEF ThreadsOf
  <2> QED
    BY <2>1, <2>2, <2>3, <2>4 DEF Balanced, InHand, frameVars
<1>9. ASSUME NEW c \in Clients, NEW p \in Parts, StartPartFails(c, p) PROVE Counted'
  BY ZenonT(30), <1>9, FunctionsOf, PartsOf, StartPartFailsMoves DEF StartPartFails, Goto,
     frameVars, Counted, Balanced, InHand
<1>10. ASSUME NEW c \in Clients, NEW p \in Parts, StopSource(c, p) PROVE Counted'
  BY <1>10, FunctionsOf, PartsOf, StopSourceMoves DEF StopSource, frameVars,
     Counted, Balanced, InHand
<1>11. ASSUME NEW c \in Clients, NEW p \in Parts, StopPart(c, p) PROVE Counted'
  BY <1>11 DEF StopPart, frameVars, Counted, Balanced, InHand
<1>12. ASSUME NEW s \in Coded, CaptureFrame(s) PROVE Counted'
  <2>1. ThreadsOf(s) /\ \A t \in Coded : Balanced(t)
    BY DEF Threads, Counted
  <2>2. /\ at[<<"source", s>>] = "idle" /\ at'[<<"source", s>>] = "push"
        /\ at'[<<"worker", s>>] = at[<<"worker", s>>]
        /\ \A t \in Coded \ {s} : /\ at'[<<"source", t>>] = at[<<"source", t>>]
                                 /\ at'[<<"worker", t>>] = at[<<"worker", t>>]
    BY <1>12, FunctionsOf, PartsOf DEF CaptureFrame
  <2>3. /\ captured'[s] = captured[s] + 1
        /\ UNCHANGED <<handled, dropped, queued>>
        /\ \A t \in Coded \ {s} : /\ captured'[t] = captured[t] /\ handled'[t] = handled[t]
                                 /\ dropped'[t] = dropped[t] /\ queued'[t] = queued[t]
    BY <1>12, <2>1, FunctionsOf DEF CaptureFrame
  <2>4. Balanced(s)'
    BY <2>1, <2>2, <2>3, FunctionsOf DEF Balanced, InHand
  <2>5. ASSUME NEW t \in Coded \ {s} PROVE Balanced(t)'
    BY <2>1, <2>2, <2>3 DEF Balanced, InHand
  <2> QED
    BY <2>4, <2>5 DEF Counted
<1>13. ASSUME NEW s \in Coded, PushFrame(s) PROVE Counted'
  <2>1. ThreadsOf(s) /\ \A t \in Coded : Balanced(t)
    BY DEF Threads, Counted
  <2>2. /\ at[<<"source", s>>] = "push" /\ at'[<<"source", s>>] = "idle"
        /\ at'[<<"worker", s>>] = at[<<"worker", s>>]
        /\ \A t \in Coded \ {s} : /\ at'[<<"source", t>>] = at[<<"source", t>>]
                                 /\ at'[<<"worker", t>>] = at[<<"worker", t>>]
    BY <1>13, FunctionsOf, PartsOf DEF PushFrame
  <2>3. /\ \/ queued'[s] = queued[s] + 1 /\ dropped'[s] = dropped[s]
           \/ dropped'[s] = dropped[s] + 1 /\ queued'[s] = queued[s]
        /\ UNCHANGED <<captured, handled>>
        /\ \A t \in Coded \ {s} : /\ captured'[t] = captured[t] /\ handled'[t] = handled[t]
                                 /\ dropped'[t] = dropped[t] /\ queued'[t] = queued[t]
    BY <1>13, <2>1, FunctionsOf DEF PushFrame, ThreadsOf
  <2>4. Balanced(s)'
    BY <2>1, <2>2, <2>3, FunctionsOf DEF Balanced, InHand
  <2>5. ASSUME NEW t \in Coded \ {s} PROVE Balanced(t)'
    BY <2>1, <2>2, <2>3 DEF Balanced, InHand
  <2> QED
    BY <2>4, <2>5 DEF Counted
<1>14. ASSUME NEW s \in Coded, PopFrame(s) PROVE Counted'
  <2>1. ThreadsOf(s) /\ \A t \in Coded : Balanced(t)
    BY DEF Threads, Counted
  <2>2. /\ at[<<"worker", s>>] = "idle" /\ at'[<<"worker", s>>] = "encode"
        /\ at'[<<"source", s>>] = at[<<"source", s>>]
        /\ \A t \in Coded \ {s} : /\ at'[<<"source", t>>] = at[<<"source", t>>]
                                 /\ at'[<<"worker", t>>] = at[<<"worker", t>>]
    BY <1>14, FunctionsOf, PartsOf DEF PopFrame
  <2>3. /\ queued'[s] = queued[s] - 1
        /\ UNCHANGED <<captured, handled, dropped>>
        /\ \A t \in Coded \ {s} : /\ captured'[t] = captured[t] /\ handled'[t] = handled[t]
                                 /\ dropped'[t] = dropped[t] /\ queued'[t] = queued[t]
    BY <1>14, <2>1, FunctionsOf DEF PopFrame
  <2>4. Balanced(s)'
    BY <2>1, <2>2, <2>3, FunctionsOf DEF Balanced, InHand
  <2>5. ASSUME NEW t \in Coded \ {s} PROVE Balanced(t)'
    BY <2>1, <2>2, <2>3 DEF Balanced, InHand
  <2> QED
    BY <2>4, <2>5 DEF Counted
<1>15. ASSUME NEW s \in Coded, Encode(s) PROVE Counted'
  <2>1. ThreadsOf(s) /\ \A t \in Coded : Balanced(t)
    BY DEF Threads, Counted
  <2>2. /\ at[<<"worker", s>>] = "encode" /\ at'[<<"worker", s>>] # "encode"
        /\ at'[<<"source", s>>] = at[<<"source", s>>]
        /\ \A t \in Coded \ {s} : /\ at'[<<"source", t>>] = at[<<"source", t>>]
                                 /\ at'[<<"worker", t>>] = at[<<"worker", t>>]
    BY <1>15, FunctionsOf, PartsOf DEF Encode
  <2>3. /\ handled'[s] = handled[s] + 1
        /\ UNCHANGED <<captured, dropped, queued>>
        /\ \A t \in Coded \ {s} : /\ captured'[t] = captured[t] /\ handled'[t] = handled[t]
                                 /\ dropped'[t] = dropped[t] /\ queued'[t] = queued[t]
    BY <1>15, <2>1, FunctionsOf DEF Encode
  <2>4. Balanced(s)'
    BY <2>1, <2>2, <2>3, FunctionsOf DEF Balanced, InHand
  <2>5. ASSUME NEW t \in Coded \ {s} PROVE Balanced(t)'
    BY <2>1, <2>2, <2>3 DEF Balanced, InHand
  <2> QED
    BY <2>4, <2>5 DEF Counted
<1>16. ASSUME NEW s \in Coded, EncodeFails(s) PROVE Counted'
  <2>1. ThreadsOf(s) /\ \A t \in Coded : Balanced(t)
    BY DEF Threads, Counted
  <2>2. /\ at[<<"worker", s>>] = "encode" /\ at'[<<"worker", s>>] # "encode"
        /\ at'[<<"source", s>>] = at[<<"source", s>>]
        /\ \A t \in Coded \ {s} : /\ at'[<<"source", t>>] = at[<<"source", t>>]
                                 /\ at'[<<"worker", t>>] = at[<<"worker", t>>]
    BY <1>16, FunctionsOf, PartsOf DEF EncodeFails
  <2>3. /\ handled'[s] = handled[s] + 1
        /\ UNCHANGED <<captured, dropped, queued>>
        /\ \A t \in Coded \ {s} : /\ captured'[t] = captured[t] /\ handled'[t] = handled[t]
                                 /\ dropped'[t] = dropped[t] /\ queued'[t] = queued[t]
    BY <1>16, <2>1, FunctionsOf DEF EncodeFails
  <2>4. Balanced(s)'
    BY <2>1, <2>2, <2>3, FunctionsOf DEF Balanced, InHand
  <2>5. ASSUME NEW t \in Coded \ {s} PROVE Balanced(t)'
    BY <2>1, <2>2, <2>3 DEF Balanced, InHand
  <2> QED
    BY <2>4, <2>5 DEF Counted
<1>17. ASSUME NEW s \in Coded, Dispatch(s) PROVE Counted'
  <2> SUFFICES ASSUME NEW t \in Coded PROVE Balanced(t)'
    BY DEF Counted
  <2>0. Balanced(t) /\ Balanced(s) /\ ThreadsOf(t)
    BY DEF Counted, Threads
  <2>1. CASE t = s
    BY <1>17, <2>0, <2>1, FunctionsOf, PartsOf DEF Dispatch, frameVars, ThreadsOf,
       Balanced, InHand
  <2>2. CASE t # s
    BY <1>17, <2>0, <2>2, FunctionsOf, PartsOf DEF Dispatch, frameVars, ThreadsOf,
       Balanced, InHand
  <2> QED
    BY <2>1, <2>2
<1>18. ASSUME NEW s \in Coded, EncoderExit(s) PROVE Counted'
  <2> SUFFICES ASSUME NEW t \in Coded PROVE Balanced(t)'
    BY DEF Counted
  <2>0. Balanced(t) /\ Balanced(s) /\ ThreadsOf(t)
    BY DEF Counted, Threads
  <2>1. CASE t = s
    BY <1>18, <2>0, <2>1, FunctionsOf, PartsOf DEF EncoderExit, frameVars, ThreadsOf,
       Balanced, InHand
  <2>2. CASE t # s
    BY <1>18, <2>0, <2>2, FunctionsOf, PartsOf DEF EncoderExit, frameVars, ThreadsOf,
       Balanced, InHand
  <2> QED
    BY <2>1, <2>2
<1>19. ASSUME NEW r \in Reporters, ReportError(r) PROVE Counted'
  BY <1>19, FunctionsOf, PartsOf DEF ReportError, frameVars, Counted, Balanced,
     InHand
<1>20. ASSUME NEW r \in Reporters, MarkDegraded(r) PROVE Counted'
  BY <1>20, FunctionsOf, PartsOf DEF MarkDegraded, frameVars, Counted, Balanced,
     InHand
<1>21. ASSUME NEW r \in Reporters, AnnounceDegraded(r) PROVE Counted'
  BY <1>21, FunctionsOf, PartsOf DEF AnnounceDegraded, frameVars, Counted, Balanced,
     InHand
<1>22. CASE WaitEvent
  BY <1>22 DEF WaitEvent, frameVars, Counted, Balanced, InHand
<1>23. CASE UNCHANGED vars
  BY <1>23 DEF vars, frameVars, Counted, Balanced, InHand
<1> QED
  BY <1>1, <1>2, <1>3, <1>4, <1>5, <1>6, <1>7, <1>8, <1>9, <1>10, <1>11, <1>12,
     <1>13, <1>14, <1>15, <1>16, <1>17, <1>18, <1>19, <1>20, <1>21, <1>22, <1>23 DEF
     Next, ClientStep, WorkerStep, CallbackStep

(* TypeOK in parts; what is not in them follows from the count of frames. *)
LEMMA TypesOf ==
  TypeOK <=>
    /\ ControlTyped /\ EventsTyped /\ PlacesTyped /\ FramesTyped
    /\ \A s \in Coded : dropped[s] <= MaxFrames /\ handled[s] <= MaxFrames
<1> USE BoundsAssumption
<1>1. ControlTyped /\ EventsTyped /\ PlacesTyped <=>
        /\ state \in States /\ accepting \in BOOLEAN
        /\ lifecycle \in Clients \cup {NoClient} /\ up \subseteq Parts
        /\ closed \in [Coded -> BOOLEAN] /\ errors \in 0 .. MaxErrors
        /\ events \in Seq(States \cup {"error", "drop"}) /\ Len(events) <= EventCapacity
        /\ seen \in States \cup {"none"}
        /\ at \in [Reporters -> {"off", "idle", "push", "encode", "dispatch",
                                 "degrade", "announce"}]
        /\ pc \in [Clients -> {"idle", "start", "announce", "teardown", "join"}]
        /\ result \in {"none", "Stopped", "Failed"}
  BY DEF ControlTyped, EventsTyped, PlacesTyped, Event, Places
<1>2. FramesTyped /\ (\A s \in Coded : dropped[s] <= MaxFrames /\ handled[s] <= MaxFrames)
      <=>
        /\ queued \in [Coded -> 0 .. Capacity] /\ captured \in [Coded -> 0 .. MaxFrames]
        /\ dropped \in [Coded -> 0 .. MaxFrames] /\ handled \in [Coded -> 0 .. MaxFrames]
  <2>1. ASSUME NEW f PROVE
          f \in [Coded -> 0 .. MaxFrames] <=>
            f \in [Coded -> Nat] /\ \A s \in Coded : f[s] <= MaxFrames
    OBVIOUS
  <2> QED
    BY <2>1 DEF FramesTyped
<1> QED
  BY <1>1, <1>2, Zenon DEF TypeOK

(* The steps keep the types of what clients share... *)
LEMMA ControlStep ==
  ASSUME ControlTyped, OneClient, Phases, [Next]_vars
  PROVE  ControlTyped'
<1>1. ASSUME NEW c \in Clients, Start(c) PROVE ControlTyped'
  BY <1>1, BoundsAssumption DEF Start, Goto, ControlTyped, States
<1>2. ASSUME NEW c \in Clients, StartDone(c) PROVE ControlTyped'
  BY <1>2, BoundsAssumption DEF StartDone, Goto, frameVars, ControlTyped, States
<1>3. ASSUME NEW c \in Clients, AnnounceRunning(c) PROVE ControlTyped'
  BY <1>3, BoundsAssumption DEF AnnounceRunning, Goto, frameVars, ControlTyped,
     States
<1>4. ASSUME NEW c \in Clients, Stop(c) PROVE ControlTyped'
  BY <1>4, BoundsAssumption DEF Stop, Goto, frameVars, ControlTyped, States
<1>5. ASSUME NEW c \in Clients, CloseQueues(c) PROVE ControlTyped'
  BY <1>5, BoundsAssumption DEF CloseQueues, Goto, frameVars, ControlTyped, States
<1>6. ASSUME NEW c \in Clients, StopDone(c) PROVE ControlTyped'
  BY <1>6, BoundsAssumption, NoClientAssumption DEF StopDone, Goto, frameVars,
     ControlTyped, States, OneClient, Phases, Phase
<1>7. ASSUME NEW c \in Clients, NEW s \in Coded, LaunchSource(c, s) PROVE ControlTyped'
  BY <1>7, BoundsAssumption DEF LaunchSource, frameVars, ControlTyped, States
<1>8. ASSUME NEW c \in Clients, NEW p \in Parts, StartPart(c, p) PROVE ControlTyped'
  BY <1>8, BoundsAssumption DEF StartPart, frameVars, ControlTyped, States
<1>9. ASSUME NEW c \in Clients, NEW p \in Parts, StartPartFails(c, p) PROVE ControlTyped'
  BY <1>9, BoundsAssumption DEF StartPartFails, Goto, frameVars, ControlTyped,
     States
<1>10. ASSUME NEW c \in Clients, NEW p \in Parts, StopSource(c, p) PROVE ControlTyped'
  BY <1>10, BoundsAssumption DEF StopSource, frameVars, ControlTyped, States,
     Outcomes
<1>11. ASSUME NEW c \in Clients, NEW p \in Parts, StopPart(c, p) PROVE ControlTyped'
  BY <1>11, BoundsAssumption DEF StopPart, frameVars, ControlTyped, States, Outcomes
<1>12. ASSUME NEW s \in Coded, CaptureFrame(s) PROVE ControlTyped'
  BY <1>12, BoundsAssumption DEF CaptureFrame, ControlTyped, States
<1>13. ASSUME NEW s \in Coded, PushFrame(s) PROVE ControlTyped'
  BY <1>13, BoundsAssumption DEF PushFrame, ControlTyped, States
<1>14. ASSUME NEW s \in Coded, PopFrame(s) PROVE ControlTyped'
  BY <1>14, BoundsAssumption DEF PopFrame, ControlTyped, States
<1>15. ASSUME NEW s \in Coded, Encode(s) PROVE ControlTyped'
  BY <1>15, BoundsAssumption DEF Encode, ControlTyped, States
<1>16. ASSUME NEW s \in Coded, EncodeFails(s) PROVE ControlTyped'
  BY <1>16, BoundsAssumption DEF EncodeFails, ControlTyped, States
<1>17. ASSUME NEW s \in Coded, Dispatch(s) PROVE ControlTyped'
  BY <1>17, BoundsAssumption DEF Dispatch, frameVars, ControlTyped, States
<1>18. ASSUME NEW s \in Coded, EncoderExit(s) PROVE ControlTyped'
  BY <1>18, BoundsAssumption DEF EncoderExit, frameVars, ControlTyped, States
<1>19. ASSUME NEW r \in Reporters, ReportError(r) PROVE ControlTyped'
  BY <1>19, BoundsAssumption DEF ReportError, frameVars, ControlTyped, States
<1>20. ASSUME NEW r \in Reporters, MarkDegraded(r) PROVE ControlTyped'
  BY <1>20, BoundsAssumption DEF MarkDegraded, frameVars, ControlTyped, States
<1>21. ASSUME NEW r \in Reporters, AnnounceDegraded(r) PROVE ControlTyped'
  BY <1>21, BoundsAssumption DEF AnnounceDegraded, frameVars, ControlTyped, States
<1>22. CASE WaitEvent
  BY <1>22, BoundsAssumption DEF WaitEvent, frameVars, ControlTyped, States
<1>23. CASE UNCHANGED vars
  BY <1>23, BoundsAssumption DEF vars, frameVars, ControlTyped, States
<1> QED
  BY <1>1, <1>2, <1>3, <1>4, <1>5, <1>6, <1>7, <1>8, <1>9, <1>10, <1>11, <1>12,
     <1>13, <1>14, <1>15, <1>16, <1>17, <1>18, <1>19, <1>20, <1>21, <1>22, <1>23 DEF
     Next, ClientStep, WorkerStep, CallbackStep

(* ...of the frames... *)
LEMMA FramesStep ==
  ASSUME FramesTyped, [Next]_vars
  PROVE  FramesTyped'
<1>1. ASSUME NEW c \in Clients, Start(c) PROVE FramesTyped'
  BY <1>1, BoundsAssumption DEF Start, Goto, FramesTyped
<1>2. ASSUME NEW c \in Clients, StartDone(c) PROVE FramesTyped'
  BY <1>2, BoundsAssumption DEF StartDone, Goto, frameVars, FramesTyped
<1>3. ASSUME NEW c \in Clients, AnnounceRunning(c) PROVE FramesTyped'
  BY <1>3, BoundsAssumption DEF AnnounceRunning, Goto, frameVars, FramesTyped
<1>4. ASSUME NEW c \in Clients, Stop(c) PROVE FramesTyped'
  BY <1>4, BoundsAssumption DEF Stop, Goto, frameVars, FramesTyped
<1>5. ASSUME NEW c \in Clients, CloseQueues(c) PROVE FramesTyped'
  BY <1>5, BoundsAssumption DEF CloseQueues, Goto, frameVars, FramesTyped
<1>6. ASSUME NEW c \in Clients, StopDone(c) PROVE FramesTyped'
  BY <1>6, BoundsAssumption DEF StopDone, Goto, frameVars, FramesTyped
<1>7. ASSUME NEW c \in Clients, NEW s \in Coded, LaunchSource(c, s) PROVE FramesTyped'
  BY <1>7, BoundsAssumption DEF LaunchSource, frameVars, FramesTyped
<1>8. ASSUME NEW c \in Clients, NEW p \in Parts, StartPart(c, p) PROVE FramesTyped'
  BY <1>8, BoundsAssumption DEF StartPart, frameVars, FramesTyped
<1>9. ASSUME NEW c \in Clients, NEW p \in Parts, StartPartFails(c, p) PROVE FramesTyped'
  BY <1>9, BoundsAssumption DEF StartPartFails, Goto, frameVars, FramesTyped
<1>10. ASSUME NEW c \in Clients, NEW p \in Parts, StopSource(c, p) PROVE FramesTyped'
  BY <1>10, BoundsAssumption DEF StopSource, frameVars, FramesTyped
<1>11. ASSUME NEW c \in Clients, NEW p \in Parts, StopPart(c, p) PROVE FramesTyped'
  BY <1>11, BoundsAssumption DEF StopPart, frameVars, FramesTyped
<1>12. ASSUME NEW s \in Coded, CaptureFrame(s) PROVE FramesTyped'
  BY <1>12, BoundsAssumption DEF CaptureFrame, FramesTyped
<1>13. ASSUME NEW s \in Coded, PushFrame(s) PROVE FramesTyped'
  BY <1>13, BoundsAssumption DEF PushFrame, FramesTyped
<1>14. ASSUME NEW s \in Coded, PopFrame(s) PROVE FramesTyped'
  BY <1>14, BoundsAssumption DEF PopFrame, FramesTyped
<1>15. ASSUME NEW s \in Coded, Encode(s) PROVE FramesTyped'
  BY <1>15, BoundsAssumption DEF Encode, FramesTyped
<1>16. ASSUME NEW s \in Coded, EncodeFails(s) PROVE FramesTyped'
  BY <1>16, BoundsAssumption DEF EncodeFails, FramesTyped
<1>17. ASSUME NEW s \in Coded, Dispatch(s) PROVE FramesTyped'
  BY <1>17, BoundsAssumption DEF Dispatch, frameVars, FramesTyped
<1>18. ASSUME NEW s \in Coded, EncoderExit(s) PROVE FramesTyped'
  BY <1>18, BoundsAssumption DEF EncoderExit, frameVars, FramesTyped
<1>19. ASSUME NEW r \in Reporters, ReportError(r) PROVE FramesTyped'
  BY <1>19, BoundsAssumption DEF ReportError, frameVars, FramesTyped
<1>20. ASSUME NEW r \in Reporters, MarkDegraded(r) PROVE FramesTyped'
  BY <1>20, BoundsAssumption DEF MarkDegraded, frameVars, FramesTyped
<1>21. ASSUME NEW r \in Reporters, AnnounceDegraded(r) PROVE FramesTyped'
  BY <1>21, BoundsAssumption DEF AnnounceDegraded, frameVars, FramesTyped
<1>22. CASE WaitEvent
  BY <1>22, BoundsAssumption DEF WaitEvent, frameVars, FramesTyped
<1>23. CASE UNCHANGED vars
  BY <1>23, BoundsAssumption DEF vars, frameVars, FramesTyped
<1> QED
  BY <1>1, <1>2, <1>3, <1>4, <1>5, <1>6, <1>7, <1>8, <1>9, <1>10, <1>11, <1>12,
     <1>13, <1>14, <1>15, <1>16, <1>17, <1>18, <1>19, <1>20, <1>21, <1>22, <1>23 DEF
     Next, ClientStep, WorkerStep, CallbackStep

(* ...of the places of the threads... *)
LEMMA PlacesStep ==
  ASSUME PlacesTyped, [Next]_vars
  PROVE  PlacesTyped'
<1>1. ASSUME NEW c \in Clients, Start(c) PROVE PlacesTyped'
  BY <1>1, PartsOf DEF Start, Goto, PlacesTyped, Places
<1>2. ASSUME NEW c \in Clients, StartDone(c) PROVE PlacesTyped'
  BY <1>2, PartsOf DEF StartDone, Goto, frameVars, PlacesTyped, Places
<1>3. ASSUME NEW c \in Clients, AnnounceRunning(c) PROVE PlacesTyped'
  BY <1>3, PartsOf DEF AnnounceRunning, Goto, frameVars, PlacesTyped, Places
<1>4. ASSUME NEW c \in Clients, Stop(c) PROVE PlacesTyped'
  BY <1>4, PartsOf DEF Stop, Goto, frameVars, PlacesTyped, Places
<1>5. ASSUME NEW c \in Clients, CloseQueues(c) PROVE PlacesTyped'
  BY <1>5, PartsOf DEF CloseQueues, Goto, frameVars, PlacesTyped, Places
<1>6. ASSUME NEW c \in Clients, StopDone(c) PROVE PlacesTyped'
  BY <1>6, PartsOf DEF StopDone, Goto, frameVars, PlacesTyped, Places
<1>7. ASSUME NEW c \in Clients, NEW s \in Coded, LaunchSource(c, s) PROVE PlacesTyped'
  BY <1>7, PartsOf DEF LaunchSource, frameVars, PlacesTyped, Places
<1>8. ASSUME NEW c \in Clients, NEW p \in Parts, StartPart(c, p) PROVE PlacesTyped'
  <2>1. \/ at' = at
        \/ \E q \in Coded : at' = [at EXCEPT ![<<"worker", q>>] = "idle"]
        \/ \E q \in Streams :
             at' = [at EXCEPT ![<<"sink", q>>] = IF @ = "off" THEN "idle" ELSE @]
    <3>1. CASE p[1] = "worker"
      <4>1. PICK q \in Coded : p = <<"worker", q>>
        BY <3>1, PartKinds
      <4> QED
        BY <1>8, <4>1 DEF StartPart
    <3>2. CASE p[1] = "fanout"
      <4>1. PICK q \in Streams : p = <<"fanout", q>>
        BY <3>2, PartKinds
      <4> QED
        BY <1>8, <4>1 DEF StartPart
    <3>3. CASE p[1] \notin {"worker", "fanout"}
      BY <1>8, <3>3 DEF StartPart
    <3> QED
      BY <3>1, <3>2, <3>3
  <2> QED
    BY <2>1 DEF PlacesTyped, Places, Reporters
<1>9. ASSUME NEW c \in Clients, NEW p \in Parts, StartPartFails(c, p) PROVE PlacesTyped'
  BY <1>9, PartsOf DEF StartPartFails, Goto, frameVars, PlacesTyped, Places
<1>10. ASSUME NEW c \in Clients, NEW p \in Parts, StopSource(c, p) PROVE PlacesTyped'
  BY <1>10, PartsOf DEF StopSource, frameVars, PlacesTyped, Places
<1>11. ASSUME NEW c \in Clients, NEW p \in Parts, StopPart(c, p) PROVE PlacesTyped'
  BY <1>11, PartsOf DEF StopPart, frameVars, PlacesTyped, Places
<1>12. ASSUME NEW s \in Coded, CaptureFrame(s) PROVE PlacesTyped'
  BY <1>12, PartsOf DEF CaptureFrame, PlacesTyped, Places
<1>13. ASSUME NEW s \in Coded, PushFrame(s) PROVE PlacesTyped'
  BY <1>13, PartsOf DEF PushFrame, PlacesTyped, Places
<1>14. ASSUME NEW s \in Coded, PopFrame(s) PROVE PlacesTyped'
  BY <1>14, PartsOf DEF PopFrame, PlacesTyped, Places
<1>15. ASSUME NEW s \in Coded, Encode(s) PROVE PlacesTyped'
  BY <1>15, PartsOf DEF Encode, PlacesTyped, Places
<1>16. ASSUME NEW s \in Coded, EncodeFails(s) PROVE PlacesTyped'
  BY <1>16, PartsOf DEF EncodeFails, PlacesTyped, Places
<1>17. ASSUME NEW s \in Coded, Dispatch(s) PROVE PlacesTyped'
  BY <1>17, PartsOf DEF Dispatch, frameVars, PlacesTyped, Places
<1>18. ASSUME NEW s \in Coded, EncoderExit(s) PROVE PlacesTyped'
  BY <1>18, PartsOf DEF EncoderExit, frameVars, PlacesTyped, Places
<1>19. ASSUME NEW r \in Reporters, ReportError(r) PROVE PlacesTyped'
  BY <1>19, PartsOf DEF ReportError, frameVars, PlacesTyped, Places
<1>20. ASSUME NEW r \in Reporters, MarkDegraded(r) PROVE PlacesTyped'
  BY <1>20, PartsOf DEF MarkDegraded, frameVars, PlacesTyped, Places
<1>21. ASSUME NEW r \in Reporters, AnnounceDegraded(r) PROVE PlacesTyped'
  BY <1>21, PartsOf DEF AnnounceDegraded, frameVars, PlacesTyped, Places
<1>22. CASE WaitEvent
  BY <1>22, PartsOf DEF WaitEvent, frameVars, PlacesTyped, Places
<1>23. CASE UNCHANGED vars
  BY <1>23, PartsOf DEF vars, frameVars, PlacesTyped, Places
<1> QED
  BY <1>1, <1>2, <1>3, <1>4, <1>5, <1>6, <1>7, <1>8, <1>9, <1>10, <1>11, <1>12,
     <1>13, <1>14, <1>15, <1>16, <1>17, <1>18, <1>19, <1>20, <1>21, <1>22, <1>23 DEF
     Next, ClientStep, WorkerStep, CallbackStep

(* ...and of the events. *)
LEMMA EventsStep ==
  ASSUME ControlTyped, OneClient, Phases, EventsTyped, [Next]_vars
  PROVE  EventsTyped'
<1>1. ASSUME NEW c \in Clients, Start(c) PROVE EventsTyped'
  BY <1>1, RingKept DEF Start, Goto, eventVars, EventsTyped, Event, PushEvent,
     States
<1>2. ASSUME NEW c \in Clients, StartDone(c) PROVE EventsTyped'
  BY <1>2, RingKept DEF StartDone, Goto, frameVars, eventVars, EventsTyped, Event,
     PushEvent, States
<1>3. ASSUME NEW c \in Clients, AnnounceRunning(c) PROVE EventsTyped'
  BY <1>3, RingKept DEF AnnounceRunning, Goto, frameVars, eventVars, EventsTyped,
     Event, PushEvent, States
<1>4. ASSUME NEW c \in Clients, Stop(c) PROVE EventsTyped'
  BY <1>4, RingKept DEF Stop, Goto, frameVars, eventVars, EventsTyped, Event,
     PushEvent, States
<1>5. ASSUME NEW c \in Clients, CloseQueues(c) PROVE EventsTyped'
  BY <1>5, RingKept DEF CloseQueues, Goto, frameVars, eventVars, EventsTyped, Event,
     PushEvent, States
<1>6. ASSUME NEW c \in Clients, StopDone(c) PROVE EventsTyped'
  <2>1. state' = result /\ result \in States
    BY <1>6, NoClientAssumption DEF StopDone, OneClient, Phases, Phase, States
  <2>2. /\ WithEvent(events, "error") \in Seq(Event)
        /\ Len(WithEvent(events, "error")) <= EventCapacity
    BY RingKept DEF EventsTyped, Event
  <2>3. result \in Event
    BY <2>1 DEF Event
  <2>4. \/ events' = WithEvent(WithEvent(events, "error"), result)
        \/ events' = WithEvent(events, result)
    BY <1>6 DEF StopDone
  <2>5. /\ WithEvent(events, result) \in Seq(Event)
        /\ Len(WithEvent(events, result)) <= EventCapacity
    BY <2>3, RingKept DEF EventsTyped
  <2>6. /\ WithEvent(WithEvent(events, "error"), result) \in Seq(Event)
        /\ Len(WithEvent(WithEvent(events, "error"), result)) <= EventCapacity
    BY <2>2, <2>3, RingKept
  <2>7. UNCHANGED seen
    BY <1>6 DEF StopDone
  <2> QED
    BY <2>4, <2>5, <2>6, <2>7 DEF EventsTyped
<1>7. ASSUME NEW c \in Clients, NEW s \in Coded, LaunchSource(c, s) PROVE EventsTyped'
  BY <1>7, RingKept DEF LaunchSource, frameVars, eventVars, EventsTyped, Event,
     PushEvent, States
<1>8. ASSUME NEW c \in Clients, NEW p \in Parts, StartPart(c, p) PROVE EventsTyped'
  BY <1>8, RingKept DEF StartPart, frameVars, eventVars, EventsTyped, Event,
     PushEvent, States
<1>9. ASSUME NEW c \in Clients, NEW p \in Parts, StartPartFails(c, p) PROVE EventsTyped'
  BY <1>9, RingKept DEF StartPartFails, Goto, frameVars, eventVars, EventsTyped,
     Event, PushEvent, States
<1>10. ASSUME NEW c \in Clients, NEW p \in Parts, StopSource(c, p) PROVE EventsTyped'
  BY <1>10, RingKept DEF StopSource, frameVars, eventVars, EventsTyped, Event,
     PushEvent, States
<1>11. ASSUME NEW c \in Clients, NEW p \in Parts, StopPart(c, p) PROVE EventsTyped'
  BY <1>11, RingKept DEF StopPart, frameVars, eventVars, EventsTyped, Event,
     PushEvent, States
<1>12. ASSUME NEW s \in Coded, CaptureFrame(s) PROVE EventsTyped'
  BY <1>12, RingKept DEF CaptureFrame, eventVars, EventsTyped, Event, PushEvent,
     States
<1>13. ASSUME NEW s \in Coded, PushFrame(s) PROVE EventsTyped'
  BY <1>13, RingKept DEF PushFrame, eventVars, EventsTyped, Event, PushEvent, States
<1>14. ASSUME NEW s \in Coded, PopFrame(s) PROVE EventsTyped'
  BY <1>14, RingKept DEF PopFrame, eventVars, EventsTyped, Event, PushEvent, States
<1>15. ASSUME NEW s \in Coded, Encode(s) PROVE EventsTyped'
  BY <1>15, RingKept DEF Encode, eventVars, EventsTyped, Event, PushEvent, States
<1>16. ASSUME NEW s \in Coded, EncodeFails(s) PROVE EventsTyped'
  BY <1>16, RingKept DEF EncodeFails, eventVars, EventsTyped, Event, PushEvent,
     States
<1>17. ASSUME NEW s \in Coded, Dispatch(s) PROVE EventsTyped'
  BY <1>17, RingKept DEF Dispatch, frameVars, eventVars, EventsTyped, Event,
     PushEvent, States
<1>18. ASSUME NEW s \in Coded, EncoderExit(s) PROVE EventsTyped'
  BY <1>18, RingKept DEF EncoderExit, frameVars, eventVars, EventsTyped, Event,
     PushEvent, States
<1>19. ASSUME NEW r \in Reporters, ReportError(r) PROVE EventsTyped'
  BY <1>19, RingKept DEF ReportError, frameVars, eventVars, EventsTyped, Event,
     PushEvent, States
<1>20. ASSUME NEW r \in Reporters, MarkDegraded(r) PROVE EventsTyped'
  BY <1>20, RingKept DEF MarkDegraded, frameVars, eventVars, EventsTyped, Event,
     PushEvent, States
<1>21. ASSUME NEW r \in Reporters, AnnounceDegraded(r) PROVE EventsTyped'
  BY <1>21, RingKept DEF AnnounceDegraded, frameVars, eventVars, EventsTyped, Event,
     PushEvent, States
<1>22. CASE WaitEvent
  <2>1. events # <<>> /\ events' = Tail(events)
    BY <1>22 DEF WaitEvent
  <2>2. /\ Head(events) \in Event /\ Tail(events) \in Seq(Event)
        /\ Len(Tail(events)) = Len(events) - 1
    BY <2>1 DEF EventsTyped
  <2>3. seen' \in States \cup {"none"}
    BY <1>22, <2>2 DEF WaitEvent, EventsTyped, Event
  <2> QED
    BY <2>1, <2>2, <2>3, BoundsAssumption DEF EventsTyped
<1>23. CASE UNCHANGED vars
  BY <1>23, RingKept DEF vars, frameVars, eventVars, EventsTyped, Event, PushEvent,
     States
<1> QED
  BY <1>1, <1>2, <1>3, <1>4, <1>5, <1>6, <1>7, <1>8, <1>9, <1>10, <1>11, <1>12,
     <1>13, <1>14, <1>15, <1>16, <1>17, <1>18, <1>19, <1>20, <1>21, <1>22, <1>23 DEF
     Next, ClientStep, WorkerStep, CallbackStep

(* The counters keep their bound because what they count was captured. *)
LEMMA Typed == IInv => TypeOK
<1> SUFFICES ASSUME IInv PROVE TypeOK
  OBVIOUS
<1>1. ASSUME NEW s \in Coded PROVE dropped[s] <= MaxFrames /\ handled[s] <= MaxFrames
  <2>1. Balanced(s)
    BY DEF IInv, Counted
  <2>2. /\ captured[s] \in 0 .. MaxFrames /\ queued[s] \in 0 .. Capacity
        /\ dropped[s] \in Nat /\ handled[s] \in Nat
    BY DEF IInv, FramesTyped
  <2>3. InHand(s) \in Nat
    BY DEF InHand
  <2> QED
    BY <2>1, <2>2, <2>3, BoundsAssumption DEF Balanced
<1> QED
  BY <1>1, TypesOf DEF IInv

(* The invariant holds at first... *)
LEMMA InitInv == Init => IInv
<1> SUFFICES ASSUME Init PROVE IInv
  OBVIOUS
<1>1. /\ ControlTyped
      /\ PlacesTyped
      /\ FramesTyped
  <2>1. ControlTyped
    <3>1. closed \in [Coded -> BOOLEAN]
      BY Zenon DEF Init
    <3>2. state \in States /\ errors \in 0 .. MaxErrors /\ up \subseteq Parts
      BY BoundsAssumption DEF Init, States
    <3> QED
      BY <3>1, <3>2 DEF Init, ControlTyped
  <2>2. PlacesTyped
    BY DEF Init, PlacesTyped, Places
  <2>3. FramesTyped
    BY BoundsAssumption DEF Init, FramesTyped
  <2> QED
    BY <2>1, <2>2, <2>3
<1>2. EventsTyped
  BY BoundsAssumption DEF Init, EventsTyped, Event, States
<1>4. OneClient /\ Phases /\ Supported
  BY NoClientAssumption DEF Init, OneClient, Phases, Phase, Supported, Running
<1>5. ASSUME NEW s \in Coded PROVE ThreadsOf(s) /\ Balanced(s)
  <2>1. at[<<"source", s>>] = "off" /\ at[<<"worker", s>>] = "off"
    BY PartsOf DEF Init
  <2> QED
    BY <2>1 DEF Init, ThreadsOf, Balanced, InHand
<1> QED
  BY <1>1, <1>2, <1>4, <1>5 DEF IInv, Threads, Counted

(* ...every step keeps it... *)
LEMMA NextInv == IInv /\ [Next]_vars => IInv'
<1> SUFFICES ASSUME IInv, [Next]_vars PROVE IInv'
  OBVIOUS
<1>1. TypeOK /\ OneClient /\ Phases /\ Supported /\ Threads /\ Counted
  BY Typed DEF IInv
<1>2. OneClient' /\ Phases' /\ Supported' /\ Threads' /\ Counted'
  BY <1>1, OneClientStep, PhasesStep, SupportedStep, ThreadsStep, CountedStep
<1>3. ControlTyped' /\ EventsTyped' /\ PlacesTyped' /\ FramesTyped'
  BY <1>1, ControlStep, EventsStep, PlacesStep, FramesStep DEF IInv
<1> QED
  BY <1>2, <1>3 DEF IInv

(* ...so it holds for ever. *)
LEMMA Invariance == Spec => []IInv
  BY InitInv, NextInv, PTL DEF Spec

(* The types of the pipeline's state; the ring and the queues keep their size. *)
THEOREM TypeCorrect == Spec => []TypeOK
  BY Typed, Invariance, PTL

(* Between calls of start() and stop() all parts are up or none, and a      *)
(* pipeline at rest has encoded or dropped every frame it captured: also    *)
(* after a start() that failed half way or a stop() that reported an error. *)
THEOREM NothingIsLeft == Spec => []NothingLeft
<1>1. IInv => NothingLeft
  <2> SUFFICES ASSUME IInv PROVE AllOrNothing /\ DrainedAtRest
    BY DEF NothingLeft
  <2> USE DEF IInv
  <2>1. lifecycle = NoClient => \A c \in Clients : pc[c] = "idle"
    BY NoClientAssumption DEF OneClient
  <2>2. ASSUME lifecycle = NoClient, NEW s \in Coded, <<"source", s>> \notin up
        PROVE  at[<<"source", s>>] = "off"
    BY <2>1, <2>2 DEF Threads, ThreadsOf, IsNextToStart
  <2>3. AllOrNothing
    <3> SUFFICES ASSUME lifecycle = NoClient
                 PROVE  /\ state \in Running => up = Parts
                        /\ state \notin Running => up = {} /\ ~accepting
                        /\ \A r \in Reporters \ ({"sink"} \X Streams) :
                             at[r] # "off" => r \in up
      BY DEF AllOrNothing
    <3>1. /\ state \in Running => up = Parts
          /\ state \notin Running => up = {} /\ ~accepting
      BY DEF Phases, Phase
    <3>2. ASSUME NEW r \in Reporters \ ({"sink"} \X Streams), at[r] # "off" PROVE r \in up
      <4>1. PICK s \in Coded : r = <<"source", s>> \/ r = <<"worker", s>>
        BY DEF Reporters
      <4> QED
        BY <2>2, <3>2, <4>1 DEF Threads, ThreadsOf
    <3> QED
      BY <3>1, <3>2
  <2>4. DrainedAtRest
    <3> SUFFICES ASSUME lifecycle = NoClient, state \notin Running, NEW s \in Coded
                 PROVE  captured[s] = handled[s] + dropped[s]
      BY DEF DrainedAtRest
    <3>1. up = {}
      BY DEF Phases, Phase
    <3>2. at[<<"source", s>>] = "off" /\ at[<<"worker", s>>] = "off" /\ queued[s] = 0
      BY <2>2, <3>1 DEF Threads, ThreadsOf
    <3>3. captured[s] \in Nat /\ handled[s] \in Nat /\ dropped[s] \in Nat
      BY Typed, FunctionsOf
    <3> QED
      BY <3>2, <3>3 DEF Counted, Balanced, InHand
  <2> QED
    BY <2>3, <2>4
<1> QED
  BY <1>1, Invariance, PTL

(* The encode workers call encoders and fanouts only while these are started. *)
THEOREM EncodesWhileUp == Spec => []EncodeWhileUp
<1>1. IInv => EncodeWhileUp
  BY DEF IInv, Threads, ThreadsOf, Supported, EncodeWhileUp
<1> QED
  BY <1>1, Invariance, PTL

(* state_, stored by clients and compare-exchanged by data threads, moves    *)
(* along the life cycle only.                                               *)
THEOREM StateFollowsLifeCycle == Spec => StateSteps
<1>1. IInv /\ [Next]_vars => [LegalStep]_state
  <2> DEFINE Legal == LegalStep \/ UNCHANGED state
  <2> SUFFICES ASSUME IInv, [Next]_vars PROVE Legal
    OBVIOUS
  <2>0. OneClient /\ Phases
    BY DEF IInv
  <2>1. ASSUME NEW c \in Clients, Start(c) PROVE Legal
    BY <2>1, NoClientAssumption, <2>0 DEF Start, Goto, LegalStep, OneClient, Phases,
       Phase, Running
  <2>2. ASSUME NEW c \in Clients, StartDone(c) PROVE Legal
    BY <2>2, NoClientAssumption, <2>0 DEF StartDone, Goto, frameVars, LegalStep,
       OneClient, Phases, Phase, Running
  <2>3. ASSUME NEW c \in Clients, AnnounceRunning(c) PROVE Legal
    BY <2>3 DEF AnnounceRunning, Goto, frameVars, LegalStep
  <2>4. ASSUME NEW c \in Clients, Stop(c) PROVE Legal
    BY <2>4, NoClientAssumption, <2>0 DEF Stop, Goto, frameVars, LegalStep, OneClient,
       Phases, Phase, Running
  <2>5. ASSUME NEW c \in Clients, CloseQueues(c) PROVE Legal
    BY <2>5 DEF CloseQueues, Goto, frameVars, LegalStep
  <2>6. ASSUME NEW c \in Clients, StopDone(c) PROVE Legal
    BY <2>6, NoClientAssumption, <2>0 DEF StopDone, Goto, frameVars, LegalStep,
       OneClient, Phases, Phase, Running
  <2>7. ASSUME NEW c \in Clients, NEW s \in Coded, LaunchSource(c, s) PROVE Legal
    BY <2>7 DEF LaunchSource, frameVars, LegalStep
  <2>8. ASSUME NEW c \in Clients, NEW p \in Parts, StartPart(c, p) PROVE Legal
    BY <2>8 DEF StartPart, frameVars, LegalStep
  <2>9. ASSUME NEW c \in Clients, NEW p \in Parts, StartPartFails(c, p) PROVE Legal
    BY <2>9 DEF StartPartFails, Goto, frameVars, LegalStep
  <2>10. ASSUME NEW c \in Clients, NEW p \in Parts, StopSource(c, p) PROVE Legal
    BY <2>10 DEF StopSource, frameVars, LegalStep
  <2>11. ASSUME NEW c \in Clients, NEW p \in Parts, StopPart(c, p) PROVE Legal
    BY <2>11 DEF StopPart, frameVars, LegalStep
  <2>12. ASSUME NEW s \in Coded, CaptureFrame(s) PROVE Legal
    BY <2>12 DEF CaptureFrame, LegalStep
  <2>13. ASSUME NEW s \in Coded, PushFrame(s) PROVE Legal
    BY <2>13 DEF PushFrame, LegalStep
  <2>14. ASSUME NEW s \in Coded, PopFrame(s) PROVE Legal
    BY <2>14 DEF PopFrame, LegalStep
  <2>15. ASSUME NEW s \in Coded, Encode(s) PROVE Legal
    BY <2>15 DEF Encode, LegalStep
  <2>16. ASSUME NEW s \in Coded, EncodeFails(s) PROVE Legal
    BY <2>16 DEF EncodeFails, LegalStep
  <2>17. ASSUME NEW s \in Coded, Dispatch(s) PROVE Legal
    BY <2>17 DEF Dispatch, frameVars, LegalStep
  <2>18. ASSUME NEW s \in Coded, EncoderExit(s) PROVE Legal
    BY <2>18 DEF EncoderExit, frameVars, LegalStep
  <2>19. ASSUME NEW r \in Reporters, ReportError(r) PROVE Legal
    BY <2>19 DEF ReportError, frameVars, LegalStep
  <2>20. ASSUME NEW r \in Reporters, MarkDegraded(r) PROVE Legal
    BY <2>20 DEF MarkDegraded, frameVars, LegalStep
  <2>21. ASSUME NEW r \in Reporters, AnnounceDegraded(r) PROVE Legal
    BY <2>21 DEF AnnounceDegraded, frameVars, LegalStep
  <2>22. CASE WaitEvent
    BY <2>22 DEF WaitEvent, frameVars, LegalStep
  <2>23. CASE UNCHANGED vars
    BY <2>23 DEF vars, frameVars, LegalStep
  <2> QED
    BY <2>1, <2>2, <2>3, <2>4, <2>5, <2>6, <2>7, <2>8, <2>9, <2>10, <2>11, <2>12,
       <2>13, <2>14, <2>15, <2>16, <2>17, <2>18, <2>19, <2>20, <2>21, <2>22, <2>23 DEF
       Next, ClientStep, WorkerStep, CallbackStep
<1> QED
  BY <1>1, Invariance, PTL DEF Spec, StateSteps

================================================================================
