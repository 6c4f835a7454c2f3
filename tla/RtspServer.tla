------------------------------ MODULE RtspServer ------------------------------
(***************************************************************************)
(* SvcKit/protocols/rtsp: the signalling of RtspServer (RtspServer.cpp)    *)
(* over a TcpServer (tcp_server.cpp): the two sinks that share the server, *)
(* its acceptor, connections, sessions, tracks, the session timeout and    *)
(* the one publisher of the multicast group.                               *)
(*                                                                         *)
(* Every action is one callback or task of the EventLoop, which runs them  *)
(* one at a time; start() and stop() are calls of the application, which   *)
(* makes them while the loop is not inside a callback.  A connection is    *)
(* known by its id.  A request is its method and what decides its branch;  *)
(* whether credentials and headers are right is any outcome.  The bytes    *)
(* that go to a client are the concern of RtspStream: here a send may find *)
(* the backlog full or the socket broken, and the connection closes.       *)
(***************************************************************************)
EXTENDS Integers, FiniteSets, Sequences, SequencesExt

CONSTANTS
  Sinks,            \* users of the server: its video and its audio fanout
  MaxConnections,   \* bound on the connections ever accepted
  EnableMulticast   \* RtspServerOptions::enableMulticast

Ids == 1 .. MaxConnections
Tracks == {"video", "audio"}
Transports == {"unicast", "multicast"}   \* unicast: interleaved on TCP, or UDP
Nobody == 0

VARIABLES
  references,   \* startReferences_
  users,        \* sinks whose start() has succeeded and which did not stop()
  running,      \* Impl::running_
  listening,    \* the TcpServer accepts
  timer,        \* maintenanceTimer_ is scheduled
  nextId,       \* nextConnectionId_
  connections,  \* connections_: the ids in it
  state,        \* of each connection: tracks, session and flags
  watched,      \* connections whose socket the loop watches
  posted,       \* remove() tasks in the loop's queue: ids
  owner         \* multicastOwner_

serverVars == <<references, users, running, listening, timer>>
tableVars == <<nextId, connections, watched, posted>>
vars == <<references, users, running, listening, timer, nextId, connections,
          state, watched, posted, owner>>

\* A connection as its constructor leaves it.  idle: no request for as long as
\* the session timeout.
Fresh == [closed |-> FALSE, session |-> FALSE, playing |-> FALSE, owns |-> FALSE,
          idle |-> FALSE, video |-> "none", audio |-> "none"]

Init ==
  /\ references = 0 /\ users = {}
  /\ running = FALSE /\ listening = FALSE /\ timer = FALSE
  /\ nextId = 1 /\ connections = {} /\ watched = {} /\ posted = <<>>
  /\ state = [c \in Ids |-> Fresh] /\ owner = Nobody

HasTrack(k) == \E t \in Tracks : k[t] # "none"
HasMulticast(k) == \E t \in Tracks : k[t] = "multicast"

\* Mutant of SessionReset: the ownership flag survives.
SessionResetKeeps(k) ==
  [k EXCEPT !.video = "none", !.audio = "none", !.playing = FALSE, !.session = FALSE]

\* resetSession(), the connection's part.
SessionReset(k) ==
  [k EXCEPT !.video = "none", !.audio = "none", !.playing = FALSE, !.session = FALSE,
            !.owns = FALSE]

\* resetSession(), the server's part: releaseMulticast() by a connection that
\* takes itself for the owner.
Released(c, k, own) == IF k.owns /\ own = c THEN Nobody ELSE own

-----------------------------------------------------------------------------
(* How a handler ends *)

\* Mutant of Drop: the connection is closed and never erased.
DropLeaks(c, k, own) ==
  /\ state' = [state EXCEPT ![c] = [SessionReset(k) EXCEPT !.closed = TRUE]]
  /\ owner' = Released(c, k, own)
  /\ watched' = watched \ {c} /\ UNCHANGED posted

\* Mutant of Drop: the socket is closed and stays in the loop's table.
DropWatched(c, k, own) ==
  /\ state' = [state EXCEPT ![c] = [SessionReset(k) EXCEPT !.closed = TRUE]]
  /\ owner' = Released(c, k, own)
  /\ posted' = Append(posted, c) /\ UNCHANGED watched

\* disconnect(): close(), and a task that erases the connection.
Drop(c, k, own) ==
  /\ state' = [state EXCEPT ![c] = [SessionReset(k) EXCEPT !.closed = TRUE]]
  /\ owner' = Released(c, k, own)
  /\ watched' = watched \ {c} /\ posted' = Append(posted, c)

\* The handler leaves connection k and owner own, then responds and watches the
\* socket again; either may fail.
Finish(c, k, own) ==
  \/ /\ state' = [state EXCEPT ![c] = k] /\ owner' = own /\ watched' = watched \cup {c}
     /\ UNCHANGED posted
  \/ Drop(c, k, own)

Live(c) == c \in connections /\ ~state[c].closed /\ c \in watched
ReadyVars == <<serverVars, nextId, connections>>

-----------------------------------------------------------------------------
(* Requests: onReady(), parseInput(), handle() *)

Active(c) == [state[c] EXCEPT !.idle = FALSE]

\* A malformed request or one without valid credentials is answered and changes
\* nothing, not even lastActivityNs_.
Refuse(c) ==
  /\ Live(c) /\ Finish(c, state[c], owner) /\ UNCHANGED ReadyVars

\* OPTIONS, DESCRIBE, GET_PARAMETER, SET_PARAMETER, an interleaved '$' frame, and
\* every request that names a wrong session or track.
Touch(c) ==
  /\ Live(c) /\ Finish(c, Active(c), owner) /\ UNCHANGED ReadyVars

\* setupTrack(): a track configured before is reset first; with the last
\* multicast track goes the ownership.
Replaced(c, t) ==
  LET k == [Active(c) EXCEPT ![t] = "none"] IN
  IF state[c][t] = "multicast" /\ ~HasMulticast(k) /\ k.owns
  THEN <<[k EXCEPT !.owns = FALSE], Released(c, k, owner)>> ELSE <<k, owner>>

\* The track is set up; a session begins or goes on, and is not playing.
Configured(k, t, transport) ==
  [k EXCEPT ![t] = transport, !.session = TRUE, !.playing = FALSE]

\* Mutant of MulticastOutcomes: the owner is not asked for.
MulticastOutcomesUnchecked(c, t, k, own) ==
  {<<Configured([k EXCEPT !.owns = TRUE], t, "multicast"), c>>}

\* Mutant of MulticastOutcomes: a failure after the group was acquired keeps it.
MulticastOutcomesKeep(c, t, k, own) ==
  {<<k, own>>} \cup
  (IF EnableMulticast /\ own \in {Nobody, c} THEN
     {<<[k EXCEPT !.owns = TRUE], c>>,
      <<Configured([k EXCEPT !.owns = TRUE], t, "multicast"), c>>}
   ELSE {})

\* The sockets fail, the group is disabled or has another owner; or it is
\* acquired, and then the address or the TTL may be refused.
MulticastOutcomes(c, t, k, own) ==
  LET k1 == [k EXCEPT !.owns = TRUE]
      refused == IF HasMulticast(k1) THEN <<k1, c>> ELSE <<[k EXCEPT !.owns = FALSE], Nobody>> IN
  {<<k, own>>} \cup
  (IF EnableMulticast /\ own \in {Nobody, c}
   THEN {refused, <<Configured(k1, t, "multicast"), c>>} ELSE {})

\* TCP channels are always had; the UDP sockets may fail, or, once a session has
\* begun, their names.
UnicastOutcomes(t, k, own) ==
  {<<k, own>>, <<Configured(k, t, "none"), own>>, <<Configured(k, t, "unicast"), own>>}

Setup(c, t, transport) ==
  /\ Live(c)
  /\ LET k == Replaced(c, t)[1]  own == Replaced(c, t)[2]
         outcomes == IF transport = "unicast" THEN UnicastOutcomes(t, k, own)
                     ELSE MulticastOutcomes(c, t, k, own) IN
     \E o \in outcomes : Finish(c, o[1], o[2])
  /\ UNCHANGED ReadyVars

\* Mutant of Play: a track is not asked for.
PlayAnyway(c) ==
  /\ Live(c)
  /\ Finish(c, [Active(c) EXCEPT !.playing = TRUE], owner)
  /\ UNCHANGED ReadyVars

Play(c) ==
  /\ Live(c) /\ state[c].session /\ HasTrack(state[c])
  /\ Finish(c, [Active(c) EXCEPT !.playing = TRUE], owner)
  /\ UNCHANGED ReadyVars

Pause(c) ==
  /\ Live(c) /\ state[c].session
  /\ Finish(c, [Active(c) EXCEPT !.playing = FALSE], owner)
  /\ UNCHANGED ReadyVars

Teardown(c) ==
  /\ Live(c) /\ state[c].session
  /\ Finish(c, SessionReset(Active(c)), Released(c, state[c], owner))
  /\ UNCHANGED ReadyVars

\* The peer closes, the socket fails, or a request is too large or garbled.
PeerGone(c) ==
  /\ Live(c) /\ Drop(c, state[c], owner) /\ UNCHANGED ReadyVars

-----------------------------------------------------------------------------
(* Timer, packets, tasks *)

\* A packet or a report finds the backlog of a playing client full.
SendOverflows(c) ==
  /\ running /\ Live(c) /\ state[c].playing
  /\ Drop(c, state[c], owner) /\ UNCHANGED ReadyVars

\* The session timeout elapses without a request.
TimePasses(c) ==
  /\ Live(c) /\ ~state[c].idle
  /\ state' = [state EXCEPT ![c].idle = TRUE]
  /\ UNCHANGED <<serverVars, tableVars, owner>>

Expired(c) == c \in connections /\ ~state[c].closed /\ state[c].session /\ state[c].idle

\* Mutant of Maintain: an expired session keeps the multicast group.
MaintainKeepsGroup ==
  /\ timer /\ running /\ \E c \in Ids : Expired(c)
  /\ state' = [c \in Ids |-> IF Expired(c) THEN SessionReset(state[c]) ELSE state[c]]
  /\ UNCHANGED <<serverVars, tableVars, owner>>

\* Mutant of Maintain: a client that plays is not idle.
MaintainSparesPlaying ==
  /\ timer /\ running /\ \E c \in Ids : Expired(c) /\ ~state[c].playing
  /\ state' = [c \in Ids |-> IF Expired(c) /\ ~state[c].playing
                               THEN SessionReset(state[c]) ELSE state[c]]
  /\ owner' = IF owner \in Ids /\ Expired(owner) /\ ~state[owner].playing
              THEN Released(owner, state[owner], owner) ELSE owner
  /\ UNCHANGED <<serverVars, tableVars>>

\* maintain() of every connection: an expired session is reset, its connection
\* stays.
Maintain ==
  /\ timer /\ running /\ \E c \in Ids : Expired(c)
  /\ state' = [c \in Ids |-> IF Expired(c) THEN SessionReset(state[c]) ELSE state[c]]
  /\ owner' = IF owner \in Ids /\ Expired(owner)
              THEN Released(owner, state[owner], owner) ELSE owner
  /\ UNCHANGED <<serverVars, tableVars>>

\* The task of remove(): the connection is destroyed.
Erase ==
  /\ posted # <<>> /\ posted' = Tail(posted)
  /\ connections' = connections \ {Head(posted)}
  /\ UNCHANGED <<serverVars, nextId, state, watched, owner>>

\* TcpServer::onReady() and Impl::accept(): the connection starts to watch its
\* socket, which the loop may refuse.
Accept ==
  /\ running /\ listening /\ nextId <= MaxConnections
  /\ nextId' = nextId + 1 /\ connections' = connections \cup {nextId}
  /\ Finish(nextId, Fresh, owner)
  /\ UNCHANGED serverVars

\* accept() or watching the socket again fails: the acceptor closes for good.
AcceptFails ==
  /\ running /\ listening /\ listening' = FALSE
  /\ UNCHANGED <<references, users, running, timer, tableVars, state, owner>>

-----------------------------------------------------------------------------
(* start() and stop() *)

\* Mutant of StartSink: a failed start keeps its reference.
StartSinkLeaks(s) ==
  /\ s \notin users
  /\ references' = references + 1
  /\ \/ /\ references # 0 /\ users' = users \cup {s} /\ UNCHANGED <<running, listening, timer>>
     \/ /\ references = 0 /\ users' = users \cup {s}
        /\ running' = TRUE /\ listening' = TRUE /\ timer' = TRUE
     \/ /\ references = 0 /\ UNCHANGED <<users, running, listening, timer>>
  /\ UNCHANGED <<tableVars, state, owner>>

\* The first user starts the acceptor and the timer, which may fail; the others
\* count themselves in.
StartSink(s) ==
  /\ s \notin users
  /\ \/ /\ references # 0
        /\ references' = references + 1 /\ users' = users \cup {s}
        /\ UNCHANGED <<running, listening, timer>>
     \/ /\ references = 0
        /\ references' = 1 /\ users' = users \cup {s}
        /\ running' = TRUE /\ listening' = TRUE /\ timer' = TRUE
     \/ references = 0 /\ UNCHANGED <<references, users, running, listening, timer>>
  /\ UNCHANGED <<tableVars, state, owner>>

\* The last user stops the server: every connection is closed and destroyed; the
\* tasks that were to erase some stay in the queue.
StopSink(s) ==
  /\ s \in users
  /\ references' = references - 1 /\ users' = users \ {s}
  /\ IF references = 1
     THEN /\ running' = FALSE /\ listening' = FALSE /\ timer' = FALSE
          /\ state' = [c \in Ids |-> IF c \in connections
                         THEN [SessionReset(state[c]) EXCEPT !.closed = TRUE] ELSE state[c]]
          /\ connections' = {} /\ watched' = watched \ connections /\ owner' = Nobody
     ELSE UNCHANGED <<running, listening, timer, state, connections, watched, owner>>
  /\ UNCHANGED <<nextId, posted>>

Request(c) ==
  \/ Refuse(c) \/ Touch(c) \/ Play(c) \/ Pause(c) \/ Teardown(c)
  \/ \E t \in Tracks, transport \in Transports : Setup(c, t, transport)

Next ==
  \/ \E c \in Ids : Request(c) \/ PeerGone(c) \/ SendOverflows(c) \/ TimePasses(c)
  \/ Maintain \/ Erase \/ Accept \/ AcceptFails
  \/ \E s \in Sinks : StartSink(s) \/ StopSink(s)

Spec == Init /\ [][Next]_vars

\* The loop runs its timer.
Fairness == WF_vars(Maintain)

-----------------------------------------------------------------------------
(* Correctness. *)

TypeOK ==
  /\ references \in 0 .. Cardinality(Sinks) /\ users \subseteq Sinks
  /\ running \in BOOLEAN /\ listening \in BOOLEAN /\ timer \in BOOLEAN
  /\ nextId \in 1 .. MaxConnections + 1
  /\ connections \subseteq Ids /\ watched \subseteq Ids /\ posted \in Seq(Ids)
  /\ state \in [Ids -> [closed : BOOLEAN, session : BOOLEAN, playing : BOOLEAN,
                        owns : BOOLEAN, idle : BOOLEAN,
                        video : Transports \cup {"none"}, audio : Transports \cup {"none"}]]
  /\ owner \in Ids \cup {Nobody}

(* At most one connection publishes to the multicast group, and the group  *)
(* is owned exactly by a connection with a multicast track: no replaced,   *)
(* failed, expired or closed set-up leaves it taken.                       *)
OnePublisher ==
  /\ owner # Nobody => owner \in connections /\ state[owner].owns
  /\ \A c \in connections :
       (state[c].owns <=> owner = c) /\ (state[c].owns <=> HasMulticast(state[c]))

(* The loop calls back exactly the open connections that exist: a callback *)
(* holds a raw pointer to its connection.                                  *)
NoDanglingCallback == watched = {c \in connections : ~state[c].closed}

(* A connection that was closed is about to be erased: none stays in the   *)
(* table for ever.                                                         *)
ClosedAreErased == \A c \in connections : state[c].closed => c \in ToSet(posted)

(* The server runs exactly as long as a sink uses it, whatever starts      *)
(* failed in between; without it nothing is left of the connections.       *)
RunsForItsUsers ==
  /\ running <=> users # {}
  /\ ~running => ~listening /\ ~timer /\ connections = {} /\ watched = {} /\ owner = Nobody

(* What plays has a session.                                               *)
PlaysInSession ==
  \A c \in connections : state[c].playing \/ HasTrack(state[c]) => state[c].session

(* A client that falls silent loses its session, and with it the multicast *)
(* group: the next client can have it.                                     *)
SilentSessionsEnd ==
  \A c \in Ids : (state[c].session /\ state[c].idle) ~> (~state[c].session \/ ~state[c].idle)
=============================================================================
