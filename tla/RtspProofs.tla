------------------------------ MODULE RtspProofs ------------------------------
(***************************************************************************)
(* Proofs about RtspServer and RtspStream, as MCRtsp puts them side by     *)
(* side, for every value of the constants.                                 *)
(***************************************************************************)
EXTENDS MCRtsp, FiniteSetTheorems, SequenceTheorems, WellFoundedInduction, TLAPS

(* Numbers. *)

\* A set of naturals has a least one.
LEMMA Least ==
  ASSUME NEW T, T \subseteq Nat, T # {}
  PROVE  \E x \in T : \A y \in T : x <= y
<1>1. PICK x \in T : \A y \in T : <<y, x>> \notin OpToRel(<, Nat)
  BY NatLessThanWellFounded, WFMin
<1>2. \A y \in T : ~(y < x)
  BY <1>1 DEF OpToRel
<1> QED
  BY <1>2

\* What holds of 0 and, with a number, of the next one, holds up to n.
LEMMA UpTo ==
  ASSUME NEW n \in Nat, NEW T, 0 \in T, \A i \in 0 .. n - 1 : i \in T => i + 1 \in T
  PROVE  0 .. n \subseteq T
<1> DEFINE U == {i \in 0 .. n : i \notin T}
<1> SUFFICES ASSUME U # {} PROVE FALSE
  OBVIOUS
<1>1. PICK x \in U : \A y \in U : x <= y
  BY Least, U \subseteq Nat
<1> QED
  BY <1>1

\* The remainder is the only one in its range.
LEMMA Remainder ==
  ASSUME NEW m \in Nat \ {0}, NEW q \in Int, NEW r \in 0 .. m - 1
  PROVE  (m * q + r) % m = r
  OBVIOUS

\* Every number has a quotient and a remainder.
LEMMA Quotient ==
  ASSUME NEW m \in Nat \ {0}, NEW a \in Int
  PROVE  \E q \in Int, r \in 0 .. m - 1 : a = m * q + r /\ a % m = r
<1> DEFINE T == {x \in Nat : \E q \in Int : a = m * q + x}
<1>1. T # {}
  <2>1. CASE a >= 0
    <3>1. a \in Nat /\ 0 \in Int /\ a = m * 0 + a
      BY <2>1
    <3>2. a \in T
      BY <3>1
    <3> QED
      BY <3>2
  <2>2. CASE a < 0
    <3>1. m * a <= a
      BY <2>2
    <3>2. a - m * a \in Nat /\ a = m * a + (a - m * a)
      BY <2>2, <3>1
    <3>3. a - m * a \in T
      BY <3>2
    <3> QED
      BY <3>3
  <2> HIDE DEF T
  <2> QED
    BY <2>1, <2>2
<1>2. PICK r \in T : \A y \in T : r <= y
  BY <1>1, Least, T \subseteq Nat
<1>3. PICK q \in Int : a = m * q + r
  BY <1>2
<1>4. r < m
  <2> SUFFICES ASSUME r >= m PROVE FALSE
    BY <1>2
  <2>1. r \in Nat /\ r - m \in Nat /\ a = m * (q + 1) + (r - m) /\ q + 1 \in Int
    BY <1>2, <1>3
  <2>2. r - m \in T
    BY <2>1
  <2> HIDE DEF T
  <2> QED
    BY <1>2, <2>1, <2>2
<1>5. r \in 0 .. m - 1
  BY <1>2, <1>4
<1>6. a % m = r
  BY <1>3, <1>5, Remainder
<1> QED
  BY <1>3, <1>5, <1>6, Zenon

\* The remainder of a sum.
LEMMA RemainderOfSum ==
  ASSUME NEW m \in Nat \ {0}, NEW a \in Int, NEW b \in Int
  PROVE  ((a % m) + b) % m = (a + b) % m
<1>1. PICK q \in Int, r \in 0 .. m - 1 : a = m * q + r /\ a % m = r
  BY Quotient
<1>2. PICK p \in Int, u \in 0 .. m - 1 : r + b = m * p + u /\ (r + b) % m = u
  <2>1. r + b \in Int
    OBVIOUS
  <2> QED
    BY <2>1, Quotient
<1>3. a + b = m * (p + q) + u /\ p + q \in Int
  <2>1. a + b = m * q + (m * p + u)
    BY <1>1, <1>2
  <2>2. m * q + (m * p + u) = m * (p + q) + u
    OBVIOUS
  <2> QED
    BY <2>1, <2>2
<1>4. (a + b) % m = u
  BY <1>3, Remainder
<1> QED
  BY <1>1, <1>2, <1>4
-----------------------------------------------------------------------------
(* The server. *)

Ids == Server!Ids

\* The states of a connection.
Connection ==
  [closed : BOOLEAN, session : BOOLEAN, playing : BOOLEAN, owns : BOOLEAN, idle : BOOLEAN,
   video : Server!Transports \cup {"none"}, audio : Server!Transports \cup {"none"}]

Typed ==
  /\ references \in Nat /\ users \in SUBSET Sinks
  /\ running \in BOOLEAN /\ listening \in BOOLEAN /\ timer \in BOOLEAN
  /\ nextId \in 1 .. MaxConnections + 1
  /\ connections \in SUBSET Ids /\ watched \in SUBSET Ids /\ posted \in Seq(Ids)
  /\ state \in [Ids -> Connection] /\ owner \in Ids \cup {0}

\* What is right of a connection in state k when own is the group's owner.
Proper(c, k, own) ==
  /\ (k.owns <=> own = c) /\ (k.owns <=> Server!HasMulticast(k))
  /\ k.playing \/ Server!HasTrack(k) => k.session

\* The server counts its users and is up for them.
Users ==
  /\ IsFiniteSet(users) /\ references = Cardinality(users)
  /\ running <=> users # {}
  /\ ~running => ~listening /\ ~timer /\ connections = {} /\ watched = {} /\ owner = 0

\* The open connections are watched, the closed ones posted, and only those.
Table ==
  /\ watched = {c \in connections : ~state[c].closed}
  /\ \A c \in connections : c < nextId /\ (state[c].closed => c \in Server!ToSet(posted))
  /\ \A c \in Server!ToSet(posted) : c < nextId /\ state[c].closed

\* Each connection is proper, a closed one owns nothing, and the owner is one of
\* them.
Group ==
  /\ owner # 0 => owner \in connections
  /\ \A c \in connections : Proper(c, state[c], owner) /\ (state[c].closed => ~state[c].owns)

ServerInv == Typed /\ Users /\ Table /\ Group

-----------------------------------------------------------------------------

\* What a queue of ids holds when one is appended or taken.
LEMMA Queue ==
  ASSUME NEW s \in Seq(Ids)
  PROVE  /\ Server!ToSet(<<>>) = {} /\ Server!ToSet(s) \subseteq Ids
         /\ \A c \in Ids : Append(s, c) \in Seq(Ids) /\ Server!ToSet(Append(s, c)) = Server!ToSet(s) \cup {c}
         /\ s # <<>> => /\ Tail(s) \in Seq(Ids) /\ Head(s) \in Server!ToSet(s)
                        /\ Server!ToSet(Tail(s)) \subseteq Server!ToSet(s)
                        /\ Server!ToSet(s) = Server!ToSet(Tail(s)) \cup {Head(s)}
<1> USE DEF Server!ToSet
<1>1. ASSUME NEW c \in Ids
      PROVE  Append(s, c) \in Seq(Ids) /\ Server!ToSet(Append(s, c)) = Server!ToSet(s) \cup {c}
  <2>1. /\ Append(s, c) \in Seq(Ids) /\ Len(Append(s, c)) = Len(s) + 1 /\ Len(s) \in Nat
        /\ DOMAIN s = 1 .. Len(s) /\ DOMAIN Append(s, c) = 1 .. Len(s) + 1
        /\ Append(s, c)[Len(s) + 1] = c
        /\ \A i \in 1 .. Len(s) : Append(s, c)[i] = s[i] /\ i \in 1 .. Len(s) + 1
    OBVIOUS
  <2>2. \A i \in 1 .. Len(s) + 1 : i \in 1 .. Len(s) \/ i = Len(s) + 1
    BY <2>1
  <2> QED
    BY <2>1, <2>2
<1>2. ASSUME s # <<>>
      PROVE  /\ Tail(s) \in Seq(Ids) /\ Head(s) \in Server!ToSet(s)
             /\ Server!ToSet(Tail(s)) \subseteq Server!ToSet(s)
             /\ Server!ToSet(s) = Server!ToSet(Tail(s)) \cup {Head(s)}
  <2>1. /\ Tail(s) \in Seq(Ids) /\ Len(s) \in Nat \ {0} /\ Len(Tail(s)) = Len(s) - 1
        /\ Head(s) = s[1] /\ 1 \in 1 .. Len(s)
        /\ DOMAIN s = 1 .. Len(s) /\ DOMAIN Tail(s) = 1 .. Len(s) - 1
        /\ \A i \in 1 .. Len(s) - 1 : Tail(s)[i] = s[i + 1] /\ i + 1 \in 1 .. Len(s)
    BY <1>2
  <2>2. \A i \in 1 .. Len(s) : i = 1 \/ (i - 1 \in 1 .. Len(s) - 1 /\ s[i] = Tail(s)[i - 1])
    BY <2>1
  <2>3. Head(s) \in Server!ToSet(s) /\ Server!ToSet(Tail(s)) \subseteq Server!ToSet(s)
    BY <2>1
  <2>4. Server!ToSet(s) \subseteq Server!ToSet(Tail(s)) \cup {Head(s)}
    <3> SUFFICES ASSUME NEW i \in 1 .. Len(s), s[i] # Head(s) PROVE s[i] \in Server!ToSet(Tail(s))
      BY <2>1
    <3> QED
      BY <2>1, <2>2
  <2> QED
    BY <2>1, <2>3, <2>4
<1>3. Server!ToSet(<<>>) = {} /\ Server!ToSet(s) \subseteq Ids
  <2>1. DOMAIN s = 1 .. Len(s) /\ \A i \in 1 .. Len(s) : s[i] \in Ids
    OBVIOUS
  <2> QED
    BY <2>1
<1> QED
  BY <1>1, <1>2, <1>3

\* The group passes at most from or to connection c.
Passes(c, own) == own = owner \/ (own \in {c, 0} /\ owner \in {c, 0})

\* A session that is reset has nothing left of it.
LEMMA ResetIs ==
  ASSUME NEW k \in Connection
  PROVE  LET k1 == Server!SessionReset(k) IN
         /\ k1 \in Connection /\ k1.closed = k.closed /\ ~k1.owns /\ ~k1.playing /\ ~k1.session
         /\ ~Server!HasTrack(k1) /\ ~Server!HasMulticast(k1)
  BY DEF Connection, Server!SessionReset, Server!HasTrack, Server!HasMulticast, Server!Tracks

\* A handler that leaves a proper connection keeps the invariant, however its
\* response and the watch of its socket end.
LEMMA FinishKeeps ==
  ASSUME ServerInv, NEW c \in Ids, NEW k \in Connection, NEW own \in Ids \cup {0},
         ~k.closed, Proper(c, k, own), Passes(c, own), running,
         UNCHANGED <<references, users, running, listening, timer>>,
         nextId' \in 1 .. MaxConnections + 1, nextId <= nextId', c < nextId',
         connections' = connections \cup {c},
         (c \in connections /\ ~state[c].closed) \/ c = nextId,
         Server!Finish(c, k, own) \/ Server!Drop(c, k, own)
  PROVE  ServerInv'
<1> USE ServerAssumption DEF Ids, Server!Ids
<1> DEFINE gone == [Server!SessionReset(k) EXCEPT !.closed = TRUE]
<1>1. c \notin Server!ToSet(posted) /\ Server!ToSet(posted) \subseteq Ids
  BY Queue DEF ServerInv, Table, Typed
<1>2. /\ gone \in Connection /\ gone.closed /\ ~gone.owns /\ ~gone.playing /\ ~gone.session
      /\ ~Server!HasTrack(gone) /\ ~Server!HasMulticast(gone)
  BY DEF Connection, Server!SessionReset, Server!HasTrack, Server!HasMulticast, Server!Tracks
<1>3. CASE /\ state' = [state EXCEPT ![c] = k] /\ owner' = own /\ watched' = watched \cup {c}
           /\ UNCHANGED posted
  <2>1. Typed'
    BY <1>3 DEF ServerInv, Typed
  <2>2. Users'
    BY <1>3 DEF ServerInv, Users
  <2>3. Table'
    BY <1>1, <1>3 DEF ServerInv, Table, Typed
  <2>4. Group'
    BY <1>3 DEF ServerInv, Group, Typed, Proper, Passes
  <2> QED
    BY <2>1, <2>2, <2>3, <2>4 DEF ServerInv
<1>4. CASE Server!Drop(c, k, own)
  <2>0. /\ state' = [state EXCEPT ![c] = gone] /\ watched' = watched \ {c}
        /\ posted' = Append(posted, c) /\ owner' = (IF own = c THEN 0 ELSE own)
    BY <1>4 DEF Server!Drop, Server!Released, Proper, Server!Nobody
  <2>q. posted' \in Seq(Ids) /\ Server!ToSet(posted') = Server!ToSet(posted) \cup {c}
    BY <2>0, Queue DEF ServerInv, Typed
  <2> HIDE DEF gone
  <2>1. Typed'
    BY <1>2, <2>0, <2>q DEF ServerInv, Typed
  <2>2. Users'
    BY <2>0 DEF ServerInv, Users
  <2>3. Table'
    BY <1>1, <1>2, <2>0, <2>q DEF ServerInv, Table, Typed
  <2>4. Group'
    BY <1>2, <2>0 DEF ServerInv, Group, Typed, Proper, Passes
  <2> QED
    BY <2>1, <2>2, <2>3, <2>4 DEF ServerInv
<1> QED
  BY <1>3, <1>4 DEF Server!Finish

\* What a handler may rely on.
LEMMA LiveIs ==
  ASSUME ServerInv, NEW c \in Ids, Server!Live(c)
  PROVE  /\ c \in connections /\ ~state[c].closed /\ running
         /\ state[c] \in Connection /\ Proper(c, state[c], owner)
         /\ nextId \in 1 .. MaxConnections + 1 /\ nextId <= nextId /\ c < nextId
         /\ connections = connections \cup {c} /\ owner \in Ids \cup {0}
  BY ServerAssumption DEF ServerInv, Server!Live, Users, Typed, Table, Group

\* A request that leaves a proper connection keeps the invariant.
LEMMA RequestKeeps ==
  ASSUME ServerInv, NEW c \in Ids, Server!Live(c), NEW k \in Connection, NEW own \in Ids \cup {0},
         ~k.closed, Proper(c, k, own), Passes(c, own), UNCHANGED Server!ReadyVars,
         Server!Finish(c, k, own) \/ Server!Drop(c, k, own)
  PROVE  ServerInv'
<1>1. UNCHANGED <<references, users, running, listening, timer, nextId, connections>>
  BY DEF Server!ReadyVars, Server!serverVars
<1> QED
  BY <1>1, LiveIs, FinishKeeps

\* The requests that set nothing up, and the ends of a connection.
LEMMA PlainRequests ==
  ASSUME ServerInv, NEW c \in Ids,
         \/ Server!Refuse(c) \/ Server!Touch(c) \/ Server!Play(c) \/ Server!Pause(c)
         \/ Server!Teardown(c) \/ Server!PeerGone(c) \/ Server!SendOverflows(c)
  PROVE  ServerInv'
<1> USE DEF Server!HasTrack, Server!HasMulticast, Server!Tracks
<1>1. Server!Live(c)
  BY DEF Server!Refuse, Server!Touch, Server!Play, Server!Pause, Server!Teardown, Server!PeerGone,
     Server!SendOverflows
<1>2. /\ state[c] \in Connection /\ ~state[c].closed /\ Proper(c, state[c], owner)
      /\ owner \in Ids \cup {0}
  BY <1>1, LiveIs
<1>3. CASE Server!Refuse(c) \/ Server!PeerGone(c) \/ Server!SendOverflows(c)
  BY <1>1, <1>2, <1>3, RequestKeeps DEF Server!Refuse, Server!PeerGone, Server!SendOverflows, Passes
<1>4. CASE Server!Touch(c)
  <2>1. Server!Active(c) \in Connection /\ ~Server!Active(c).closed /\ Proper(c, Server!Active(c), owner)
    BY <1>2 DEF Server!Active, Connection, Proper
  <2> QED
    BY <1>1, <1>2, <1>4, <2>1, RequestKeeps DEF Server!Touch, Passes
<1>5. CASE Server!Play(c)
  <2> DEFINE k == [Server!Active(c) EXCEPT !.playing = TRUE]
  <2>1. k \in Connection /\ ~k.closed /\ Proper(c, k, owner)
    BY <1>2, <1>5 DEF Server!Play, Server!Active, Connection, Proper
  <2> QED
    BY <1>1, <1>2, <1>5, <2>1, RequestKeeps DEF Server!Play, Passes
<1>6. CASE Server!Pause(c)
  <2> DEFINE k == [Server!Active(c) EXCEPT !.playing = FALSE]
  <2>1. k \in Connection /\ ~k.closed /\ Proper(c, k, owner)
    BY <1>2, <1>6 DEF Server!Pause, Server!Active, Connection, Proper
  <2> QED
    BY <1>1, <1>2, <1>6, <2>1, RequestKeeps DEF Server!Pause, Passes
<1>7. CASE Server!Teardown(c)
  <2> DEFINE k == Server!SessionReset(Server!Active(c))
             own == Server!Released(c, state[c], owner)
  <2>1. own = (IF owner = c THEN 0 ELSE owner) /\ own \in Ids \cup {0} /\ c # 0
    BY <1>2 DEF Server!Released, Server!Nobody, Proper, Ids, Server!Ids
  <2>2. k \in Connection /\ ~k.closed /\ ~k.owns /\ ~k.playing /\ k.video = "none" /\ k.audio = "none"
    BY <1>2 DEF Server!SessionReset, Server!Active, Connection
  <2>3. Proper(c, k, own) /\ Passes(c, own)
    BY <2>1, <2>2 DEF Proper, Passes
  <2> QED
    BY <1>1, <1>7, <2>1, <2>2, <2>3, RequestKeeps DEF Server!Teardown
<1> QED
  BY <1>3, <1>4, <1>5, <1>6, <1>7

\* A track of a connection that is replaced.
LEMMA TrackIs ==
  ASSUME NEW k \in Connection, NEW t \in Server!Tracks, NEW to \in Server!Transports \cup {"none"}
  PROVE  LET k1 == [k EXCEPT ![t] = to] IN
         /\ k1 \in Connection /\ k1[t] = to /\ \A u \in Server!Tracks \ {t} : k1[u] = k[u]
         /\ k1.session = k.session /\ k1.playing = k.playing /\ k1.owns = k.owns
         /\ k1.closed = k.closed /\ k1.idle = k.idle
<1>1. [k EXCEPT ![t] = to] \in Connection
  BY Zenon DEF Connection, Server!Tracks
<1>2. CASE t = "video"
  BY <1>2 DEF Connection, Server!Tracks
<1>3. CASE t = "audio"
  BY <1>3 DEF Connection, Server!Tracks
<1> QED
  BY <1>1, <1>2, <1>3 DEF Server!Tracks

\* A track that is set up, and nothing else of the connection.
LEMMA ConfiguredIs ==
  ASSUME NEW k \in Connection, NEW t \in Server!Tracks, NEW to \in Server!Transports \cup {"none"}
  PROVE  LET k1 == Server!Configured(k, t, to) IN
         /\ k1 \in Connection /\ k1.session /\ ~k1.playing /\ k1.owns = k.owns /\ k1.closed = k.closed
         /\ Server!HasMulticast(k1) <=>
              to = "multicast" \/ \E u \in Server!Tracks \ {t} : k[u] = "multicast"
<1> DEFINE w == [k EXCEPT ![t] = to]
           k1 == [w EXCEPT !.session = TRUE, !.playing = FALSE]
<1>1. Server!Configured(k, t, to) = k1
  BY DEF Server!Configured
<1>2. /\ w \in Connection /\ w[t] = to /\ \A u \in Server!Tracks \ {t} : w[u] = k[u]
      /\ w.owns = k.owns /\ w.closed = k.closed
  BY TrackIs
<1> HIDE DEF w
<1>3. /\ k1 \in Connection /\ k1.session /\ ~k1.playing /\ k1.owns = w.owns /\ k1.closed = w.closed
      /\ \A u \in Server!Tracks : k1[u] = w[u]
  BY <1>2 DEF Connection, Server!Tracks
<1> HIDE DEF k1
<1> QED
  BY <1>1, <1>2, <1>3 DEF Server!HasMulticast

\* A track that is to be set up is reset before; with the last multicast track
\* goes the group.
LEMMA ReplacedIs ==
  ASSUME NEW c \in Ids, NEW t \in Server!Tracks, state[c] \in Connection, ~state[c].closed,
         owner \in Ids \cup {0}, Proper(c, state[c], owner)
  PROVE  LET r == Server!Replaced(c, t) IN
         /\ r[1] \in Connection /\ ~r[1].closed /\ r[2] \in Ids \cup {0}
         /\ Proper(c, r[1], r[2]) /\ Passes(c, r[2]) /\ r[1][t] = "none"
<1> DEFINE k == Server!Active(c)
           w == [k EXCEPT ![t] = "none"]
           v == [w EXCEPT !.owns = FALSE]
<1>1. /\ k \in Connection /\ ~k.closed /\ k.owns = state[c].owns /\ k.session = state[c].session
      /\ k.playing = state[c].playing /\ \A u \in Server!Tracks : k[u] = state[c][u]
  BY DEF Server!Active, Connection, Server!Tracks
<1>2. Server!Replaced(c, t) =
        IF state[c][t] = "multicast" /\ ~Server!HasMulticast(w) /\ w.owns
        THEN <<v, Server!Released(c, w, owner)>> ELSE <<w, owner>>
  BY DEF Server!Replaced
<1> HIDE DEF k
<1>3. /\ w \in Connection /\ w[t] = "none" /\ \A u \in Server!Tracks \ {t} : w[u] = k[u]
      /\ w.session = k.session /\ w.playing = k.playing /\ w.owns = k.owns /\ w.closed = k.closed
  BY <1>1, TrackIs
<1> HIDE DEF w
<1>4. /\ ~w.closed /\ (w.owns <=> owner = c) /\ (w.playing \/ Server!HasTrack(w) => w.session)
      /\ (w.owns <=> Server!HasMulticast(w) \/ state[c][t] = "multicast")
  BY <1>1, <1>3 DEF Proper, Server!HasTrack, Server!HasMulticast
<1>5. /\ v \in Connection /\ ~v.closed /\ ~v.owns /\ v.playing = w.playing /\ v.session = w.session
      /\ \A u \in Server!Tracks : v[u] = w[u]
  BY <1>3, <1>4 DEF Connection, Server!Tracks
<1> HIDE DEF v
<1>6. CASE state[c][t] = "multicast" /\ ~Server!HasMulticast(w) /\ w.owns
  <2>1. Server!Released(c, w, owner) = 0 /\ c # 0
    BY <1>4, <1>6, ServerAssumption DEF Server!Released, Server!Nobody, Ids, Server!Ids
  <2>2. Proper(c, v, 0) /\ Passes(c, 0)
    BY <1>4, <1>5, <1>6, <2>1 DEF Proper, Passes, Server!HasTrack, Server!HasMulticast
  <2> QED
    BY <1>2, <1>3, <1>5, <1>6, <2>1, <2>2
<1>7. CASE ~(state[c][t] = "multicast" /\ ~Server!HasMulticast(w) /\ w.owns)
  <2>1. Proper(c, w, owner) /\ Passes(c, owner)
    BY <1>4, <1>7 DEF Proper, Passes
  <2> QED
    BY <1>2, <1>3, <1>4, <1>7, <2>1
<1> QED
  BY <1>6, <1>7

\* Setting up a track, whatever comes of it.
LEMMA SetupKeeps ==
  ASSUME ServerInv, NEW c \in Ids, NEW t \in Server!Tracks, NEW transport_ \in Server!Transports,
         Server!Setup(c, t, transport_)
  PROVE  ServerInv'
<1> DEFINE k == Server!Replaced(c, t)[1]  own == Server!Replaced(c, t)[2]
<1>1. Server!Live(c) /\ UNCHANGED Server!ReadyVars
  BY DEF Server!Setup
<1>2. /\ state[c] \in Connection /\ ~state[c].closed /\ Proper(c, state[c], owner)
      /\ owner \in Ids \cup {0} /\ c # 0
  BY <1>1, LiveIs DEF Ids, Server!Ids
<1>3. /\ k \in Connection /\ ~k.closed /\ own \in Ids \cup {0}
      /\ Proper(c, k, own) /\ Passes(c, own) /\ k[t] = "none"
  BY <1>2, ReplacedIs
<1>4. \E o \in Server!UnicastOutcomes(t, k, own) \cup Server!MulticastOutcomes(c, t, k, own) :
        Server!Finish(c, o[1], o[2])
  BY DEF Server!Setup, Server!Transports
<1> HIDE DEF k, own
<1>5. ASSUME NEW to \in {"none", "unicast"}
      PROVE  LET k1 == Server!Configured(k, t, to) IN
             k1 \in Connection /\ ~k1.closed /\ Proper(c, k1, own)
  <2> DEFINE k1 == Server!Configured(k, t, to)
  <2>1. Server!HasMulticast(k) <=> \E u \in Server!Tracks \ {t} : k[u] = "multicast"
    BY <1>3 DEF Server!HasMulticast
  <2>a. to \in Server!Transports \cup {"none"} /\ to # "multicast"
    <3>1. CASE to = "none"
      BY <3>1
    <3>2. CASE to = "unicast"
      BY <3>2 DEF Server!Transports
    <3> QED
      BY <3>1, <3>2
  <2>b. LET k2 == Server!Configured(k, t, to) IN
        /\ k2 \in Connection /\ k2.session /\ ~k2.playing /\ k2.owns = k.owns /\ k2.closed = k.closed
        /\ Server!HasMulticast(k2) <=>
             to = "multicast" \/ \E u \in Server!Tracks \ {t} : k[u] = "multicast"
    BY <1>3, <2>a, ConfiguredIs, Zenon
  <2>2. /\ k1 \in Connection /\ k1.session /\ k1.owns = k.owns /\ ~k1.closed
        /\ Server!HasMulticast(k1) <=> Server!HasMulticast(k)
    BY <1>3, <2>a, <2>1, <2>b
  <2> HIDE DEF k1
  <2>3. Proper(c, k1, own)
    BY <1>3, <2>2 DEF Proper
  <2> QED
    BY <2>2, <2>3 DEF k1
<1>6. ASSUME own \in {0, c}
      PROVE  LET k1 == [k EXCEPT !.owns = TRUE]
                 k2 == Server!Configured(k1, t, "multicast") IN
             /\ k1 \in Connection /\ ~k1.closed /\ k1.owns
             /\ Server!HasMulticast(k1) <=> Server!HasMulticast(k)
             /\ k1.playing \/ Server!HasTrack(k1) => k1.session
             /\ k2 \in Connection /\ ~k2.closed /\ Proper(c, k2, c)
  <2> DEFINE k1 == [k EXCEPT !.owns = TRUE]
             k2 == Server!Configured(k1, t, "multicast")
  <2>1. /\ k1 \in Connection /\ ~k1.closed /\ k1.owns
        /\ Server!HasMulticast(k1) <=> Server!HasMulticast(k)
        /\ k1.playing \/ Server!HasTrack(k1) => k1.session
    BY <1>3 DEF Connection, Server!HasMulticast, Server!HasTrack, Server!Tracks, Proper
  <2> HIDE DEF k1
  <2>2. k2 \in Connection /\ ~k2.closed /\ k2.owns /\ k2.session /\ Server!HasMulticast(k2)
    BY <2>1, ConfiguredIs DEF Server!Transports
  <2> HIDE DEF k2
  <2>3. Proper(c, k2, c)
    BY <2>2 DEF Proper
  <2> QED
    BY <2>1, <2>2, <2>3 DEF k1, k2
<1>7. ASSUME own \in {0, c}, ~Server!HasMulticast(k)
      PROVE  LET k1 == [k EXCEPT !.owns = FALSE] IN
             k1 \in Connection /\ ~k1.closed /\ Proper(c, k1, 0)
  BY <1>2, <1>3, <1>7 DEF Connection, Server!HasMulticast, Server!HasTrack, Server!Tracks, Proper
<1>8. ASSUME NEW k1 \in Connection, NEW own1 \in Ids \cup {0}, ~k1.closed, Proper(c, k1, own1),
             Passes(c, own1), Server!Finish(c, k1, own1)
      PROVE  ServerInv'
  BY <1>1, <1>8, RequestKeeps
<1>9. CASE Server!Finish(c, k, own)
  BY <1>3, <1>8, <1>9
<1>10. CASE \E to \in {"none", "unicast"} : Server!Finish(c, Server!Configured(k, t, to), own)
  BY <1>3, <1>5, <1>8, <1>10
<1>11. CASE /\ own \in {0, c}
            /\ Server!Finish(c, Server!Configured([k EXCEPT !.owns = TRUE], t, "multicast"), c)
  <2>1. Passes(c, c)
    BY <1>3, <1>11 DEF Passes
  <2> QED
    BY <1>6, <1>8, <1>11, <2>1
<1>12. CASE /\ own \in {0, c} /\ Server!HasMulticast([k EXCEPT !.owns = TRUE])
            /\ Server!Finish(c, [k EXCEPT !.owns = TRUE], c)
  <2> DEFINE k1 == [k EXCEPT !.owns = TRUE]
  <2>1. Passes(c, c) /\ Proper(c, k1, c) /\ k1 \in Connection /\ ~k1.closed
    BY <1>3, <1>6, <1>12 DEF Passes, Proper
  <2> HIDE DEF k1
  <2> QED
    BY <1>8, <1>12, <2>1 DEF k1
<1>13. CASE /\ own \in {0, c} /\ ~Server!HasMulticast([k EXCEPT !.owns = TRUE])
            /\ Server!Finish(c, [k EXCEPT !.owns = FALSE], 0)
  <2>1. Passes(c, 0)
    BY <1>3, <1>13 DEF Passes
  <2> QED
    BY <1>6, <1>7, <1>8, <1>13, <2>1
<1>14. ASSUME NEW o \in Server!UnicastOutcomes(t, k, own), Server!Finish(c, o[1], o[2])
       PROVE  ServerInv'
  <2>1. \/ Server!Finish(c, k, own) \/ Server!Finish(c, Server!Configured(k, t, "none"), own)
        \/ Server!Finish(c, Server!Configured(k, t, "unicast"), own)
    BY <1>14 DEF Server!UnicastOutcomes
  <2> QED
    BY <1>9, <1>10, <2>1
<1>15. ASSUME NEW o \in Server!MulticastOutcomes(c, t, k, own), Server!Finish(c, o[1], o[2])
       PROVE  ServerInv'
  <2> DEFINE k1 == [k EXCEPT !.owns = TRUE]
             k2 == [k EXCEPT !.owns = FALSE]
  <2>1. \/ o = <<k, own>>
        \/ /\ own \in {0, c}
           /\ \/ Server!HasMulticast(k1) /\ o = <<k1, c>>
              \/ ~Server!HasMulticast(k1) /\ o = <<k2, 0>>
              \/ o = <<Server!Configured(k1, t, "multicast"), c>>
    BY DEF Server!MulticastOutcomes, Server!Nobody
  <2> HIDE DEF k1, k2
  <2>2. \/ Server!Finish(c, k, own)
        \/ /\ own \in {0, c}
           /\ \/ Server!HasMulticast(k1) /\ Server!Finish(c, k1, c)
              \/ ~Server!HasMulticast(k1) /\ Server!Finish(c, k2, 0)
              \/ Server!Finish(c, Server!Configured(k1, t, "multicast"), c)
    BY <1>15, <2>1
  <2> QED
    BY <1>9, <1>11, <1>12, <1>13, <2>2 DEF k1, k2
<1> QED
  BY <1>4, <1>14, <1>15

\* The timers, the tasks and the acceptor.
LEMMA TimerKeeps ==
  ASSUME ServerInv, (\E c \in Ids : Server!TimePasses(c)) \/ Server!Maintain \/ Server!AcceptFails
  PROVE  ServerInv'
<1>1. CASE \E c \in Ids : Server!TimePasses(c)
  <2> PICK c \in Ids : Server!TimePasses(c)
    BY <1>1
  <2> DEFINE k == [state[c] EXCEPT !.idle = TRUE]
  <2>1. /\ state' = [state EXCEPT ![c] = k] /\ c \in connections /\ state[c] \in Connection
        /\ UNCHANGED <<references, users, running, listening, timer, nextId, connections, watched, posted, owner>>
    BY DEF Server!TimePasses, Server!Live, Server!serverVars, Server!tableVars, ServerInv, Typed
  <2>2. /\ k \in Connection /\ k.closed = state[c].closed /\ k.owns = state[c].owns
        /\ k.playing = state[c].playing /\ k.session = state[c].session
        /\ Server!HasTrack(k) = Server!HasTrack(state[c])
        /\ Server!HasMulticast(k) = Server!HasMulticast(state[c])
    BY <2>1 DEF Connection, Server!HasTrack, Server!HasMulticast, Server!Tracks
  <2> HIDE DEF k
  <2>3. Typed' /\ Users'
    BY <2>1, <2>2 DEF ServerInv, Typed, Users
  <2>4. Table'
    BY <2>1, <2>2 DEF ServerInv, Typed, Table
  <2>5. Group'
    BY <2>1, <2>2 DEF ServerInv, Typed, Group, Proper
  <2> QED
    BY <2>3, <2>4, <2>5 DEF ServerInv
<1>2. CASE Server!Maintain
  <2> DEFINE k(c) == Server!SessionReset(state[c])
  <2>1. /\ state' = [c \in Ids |-> IF Server!Expired(c) THEN k(c) ELSE state[c]]
        /\ owner' = (IF owner \in Ids /\ Server!Expired(owner)
                     THEN Server!Released(owner, state[owner], owner) ELSE owner)
        /\ UNCHANGED <<references, users, running, listening, timer, nextId, connections, watched, posted>>
    BY <1>2 DEF Server!Maintain, Server!serverVars, Server!tableVars, Ids
  <2>2. ASSUME NEW c \in Ids
        PROVE  /\ k(c) \in Connection /\ k(c).closed = state[c].closed /\ ~k(c).owns
               /\ ~k(c).playing /\ ~Server!HasTrack(k(c)) /\ ~Server!HasMulticast(k(c))
    <3>1. state[c] \in Connection
      BY DEF ServerInv, Typed
    <3> QED
      BY <3>1, ResetIs
  <2> HIDE DEF k
  <2>3. owner' = IF owner \in Ids /\ Server!Expired(owner) THEN 0 ELSE owner
    BY <2>1 DEF ServerInv, Group, Proper, Server!Released, Server!Nobody, Server!Expired
  <2>4. Typed' /\ Users'
    BY <2>1, <2>2, <2>3 DEF ServerInv, Typed, Users
  <2>5. Table'
    <3>1. \A c \in Ids : state'[c].closed = state[c].closed
      BY <2>1, <2>2
    <3> QED
      BY <2>1, <3>1, Queue DEF ServerInv, Typed, Table
  <2>6. Group'
    <3>1. owner' # 0 => owner' \in connections'
      BY <2>1, <2>3 DEF ServerInv, Group
    <3>2. ASSUME NEW c \in connections
          PROVE  Proper(c, state'[c], owner') /\ (state'[c].closed => ~state'[c].owns)
      <4>1. c \in Ids /\ c # 0 /\ Proper(c, state[c], owner) /\ (state[c].closed => ~state[c].owns)
        BY ServerAssumption DEF ServerInv, Typed, Group, Ids, Server!Ids
      <4>2. CASE Server!Expired(c)
        <5>1. state'[c] = k(c) /\ owner' # c
          BY <2>1, <2>3, <4>1, <4>2
        <5> QED
          BY <2>2, <4>1, <5>1 DEF Proper
      <4>3. CASE ~Server!Expired(c)
        <5>1. state'[c] = state[c] /\ (owner' = c <=> owner = c)
          BY <2>1, <2>3, <4>1, <4>3
        <5> QED
          BY <4>1, <5>1 DEF Proper
      <4> QED
        BY <4>2, <4>3
    <3> QED
      BY <2>1, <3>1, <3>2 DEF Group
  <2> QED
    BY <2>4, <2>5, <2>6 DEF ServerInv
<1>3. CASE Server!AcceptFails
  BY <1>3 DEF Server!AcceptFails, Server!tableVars, ServerInv, Typed, Users, Table, Group
<1> QED
  BY <1>1, <1>2, <1>3

\* The posted task erases its connection.
LEMMA EraseKeeps ==
  ASSUME ServerInv, Server!Erase
  PROVE  ServerInv'
<1> DEFINE c == Head(posted)
<1>1. /\ posted # <<>> /\ posted' = Tail(posted) /\ connections' = connections \ {c}
      /\ UNCHANGED <<references, users, running, listening, timer, nextId, state, watched, owner>>
  BY DEF Server!Erase, Server!serverVars
<1>2. /\ posted' \in Seq(Ids) /\ c \in Server!ToSet(posted) /\ Server!ToSet(posted) \subseteq Ids
      /\ Server!ToSet(posted) = Server!ToSet(posted') \cup {c}
  BY <1>1, Queue DEF ServerInv, Typed
<1> HIDE DEF c
<1>3. c \in Ids /\ state[c].closed
  BY <1>2 DEF ServerInv, Table
<1>4. Typed' /\ Users'
  BY <1>1, <1>2 DEF ServerInv, Typed, Users
<1>5. Table'
  BY <1>1, <1>2, <1>3 DEF ServerInv, Typed, Table
<1>6. Group'
  <2>1. c \in connections => owner # c
    BY <1>3 DEF ServerInv, Group, Proper
  <2> QED
    BY <1>1, <2>1 DEF ServerInv, Group
<1> QED
  BY <1>4, <1>5, <1>6 DEF ServerInv

\* A new connection.
LEMMA AcceptKeeps ==
  ASSUME ServerInv, Server!Accept
  PROVE  ServerInv'
<1> DEFINE c == nextId
<1>1. /\ running /\ c \in Ids /\ nextId' = c + 1 /\ connections' = connections \cup {c}
      /\ Server!Finish(c, Server!Fresh, owner)
      /\ UNCHANGED <<references, users, running, listening, timer>>
  BY ServerAssumption DEF Server!Accept, Server!serverVars, ServerInv, Typed, Ids, Server!Ids
<1>2. /\ Server!Fresh \in Connection /\ ~Server!Fresh.closed /\ ~Server!Fresh.owns
      /\ ~Server!Fresh.playing /\ ~Server!HasTrack(Server!Fresh) /\ ~Server!HasMulticast(Server!Fresh)
  BY DEF Connection, Server!Fresh, Server!HasTrack, Server!HasMulticast, Server!Tracks
<1>3. /\ owner \in Ids \cup {0} /\ owner # c /\ Proper(c, Server!Fresh, owner) /\ Passes(c, owner)
      /\ nextId' \in 1 .. MaxConnections + 1 /\ nextId <= nextId' /\ c < nextId'
  BY <1>1, <1>2, ServerAssumption
     DEF ServerInv, Typed, Table, Group, Proper, Passes, Ids, Server!Ids
<1> QED
  BY <1>1, <1>2, <1>3, FinishKeeps

\* The application starts and stops the server for a sink.
LEMMA StartKeeps ==
  ASSUME ServerInv, NEW s \in Sinks, Server!StartSink(s)
  PROVE  ServerInv'
<1>1. UNCHANGED <<nextId, connections, watched, posted, state, owner>> /\ s \notin users
  BY DEF Server!StartSink, Server!tableVars
<1>2. CASE UNCHANGED <<references, users, running, listening, timer>>
  BY <1>1, <1>2 DEF ServerInv, Typed, Users, Table, Group
<1>3. CASE references' = references + 1 /\ users' = users \cup {s} /\ running'
           /\ running' \in BOOLEAN /\ listening' \in BOOLEAN /\ timer' \in BOOLEAN
  <2>1. IsFiniteSet(users') /\ Cardinality(users') = references + 1
    BY <1>1, <1>3, FS_AddElement DEF ServerInv, Users
  <2>2. Typed' /\ Table' /\ Group'
    BY <1>1, <1>3 DEF ServerInv, Typed, Table, Group
  <2>3. Users'
    BY <1>1, <1>3, <2>1 DEF ServerInv, Users
  <2> QED
    BY <2>2, <2>3 DEF ServerInv
<1>4. references # 0 => running
  BY FS_EmptySet DEF ServerInv, Users
<1>5. CASE references # 0 /\ references' = references + 1 /\ users' = users \cup {s} /\ UNCHANGED <<running, listening, timer>>
  BY <1>3, <1>4, <1>5 DEF ServerInv, Typed
<1>6. CASE references = 0 /\ references' = 1 /\ users' = users \cup {s} /\ running' = TRUE /\ listening' = TRUE /\ timer' = TRUE
  BY <1>3, <1>6
<1> QED
  BY <1>2, <1>5, <1>6 DEF Server!StartSink

\* The server stops for a sink.
LEMMA StopKeeps ==
  ASSUME ServerInv, NEW s \in Sinks, Server!StopSink(s)
  PROVE  ServerInv'
<1>1. /\ s \in users /\ references' = references - 1 /\ users' = users \ {s}
      /\ UNCHANGED <<nextId, posted>>
  BY DEF Server!StopSink
<1>2. IsFiniteSet(users') /\ Cardinality(users') = references - 1 /\ references - 1 \in Nat
  <2>1. IsFiniteSet(users) /\ references = Cardinality(users)
    BY DEF ServerInv, Users
  <2>2. IsFiniteSet(users \ {s}) /\ Cardinality(users \ {s}) = references - 1
    BY <1>1, <2>1, FS_RemoveElement
  <2>3. Cardinality(users \ {s}) \in Nat
    BY <2>2, FS_CardinalityType
  <2> QED
    BY <1>1, <2>2, <2>3
<1>3. users' = {} <=> references = 1
  BY <1>2, FS_EmptySet DEF ServerInv, Typed
<1>4. CASE references = 1
  <2> DEFINE k(c) == [Server!SessionReset(state[c]) EXCEPT !.closed = TRUE]
  <2>1. /\ ~running' /\ ~listening' /\ ~timer' /\ connections' = {} /\ owner' = 0
        /\ running' \in BOOLEAN /\ listening' \in BOOLEAN /\ timer' \in BOOLEAN
        /\ watched' = watched \ connections
        /\ state' = [c \in Ids |-> IF c \in connections THEN k(c) ELSE state[c]]
    BY <1>4 DEF Server!StopSink, Server!Nobody, Ids
  <2>2. ASSUME NEW c \in Ids PROVE k(c) \in Connection /\ k(c).closed
    <3> DEFINE w == Server!SessionReset(state[c])
    <3>1. state[c] \in Connection
      BY DEF ServerInv, Typed
    <3>2. w \in Connection
      BY <3>1, ResetIs
    <3> HIDE DEF w
    <3>3. [w EXCEPT !.closed = TRUE] \in Connection /\ [w EXCEPT !.closed = TRUE].closed
      BY <3>2 DEF Connection
    <3> QED
      BY <3>3 DEF w
  <2> HIDE DEF k
  <2>3. watched' = {}
    BY <2>1 DEF ServerInv, Table
  <2>4. Typed'
    BY <1>1, <1>2, <2>1, <2>2 DEF ServerInv, Typed
  <2>5. Users'
    BY <1>1, <1>2, <1>3, <1>4, <2>1, <2>3 DEF Users
  <2>6. Table'
    BY <1>1, <2>1, <2>2, <2>3, Queue DEF ServerInv, Typed, Table
  <2>7. Group'
    BY <2>1 DEF Group
  <2> QED
    BY <2>4, <2>5, <2>6, <2>7 DEF ServerInv
<1>5. CASE references # 1
  <2>1. UNCHANGED <<running, listening, timer, state, connections, watched, owner>>
    BY <1>5 DEF Server!StopSink
  <2>2. Typed' /\ Table' /\ Group'
    BY <1>1, <1>2, <2>1 DEF ServerInv, Typed, Table, Group
  <2>3. Users'
    BY <1>1, <1>2, <1>3, <1>5, <2>1 DEF ServerInv, Users
  <2> QED
    BY <2>2, <2>3 DEF ServerInv
<1> QED
  BY <1>4, <1>5

\* At first nobody uses the server.
LEMMA ServerInit == Server!Init => ServerInv
<1> SUFFICES ASSUME Server!Init PROVE ServerInv
  OBVIOUS
<1>1. Server!Fresh \in Connection
  BY DEF Connection, Server!Fresh
<1>2. Typed /\ Group
  <2>1. 1 \in 1 .. MaxConnections + 1 /\ <<>> \in Seq(Ids) /\ 0 \in Nat
    BY ServerAssumption
  <2> QED
    BY <1>1, <2>1 DEF Server!Init, Server!Nobody, Typed, Group, Ids
<1>3. Users
  BY FS_EmptySet DEF Server!Init, Server!Nobody, Users
<1>4. Table
  BY DEF Server!Init, Table, Server!ToSet
<1> QED
  BY <1>2, <1>3, <1>4 DEF ServerInv

\* Every step of the server keeps its invariant.
LEMMA ServerNext == ServerInv /\ [Server!Next]_serverVars => ServerInv'
<1> SUFFICES ASSUME ServerInv, [Server!Next]_serverVars PROVE ServerInv'
  OBVIOUS
<1>1. CASE UNCHANGED serverVars
  BY <1>1 DEF serverVars, ServerInv, Typed, Users, Table, Group
<1>2. CASE Server!Next
  <2>1. ASSUME NEW c \in Ids, Server!Request(c) \/ Server!PeerGone(c) \/ Server!SendOverflows(c)
        PROVE  ServerInv'
    BY <2>1, PlainRequests, SetupKeeps DEF Server!Request
  <2>2. ASSUME NEW s \in Sinks, Server!StartSink(s) \/ Server!StopSink(s) PROVE ServerInv'
    BY <2>2, StartKeeps, StopKeeps
  <2> QED
    BY <1>2, <2>1, <2>2, TimerKeeps, EraseKeeps, AcceptKeeps DEF Server!Next, Ids
<1> QED
  BY <1>1, <1>2

\* What the invariant says of the server.
LEMMA ServerSays ==
  ASSUME ServerInv
  PROVE  /\ Server!TypeOK
         /\ Server!OnePublisher /\ Server!NoDanglingCallback /\ Server!ClosedAreErased
         /\ Server!RunsForItsUsers /\ Server!PlaysInSession
<1>1. references \in 0 .. Server!Cardinality(Sinks)
  <2>1. Cardinality(users) <= Cardinality(Sinks) /\ Cardinality(Sinks) \in Nat
    BY ServerAssumption, FS_Subset, FS_CardinalityType DEF ServerInv, Typed
  <2>2. Server!Cardinality(Sinks) = Cardinality(Sinks)
    BY DEF Server!Cardinality, Server!IsFiniteSet, Cardinality, IsFiniteSet
  <2> QED
    BY <2>1, <2>2 DEF ServerInv, Typed, Users
<1>2. Server!TypeOK
  BY <1>1 DEF ServerInv, Typed, Server!TypeOK, Server!Nobody, Ids, Connection
<1>3. Server!OnePublisher
  BY DEF ServerInv, Group, Proper, Server!OnePublisher, Server!Nobody
<1>4. Server!NoDanglingCallback /\ Server!ClosedAreErased
  BY DEF ServerInv, Table, Server!NoDanglingCallback, Server!ClosedAreErased
<1>5. Server!RunsForItsUsers
  BY DEF ServerInv, Users, Server!RunsForItsUsers, Server!Nobody
<1>6. Server!PlaysInSession
  BY DEF ServerInv, Group, Proper, Server!PlaysInSession
<1> QED
  BY <1>2, <1>3, <1>4, <1>5, <1>6

\* Whatever clients ask and however the handlers end, the sessions agree with the
\* table of connections, the group with its owner, the server with its users.
THEOREM SessionsAlwaysAgree == Spec => []SessionsAgree
<1>1. Init => ServerInv
  BY ServerInit DEF Init
<1>2. ServerInv /\ [Next]_vars => ServerInv'
  <2> SUFFICES ASSUME ServerInv, [Next]_vars PROVE ServerInv'
    OBVIOUS
  <2>1. [Server!Next]_serverVars
    BY DEF Next, vars
  <2> QED
    BY <2>1, ServerNext
<1>3. ServerInv => SessionsAgree
  BY ServerSays DEF SessionsAgree
<1> QED
  BY <1>1, <1>2, <1>3, PTL DEF Spec

-----------------------------------------------------------------------------
(* The stream of a connection. *)

\* The halves of messages, and what is or was the number of a track.
Halves == {"video", "audio", "reply", "report"} \X Nat \X {1, 2}
Last == Nat \cup {-1}

\* p1 is p and message m; p1 is p without its first message.
Longer(p, p1, a, b) ==
  /\ Len(p1) = Len(p) + 2 /\ \A i \in 1 .. Len(p) : p1[i] = p[i]
  /\ p1[Len(p) + 1] = <<a, b, 1>> /\ p1[Len(p) + 2] = <<a, b, 2>>
Shorter(p, p1) ==
  Len(p) = Len(p1) + 2 /\ \A i \in 1 .. Len(p1) : p1[i] = p[i + 2]

\* Whole messages stay whole when one comes behind them, and when the first goes.
LEMMA WholeLonger ==
  ASSUME NEW p \in Seq(Halves), NEW p1 \in Seq(Halves), NEW a, NEW b, Longer(p, p1, a, b),
         Stream!Whole(p)
  PROVE  Stream!Whole(p1)
<1>1. Len(p) \in Nat /\ Len(p1) = Len(p) + 2 /\ Len(p) % 2 = 0
  BY DEF Longer, Stream!Whole
<1>2. ASSUME NEW i \in 1 .. Len(p1)
      PROVE  IF i % 2 = 1 THEN p1[i][3] = 1 ELSE p1[i] = <<p1[i - 1][1], p1[i - 1][2], 2>>
  <2>1. CASE i \in 1 .. Len(p)
    <3>1. p1[i] = p[i] /\ (i % 2 # 1 => i - 1 \in 1 .. Len(p))
      BY <2>1 DEF Longer
    <3>2. i % 2 # 1 => p1[i - 1] = p[i - 1]
      BY <3>1 DEF Longer
    <3> QED
      BY <2>1, <3>1, <3>2 DEF Stream!Whole
  <2>2. CASE i = Len(p) + 1
    <3>1. i % 2 = 1
      BY <1>1, <2>2
    <3>2. p1[i] = <<a, b, 1>>
      BY <2>2 DEF Longer
    <3> QED
      BY <3>1, <3>2
  <2>3. CASE i = Len(p) + 2
    BY <1>1, <2>3 DEF Longer
  <2> QED
    BY <1>1, <2>1, <2>2, <2>3
<1> QED
  BY <1>1, <1>2 DEF Stream!Whole

\* Whole messages stay whole when the first of them goes.
LEMMA WholeShorter ==
  ASSUME NEW p \in Seq(Halves), NEW p1 \in Seq(Halves), Shorter(p, p1), Stream!Whole(p)
  PROVE  Stream!Whole(p1)
<1>1. Len(p) = Len(p1) + 2 /\ Len(p1) \in Nat /\ Len(p1) % 2 = 0
  BY DEF Shorter, Stream!Whole
<1>2. ASSUME NEW i \in 1 .. Len(p1)
      PROVE  IF i % 2 = 1 THEN p1[i][3] = 1 ELSE p1[i] = <<p1[i - 1][1], p1[i - 1][2], 2>>
  <2>1. p1[i] = p[i + 2] /\ i + 2 \in 1 .. Len(p) /\ (i + 2) % 2 = i % 2
    BY <1>1 DEF Shorter
  <2>2. CASE i % 2 = 1
    BY <2>1, <2>2 DEF Stream!Whole
  <2>3. CASE i % 2 # 1
    <3>1. i - 1 \in 1 .. Len(p1) /\ p1[i - 1] = p[i + 1]
      BY <1>1, <2>3 DEF Shorter
    <3>2. p[i + 2] = <<p[i + 2 - 1][1], p[i + 2 - 1][2], 2>>
      BY <2>1, <2>3 DEF Stream!Whole
    <3> QED
      BY <2>1, <2>3, <3>1, <3>2
  <2> QED
    BY <2>2, <2>3
<1> QED
  BY <1>1, <1>2 DEF Stream!Whole

\* A chain of numbers goes on when the next number comes behind it.
LEMMA ChainLonger ==
  ASSUME NEW p \in Seq(Halves), NEW p1 \in Seq(Halves), NEW a, NEW b, Longer(p, p1, a, b),
         NEW t, NEW s \in Last, NEW q \in Nat, Stream!Chained(p, t, s, q)
  PROVE  /\ a # t => Stream!Chained(p1, t, s, q)
         /\ a = t /\ b = q => Stream!Chained(p1, t, s, (q + 1) % SeqModulus)
<1> DEFINE L == Len(p)  M == Stream!Marks(p, t, s)  M1 == Stream!Marks(p1, t, s)
<1>1. L \in Nat /\ Len(p1) = L + 2 /\ \A i \in 1 .. L : p1[i] = p[i]
  BY DEF Longer
<1>2. M = {i \in 1 .. L : p[i][1] = t /\ p[i][3] = 2} \cup {L + 1} \cup (IF s = -1 THEN {} ELSE {0})
  BY DEF Stream!Marks, Stream!Never
<1>3. M1 = {i \in 1 .. L + 2 : p1[i][1] = t /\ p1[i][3] = 2} \cup {L + 3} \cup (IF s = -1 THEN {} ELSE {0})
  BY <1>1 DEF Stream!Marks, Stream!Never
<1>4. ~(p1[L + 1][3] = 2) /\ p1[L + 2][3] = 2 /\ p1[L + 2][1] = a /\ p1[L + 2][2] = b
  BY DEF Longer
<1>5. /\ M \subseteq 0 .. L + 1 /\ M1 \subseteq 0 .. L + 3 /\ L + 1 \in M /\ L + 3 \in M1
      /\ \A i \in 0 .. L : i \in M1 <=> i \in M
      /\ L + 1 \notin M1 /\ (L + 2 \in M1 <=> a = t)
  <2>1. \A i \in 1 .. L : i \in M1 <=> i \in M
    BY <1>1, <1>2, <1>3
  <2>2. 0 \in M <=> 0 \in M1
    BY <1>1, <1>2, <1>3
  <2> QED
    BY <1>1, <1>2, <1>3, <1>4, <2>1, <2>2
<1> HIDE DEF M, M1
<1>6. ASSUME NEW i \in M, NEW j \in M, i < j, \A k \in M : k <= i \/ j <= k
      PROVE  Stream!Number(p, j, s, q) = (Stream!Number(p, i, s, q) + 1) % SeqModulus
  BY <1>6 DEF Stream!Chained, M
<1>7. ASSUME NEW i \in M1, NEW j \in M1, i < j, j <= L, \A k \in M1 : k <= i \/ j <= k, NEW n
      PROVE  Stream!Number(p1, j, s, n) = (Stream!Number(p1, i, s, n) + 1) % SeqModulus
  <2>1. i \in M /\ j \in M /\ \A k \in M : k <= i \/ j <= k
    BY <1>1, <1>5, <1>7
  <2>2. Stream!Number(p1, j, s, n) = Stream!Number(p, j, s, q) /\ Stream!Number(p1, i, s, n) = Stream!Number(p, i, s, q)
    BY <1>1, <1>5, <1>7 DEF Stream!Number
  <2> QED
    BY <1>6, <1>7, <2>1, <2>2
<1>8. ASSUME NEW i \in M1, i <= L, NEW j \in M1, j > L, \A k \in M1 : k <= i \/ j <= k, NEW n
      PROVE  q = (Stream!Number(p1, i, s, n) + 1) % SeqModulus
  <2>1. i \in M /\ \A k \in M : k <= i \/ L + 1 <= k
    BY <1>1, <1>5, <1>8
  <2>2. Stream!Number(p, L + 1, s, q) = q /\ Stream!Number(p1, i, s, n) = Stream!Number(p, i, s, q)
    BY <1>1, <1>5, <1>8 DEF Stream!Number
  <2> QED
    BY <1>1, <1>5, <1>6, <1>8, <2>1, <2>2
<1>9. ASSUME a # t PROVE Stream!Chained(p1, t, s, q)
  <2> SUFFICES ASSUME NEW i \in M1, NEW j \in M1, i < j, \A k \in M1 : k <= i \/ j <= k
               PROVE  Stream!Number(p1, j, s, q) = (Stream!Number(p1, i, s, q) + 1) % SeqModulus
    BY DEF Stream!Chained, M1
  <2>1. CASE j <= L
    BY <1>7, <2>1
  <2>2. CASE j > L
    <3>1. j = L + 3 /\ i <= L
      BY <1>1, <1>5, <1>9, <2>2
    <3>2. Stream!Number(p1, j, s, q) = q
      BY <1>1, <3>1 DEF Stream!Number
    <3> QED
      BY <1>8, <2>2, <3>1, <3>2
  <2> QED
    BY <1>1, <1>5, <2>1, <2>2
<1>10. ASSUME a = t, b = q PROVE Stream!Chained(p1, t, s, (q + 1) % SeqModulus)
  <2> DEFINE n == (q + 1) % SeqModulus
  <2> HIDE DEF n
  <2> SUFFICES ASSUME NEW i \in M1, NEW j \in M1, i < j, \A k \in M1 : k <= i \/ j <= k
               PROVE  Stream!Number(p1, j, s, n) = (Stream!Number(p1, i, s, n) + 1) % SeqModulus
    BY DEF Stream!Chained, M1, n
  <2>1. CASE j <= L
    BY <1>7, <2>1
  <2>2. CASE j > L /\ i <= L
    <3>1. j = L + 2
      BY <1>1, <1>5, <1>10, <2>2
    <3>2. Stream!Number(p1, j, s, n) = q
      BY <1>1, <1>4, <1>10, <3>1 DEF Stream!Number
    <3> QED
      BY <1>8, <2>2, <3>2
  <2>3. CASE i > L
    <3>1. i = L + 2 /\ j = L + 3
      BY <1>1, <1>5, <2>3
    <3>2. Stream!Number(p1, j, s, n) = n /\ Stream!Number(p1, i, s, n) = q
      BY <1>1, <1>4, <1>10, <3>1 DEF Stream!Number
    <3> QED
      BY <3>2 DEF n
  <2> QED
    BY <1>1, <1>5, <2>1, <2>2, <2>3
<1> QED
  BY <1>9, <1>10

\* A chain of numbers stays one when its first message goes.
LEMMA ChainShorter ==
  ASSUME NEW p \in Seq(Halves), NEW p1 \in Seq(Halves), Shorter(p, p1), Stream!Whole(p),
         NEW t, NEW s \in Last, NEW q \in Nat, Stream!Chained(p, t, s, q)
  PROVE  /\ p[2][1] # t => Stream!Chained(p1, t, s, q)
         /\ p[2][1] = t => Stream!Chained(p1, t, p[2][2], q)
<1> DEFINE L == Len(p1)  M == Stream!Marks(p, t, s)  up(i) == i + 2
<1>1. L \in Nat /\ Len(p) = L + 2 /\ \A i \in 1 .. L : p1[i] = p[i + 2]
  BY DEF Shorter
<1>2. M = {i \in 1 .. L + 2 : p[i][1] = t /\ p[i][3] = 2} \cup {L + 3} \cup (IF s = -1 THEN {} ELSE {0})
  BY <1>1 DEF Stream!Marks, Stream!Never
<1>3. p[1][3] = 1 /\ p[2][3] = 2 /\ p[2] \in Halves
  <2>1. 1 \in 1 .. Len(p) /\ 2 \in 1 .. Len(p)
    BY <1>1
  <2>2. p[1][3] = 1 /\ p[2] = <<p[1][1], p[1][2], 2>> /\ p[2] \in Halves
    BY <2>1 DEF Stream!Whole
  <2> QED
    BY <2>2
<1>4. p[2][2] \in Nat
  BY <1>3 DEF Halves
<1>5. /\ M \subseteq 0 .. L + 3 /\ L + 3 \in M /\ 1 \notin M /\ (2 \in M <=> p[2][1] = t)
      /\ (0 \in M <=> s # -1)
  BY <1>1, <1>2, <1>3
<1>6. ASSUME NEW i \in M, NEW j \in M, i < j, \A k \in M : k <= i \/ j <= k
      PROVE  Stream!Number(p, j, s, q) = (Stream!Number(p, i, s, q) + 1) % SeqModulus
  BY <1>6 DEF Stream!Chained
<1>7. ASSUME NEW w \in Last
      PROVE  LET M1 == Stream!Marks(p1, t, w) IN
             /\ M1 \subseteq 0 .. L + 1 /\ (0 \in M1 <=> w # -1)
             /\ \A i \in 1 .. L + 1 : i \in M1 <=> i + 2 \in M
             /\ \A i \in 1 .. L + 1 : Stream!Number(p1, i, w, q) = Stream!Number(p, i + 2, s, q)
  <2>1. Stream!Marks(p1, t, w) = {i \in 1 .. L : p1[i][1] = t /\ p1[i][3] = 2} \cup {L + 1}
                                   \cup (IF w = -1 THEN {} ELSE {0})
    BY DEF Stream!Marks, Stream!Never
  <2>2. \A i \in 1 .. L : i \in Stream!Marks(p1, t, w) <=> i + 2 \in M
    BY <1>1, <1>2, <2>1
  <2>3. \A i \in 1 .. L + 1 : Stream!Number(p1, i, w, q) = Stream!Number(p, i + 2, s, q)
    BY <1>1 DEF Stream!Number
  <2> QED
    BY <1>1, <1>2, <2>1, <2>2, <2>3
<1> HIDE DEF M
<1>8. ASSUME p[2][1] # t PROVE Stream!Chained(p1, t, s, q)
  <2> DEFINE M1 == Stream!Marks(p1, t, s)
  <2>1. /\ M1 \subseteq 0 .. L + 1 /\ (0 \in M1 <=> 0 \in M)
        /\ \A i \in 1 .. L + 1 : i \in M1 <=> i + 2 \in M
        /\ \A i \in 1 .. L + 1 : Stream!Number(p1, i, s, q) = Stream!Number(p, i + 2, s, q)
    BY <1>5, <1>7
  <2>2. Stream!Number(p1, 0, s, q) = Stream!Number(p, 0, s, q)
    BY DEF Stream!Number
  <2> SUFFICES ASSUME NEW i \in M1, NEW j \in M1, i < j, \A k \in M1 : k <= i \/ j <= k
               PROVE  Stream!Number(p1, j, s, q) = (Stream!Number(p1, i, s, q) + 1) % SeqModulus
    BY DEF Stream!Chained
  <2> HIDE DEF M1
  <2> DEFINE i0 == IF i = 0 THEN 0 ELSE i + 2
  <2>3. j \in 1 .. L + 1 /\ i \in 0 .. L /\ i0 \in M /\ j + 2 \in M /\ i0 < j + 2
    BY <1>1, <2>1
  <2>4. ASSUME NEW k \in M PROVE k <= i0 \/ j + 2 <= k
    <3>1. CASE k = 0
      BY <2>3, <3>1
    <3>2. CASE k # 0
      <4>1. k - 2 \in 1 .. L + 1 /\ k = (k - 2) + 2
        BY <1>1, <1>5, <1>8, <3>2
      <4>2. k - 2 \in M1
        BY <2>1, <4>1
      <4>3. k - 2 <= i \/ j <= k - 2
        BY <4>2
      <4> QED
        BY <2>3, <4>1, <4>3
    <3> QED
      BY <3>1, <3>2
  <2>5. Stream!Number(p, j + 2, s, q) = (Stream!Number(p, i0, s, q) + 1) % SeqModulus
    BY <1>6, <2>3, <2>4
  <2> QED
    BY <2>1, <2>2, <2>3, <2>5
<1>9. ASSUME p[2][1] = t PROVE Stream!Chained(p1, t, p[2][2], q)
  <2> DEFINE w == p[2][2]
             M1 == Stream!Marks(p1, t, w)
  <2>1. /\ M1 \subseteq 0 .. L + 1
        /\ \A i \in 1 .. L + 1 : i \in M1 <=> i + 2 \in M
        /\ \A i \in 1 .. L + 1 : Stream!Number(p1, i, w, q) = Stream!Number(p, i + 2, s, q)
    BY <1>4, <1>7 DEF Last
  <2>2. Stream!Number(p1, 0, w, q) = Stream!Number(p, 2, s, q) /\ 2 \in M
    BY <1>1, <1>5, <1>9 DEF Stream!Number
  <2> HIDE DEF w
  <2> SUFFICES ASSUME NEW i \in M1, NEW j \in M1, i < j, \A k \in M1 : k <= i \/ j <= k
               PROVE  Stream!Number(p1, j, w, q) = (Stream!Number(p1, i, w, q) + 1) % SeqModulus
    BY DEF Stream!Chained, w
  <2> HIDE DEF M1
  <2>3. j \in 1 .. L + 1 /\ i \in 0 .. L /\ i + 2 \in M /\ j + 2 \in M /\ i + 2 < j + 2
    BY <1>1, <2>1, <2>2
  <2>4. ASSUME NEW k \in M PROVE k <= i + 2 \/ j + 2 <= k
    <3>1. CASE k <= 2
      BY <2>3, <3>1, <1>5
    <3>2. CASE k > 2
      <4>1. k - 2 \in 1 .. L + 1 /\ k = (k - 2) + 2
        BY <1>1, <1>5, <3>2
      <4>2. k - 2 \in M1
        BY <2>1, <4>1
      <4>3. k - 2 <= i \/ j <= k - 2
        BY <4>2
      <4> QED
        BY <2>3, <4>1, <4>3
    <3> QED
      BY <1>1, <1>5, <3>1, <3>2
  <2>5. Stream!Number(p, j + 2, s, q) = (Stream!Number(p, i + 2, s, q) + 1) % SeqModulus
    BY <1>6, <2>3, <2>4
  <2>6. Stream!Number(p1, i, w, q) = Stream!Number(p, i + 2, s, q)
    BY <2>1, <2>2, <2>3
  <2> QED
    BY <2>1, <2>3, <2>5, <2>6
<1> QED
  BY <1>8, <1>9
\* A stream of the connection, and one within its limits.
Streams == [out : Seq(Halves), wire : Seq(Halves), closed : BOOLEAN]
Fits(s) == s \in Streams /\ Len(s.out) <= MaxBacklog /\ Len(s.wire) <= Room

\* Sequences of halves one after the other.
LEMMA Joined ==
  ASSUME NEW p \in Seq(Halves), NEW q \in Seq(Halves)
  PROVE  p \o q \in Seq(Halves) /\ Len(p \o q) = Len(p) + Len(q)
  BY ConcatProperties

\* Where a half is in two sequences of halves.
LEMMA JoinedAt ==
  ASSUME NEW p \in Seq(Halves), NEW q \in Seq(Halves), NEW i \in 1 .. Len(p) + Len(q)
  PROVE  (p \o q)[i] = IF i <= Len(p) THEN p[i] ELSE q[i - Len(p)]
  BY ConcatProperties

\* Joining is associative.
LEMMA JoinedTwice ==
  ASSUME NEW p \in Seq(Halves), NEW q \in Seq(Halves), NEW r \in Seq(Halves)
  PROVE  (p \o q) \o r = p \o (q \o r)
  BY ConcatAssociative

\* What is flushed moves, and nothing is lost.
LEMMA FlushIs ==
  ASSUME NEW s \in Streams, Len(s.wire) <= Room
  PROVE  LET w == Stream!Flushed(s) IN
         /\ w \in Streams /\ w.closed = s.closed /\ Len(w.wire) <= Room
         /\ Len(w.out) <= Len(s.out) /\ w.wire \o w.out = s.wire \o s.out
<1>1. /\ s.out \in Seq(Halves) /\ s.wire \in Seq(Halves) /\ s.closed \in BOOLEAN
      /\ Len(s.out) \in Nat /\ Len(s.wire) \in Nat
  BY DEF Streams
<1> DEFINE free == Room - Len(s.wire)
           n == IF Len(s.out) < free THEN Len(s.out) ELSE free
           a == SubSeq(s.out, 1, n)
           b == SubSeq(s.out, n + 1, Len(s.out))
<1>2. n \in 0 .. Len(s.out) /\ Len(s.wire) + n <= Room
  <2>0. Len(s.out) \in Nat /\ Len(s.wire) \in Nat /\ Len(s.wire) <= Room
    BY <1>1
  <2>1. ASSUME NEW l \in Nat, NEW u \in Nat, u <= Room
        PROVE  LET m == IF l < Room - u THEN l ELSE Room - u IN m \in 0 .. l /\ u + m <= Room
    BY <2>1, StreamAssumption
  <2> QED
    BY <2>0, <2>1
<1>3. Stream!Flushed(s) = [s EXCEPT !.wire = s.wire \o a, !.out = b]
  BY DEF Stream!Flushed
<1> HIDE DEF n
<1>4. a \in Seq(Halves) /\ Len(a) = n /\ b \in Seq(Halves) /\ Len(b) = Len(s.out) - n
  BY <1>1, <1>2
<1>5. a \o b = s.out
  <2>1. a \o b = SubSeq(s.out, 1, Len(s.out))
    <3>1. 1 \in 1 .. Len(s.out) + 1 /\ n \in 1 - 1 .. Len(s.out) /\ Len(s.out) \in n .. Len(s.out)
      BY <1>1, <1>2
    <3>2. SubSeq(s.out, 1, n) \o SubSeq(s.out, n + 1, Len(s.out)) = SubSeq(s.out, 1, Len(s.out))
      BY <1>1, <3>1, ConcatAdjacentSubSeq
    <3> QED
      BY <3>2
  <2>2. SubSeq(s.out, 1, Len(s.out)) = s.out
    BY <1>1, SubSeqFull
  <2> QED
    BY <2>1, <2>2
<1> HIDE DEF a, b
<1>6. /\ s.wire \o a \in Seq(Halves) /\ Len(s.wire \o a) = Len(s.wire) + n
      /\ (s.wire \o a) \o b = s.wire \o s.out
  <2>1. s.wire \o a \in Seq(Halves) /\ Len(s.wire \o a) = Len(s.wire) + n
    BY <1>1, <1>4, Joined
  <2>2. (s.wire \o a) \o b = s.wire \o (a \o b)
    <3>1. s.wire \in Seq(Halves) /\ a \in Seq(Halves) /\ b \in Seq(Halves)
      BY <1>1, <1>4
    <3> QED
      BY <3>1, JoinedTwice
  <2> QED
    BY <1>5, <2>1, <2>2
<1> DEFINE c == s.wire \o a
<1>7. Stream!Flushed(s) = [out |-> b, wire |-> c, closed |-> s.closed]
  BY <1>3 DEF Streams
<1> HIDE DEF c
<1>8. /\ c \in Seq(Halves) /\ Len(c) <= Room /\ c \o b = s.wire \o s.out
      /\ Len(b) <= Len(s.out)
  BY <1>1, <1>2, <1>4, <1>6 DEF c
<1>9. [out |-> b, wire |-> c, closed |-> s.closed] \in Streams
  BY <1>1, <1>4, <1>8 DEF Streams
<1> DEFINE w == [out |-> b, wire |-> c, closed |-> s.closed]
<1>10. w.out = b /\ w.wire = c /\ w.closed = s.closed
  OBVIOUS
<1> HIDE DEF w
<1>11. w \in Streams /\ w.closed = s.closed /\ Len(w.wire) <= Room
       /\ Len(w.out) <= Len(s.out) /\ w.wire \o w.out = s.wire \o s.out
  BY <1>8, <1>9, <1>10 DEF w
<1> QED
  BY <1>7, <1>11 DEF w

\* A message is queued after all there is, or the connection closes.
LEMMA QueuedIs ==
  ASSUME NEW s, Fits(s), NEW a \in {"video", "audio", "reply", "report"}, NEW b \in Nat
  PROVE  LET w == Stream!Queued(s, <<a, b>>) IN
         /\ Fits(w)
         /\ \/ w.closed /\ w.out = <<>> /\ w.wire = <<>>
            \/ ~w.closed /\ w.wire \o w.out = (s.wire \o s.out) \o <<<<a, b, 1>>, <<a, b, 2>>>>
<1> DEFINE w == Stream!Queued(s, <<a, b>>)
           two == <<<<a, b, 1>>, <<a, b, 2>>>>
<1>1. /\ s.out \in Seq(Halves) /\ s.wire \in Seq(Halves) /\ s.closed \in BOOLEAN
      /\ Len(s.out) \in Nat /\ Len(s.wire) \in Nat /\ Len(s.wire) <= Room
  BY DEF Fits, Streams
<1>2. two \in Seq(Halves) /\ Len(two) = 2 /\ Stream!Halves(<<a, b>>) = two
  BY DEF Halves, Stream!Halves
<1>3. CASE s.closed \/ Len(s.out) + 2 > MaxBacklog
  <2>1. w = [out |-> <<>>, wire |-> <<>>, closed |-> TRUE]
    BY <1>3 DEF Stream!Queued, Stream!Closed
  <2>2. <<>> \in Seq(Halves) /\ Len(<<>>) = 0
    OBVIOUS
  <2>3. Fits([out |-> <<>>, wire |-> <<>>, closed |-> TRUE])
    BY <2>2, StreamAssumption DEF Fits, Streams
  <2> HIDE DEF w
  <2>4. w.closed /\ w.out = <<>> /\ w.wire = <<>> /\ Fits(w)
    BY <2>1, <2>3
  <2> QED
    BY <2>4 DEF w
<1>4. CASE ~s.closed /\ Len(s.out) + 2 <= MaxBacklog
  <2> DEFINE more == s.out \o two
             s1 == [s EXCEPT !.out = more]
  <2>1. w = Stream!Flushed(s1)
    <3>1. ~(s.closed \/ Len(s.out) + 2 > MaxBacklog)
      BY <1>1, <1>4, StreamAssumption
    <3> QED
      BY <1>2, <3>1 DEF Stream!Queued
  <2> HIDE DEF two
  <2>a. two \in Seq(Halves) /\ s.out \in Seq(Halves) /\ s.wire \in Seq(Halves)
    BY <1>1, <1>2
  <2>b. Len(two) = 2
    BY <1>2
  <2>2. more \in Seq(Halves) /\ Len(more) = Len(s.out) + 2
    BY <2>a, <2>b, Joined
  <2>3. s.wire \o more = (s.wire \o s.out) \o two
    BY <2>a, JoinedTwice
  <2> HIDE DEF more
  <2>4. s1 \in Streams /\ s1.out = more /\ s1.wire = s.wire /\ ~s1.closed
    BY <1>1, <1>4, <2>2 DEF Fits, Streams
  <2> HIDE DEF s1
  <2>5. /\ w \in Streams /\ w.closed = s1.closed /\ Len(w.wire) <= Room
        /\ Len(w.out) <= Len(s1.out) /\ w.wire \o w.out = s1.wire \o s1.out
    BY <1>1, <2>1, <2>4, FlushIs
  <2>6. Len(w.out) \in Nat
    BY <2>5 DEF Streams
  <2> HIDE DEF w
  <2>7. Fits(w)
    BY <1>1, <1>4, <2>2, <2>4, <2>5, <2>6, StreamAssumption DEF Fits
  <2> QED
    BY <2>3, <2>4, <2>5, <2>7 DEF two, w
<1>5. (s.closed \/ Len(s.out) + 2 > MaxBacklog) \/ (~s.closed /\ Len(s.out) + 2 <= MaxBacklog)
  BY <1>1, StreamAssumption
<1> HIDE DEF w
<1> QED
  BY <1>3, <1>4, <1>5 DEF w

\* So all that is not read is longer by a message.
LEMMA JoinedLonger ==
  ASSUME NEW x \in Seq(Halves), NEW two \in Seq(Halves), Len(two) = 2, NEW a, NEW b,
         two[1] = <<a, b, 1>>, two[2] = <<a, b, 2>>
  PROVE  Longer(x, x \o two, a, b)
<1>1. /\ Len(x \o two) = Len(x) + 2 /\ Len(x) \in Nat
      /\ \A i \in 1 .. Len(x) + 2 : (x \o two)[i] = IF i <= Len(x) THEN x[i] ELSE two[i - Len(x)]
  <2>0. Len(x \o two) = Len(x) + Len(two)
    BY Joined
  <2>1. Len(x \o two) = Len(x) + 2 /\ Len(x) \in Nat
    BY <2>0
  <2>2. ASSUME NEW i \in 1 .. Len(x) + 2
        PROVE  (x \o two)[i] = IF i <= Len(x) THEN x[i] ELSE two[i - Len(x)]
    <3>1. i \in 1 .. Len(x) + Len(two)
      OBVIOUS
    <3> QED
      BY <3>1, JoinedAt
  <2> QED
    BY <2>1, <2>2
<1>2. \A i \in 1 .. Len(x) : (x \o two)[i] = x[i]
  BY <1>1
<1>3. (x \o two)[Len(x) + 1] = two[1] /\ (x \o two)[Len(x) + 2] = two[2]
  BY <1>1
<1> QED
  BY <1>1, <1>2, <1>3 DEF Longer

\* What is behind a message that comes to be behind all.
LEMMA LongerIs ==
  ASSUME NEW h \in Seq(Halves), NEW p \in Seq(Halves),
         NEW a \in {"video", "audio", "reply", "report"}, NEW b \in Nat
  PROVE  LET two == <<<<a, b, 1>>, <<a, b, 2>>>> IN
         Longer(h \o p, h \o (p \o two), a, b) /\ h \o (p \o two) \in Seq(Halves)
<1> DEFINE two == <<<<a, b, 1>>, <<a, b, 2>>>>
<1>1. two \in Seq(Halves)
  BY DEF Halves
<1>2. Len(two) = 2 /\ two[1] = <<a, b, 1>> /\ two[2] = <<a, b, 2>>
  OBVIOUS
<1> HIDE DEF two
<1>3. h \o p \in Seq(Halves) /\ h \o (p \o two) \in Seq(Halves)
  BY <1>1, Joined
<1>4. h \o (p \o two) = (h \o p) \o two
  BY <1>1, JoinedTwice
<1>5. Longer(h \o p, (h \o p) \o two, a, b)
  BY <1>1, <1>2, <1>3, JoinedLonger
<1> QED
  BY <1>3, <1>4, <1>5 DEF two
\* The order of all that is not read: h with the client, then s.
Ahead(h, s) == h \o (s.wire \o s.out)
Ordered(h, s, q) ==
  /\ s.closed => s.wire = <<>> /\ s.out = <<>>
  /\ ~s.closed => Stream!Whole(Ahead(h, s))
                  /\ \A u \in Stream!Tcp : Stream!Chained(Ahead(h, s), u, seen[u], q[u])

\* A message that is not of a track leaves the numbers alone.
LEMMA OtherQueued ==
  ASSUME NEW h \in Seq(Halves), NEW s, Fits(s), NEW q \in [Stream!Tracks -> Nat], Ordered(h, s, q),
         seen \in [Stream!Tracks -> Last], NEW a \in {"reply", "report"}
  PROVE  LET w == Stream!Queued(s, <<a, 0>>) IN Fits(w) /\ Ordered(h, w, q)
<1> DEFINE w == Stream!Queued(s, <<a, 0>>)
           two == <<<<a, 0, 1>>, <<a, 0, 2>>>>
<1>1. /\ Fits(w)
      /\ \/ w.closed /\ w.out = <<>> /\ w.wire = <<>>
         \/ ~w.closed /\ w.wire \o w.out = (s.wire \o s.out) \o two
  BY QueuedIs
<1>2. s.closed => w.closed
  BY DEF Stream!Queued, Stream!Closed
<1> HIDE DEF w
<1>3. CASE ~w.closed
  <2>1. s.wire \o s.out \in Seq(Halves) /\ Ahead(h, s) \in Seq(Halves)
    BY Joined DEF Fits, Streams, Ahead
  <2>2. Longer(Ahead(h, s), Ahead(h, w), a, 0) /\ Ahead(h, w) \in Seq(Halves)
    BY <1>1, <1>3, <2>1, LongerIs DEF Ahead
  <2>3. Stream!Whole(Ahead(h, w))
    BY <1>2, <1>3, <2>1, <2>2, WholeLonger DEF Ordered
  <2>4. ASSUME NEW u \in Stream!Tcp PROVE Stream!Chained(Ahead(h, w), u, seen[u], q[u])
    <3>1. u \in Stream!Tracks /\ a # u /\ seen[u] \in Last /\ q[u] \in Nat
      BY DEF Stream!Tcp, Stream!Tracks
    <3>2. Stream!Chained(Ahead(h, s), u, seen[u], q[u])
      BY <1>2, <1>3 DEF Ordered
    <3> QED
      BY <2>1, <2>2, <3>1, <3>2, ChainLonger
  <2> QED
    BY <1>1, <1>3, <2>3, <2>4 DEF Ordered, w
<1>4. CASE w.closed
  BY <1>1, <1>4 DEF Ordered, w
<1> QED
  BY <1>3, <1>4

\* A packet of a track takes its next number.
LEMMA PacketQueued ==
  ASSUME NEW h \in Seq(Halves), NEW s, Fits(s), NEW q \in [Stream!Tracks -> Nat], Ordered(h, s, q),
         seen \in [Stream!Tracks -> Last], NEW t \in Stream!Tcp
  PROVE  LET w == Stream!Queued(s, <<t, q[t]>>) IN
         Fits(w) /\ Ordered(h, w, [q EXCEPT ![t] = (q[t] + 1) % SeqModulus])
<1> DEFINE b == q[t]
           w == Stream!Queued(s, <<t, b>>)
           two == <<<<t, b, 1>>, <<t, b, 2>>>>
           q1 == [q EXCEPT ![t] = (q[t] + 1) % SeqModulus]
<1>0. t \in Stream!Tracks /\ t \in {"video", "audio", "reply", "report"} /\ b \in Nat
  BY DEF Stream!Tcp, Stream!Tracks
<1>1. /\ Fits(w)
      /\ \/ w.closed /\ w.out = <<>> /\ w.wire = <<>>
         \/ ~w.closed /\ w.wire \o w.out = (s.wire \o s.out) \o two
  BY <1>0, QueuedIs
<1>2. s.closed => w.closed
  BY DEF Stream!Queued, Stream!Closed
<1> HIDE DEF w
<1>3. CASE ~w.closed
  <2>1. s.wire \o s.out \in Seq(Halves) /\ Ahead(h, s) \in Seq(Halves)
    BY Joined DEF Fits, Streams, Ahead
  <2>2. Longer(Ahead(h, s), Ahead(h, w), t, b) /\ Ahead(h, w) \in Seq(Halves)
    BY <1>0, <1>1, <1>3, <2>1, LongerIs DEF Ahead
  <2>3. Stream!Whole(Ahead(h, w))
    BY <1>2, <1>3, <2>1, <2>2, WholeLonger DEF Ordered
  <2>4. ASSUME NEW u \in Stream!Tcp PROVE Stream!Chained(Ahead(h, w), u, seen[u], q1[u])
    <3>1. u \in Stream!Tracks /\ seen[u] \in Last /\ q[u] \in Nat
      BY DEF Stream!Tcp
    <3>2. Stream!Chained(Ahead(h, s), u, seen[u], q[u])
      BY <1>2, <1>3 DEF Ordered
    <3>3. CASE u = t
      <4>1. q1[u] = (q[u] + 1) % SeqModulus
        BY <1>0, <3>3
      <4> HIDE DEF q1
      <4> QED
        BY <2>1, <2>2, <3>1, <3>2, <3>3, <4>1, ChainLonger
    <3>4. CASE u # t
      <4>1. q1[u] = q[u]
        BY <3>1, <3>4
      <4> HIDE DEF q1
      <4> QED
        BY <2>1, <2>2, <3>1, <3>2, <3>4, <4>1, ChainLonger
    <3> QED
      BY <3>3, <3>4
  <2> QED
    BY <1>1, <1>3, <2>3, <2>4 DEF Ordered, w
<1>4. CASE w.closed
  BY <1>1, <1>4 DEF Ordered, w
<1> QED
  BY <1>3, <1>4

\* The packets of a frame take the next numbers of their track.
LEMMA FrameQueued ==
  ASSUME Fits(Stream!Stream), half \in Seq(Halves), Ordered(half, Stream!Stream, sequence),
         sequence \in [Stream!Tracks -> 0 .. SeqModulus - 1], seen \in [Stream!Tracks -> Last],
         NEW t \in Stream!Tcp, NEW n \in Nat
  PROVE  LET w == Stream!RtpQueued(t, n) IN
         /\ Fits(w)
         /\ Ordered(half, w, [sequence EXCEPT ![t] = (sequence[t] + n) % SeqModulus])
<1> DEFINE Step(s, i) == Stream!Queued(s, <<t, (sequence[t] + i - 1) % SeqModulus>>)
           Is(f, k) == f = [i \in 0 .. k |-> IF i = 0 THEN Stream!Stream ELSE Step(f[i - 1], i)]
           f == CHOOSE f : Is(f, n)
           q(i) == [sequence EXCEPT ![t] = (sequence[t] + i) % SeqModulus]
<1>1. Stream!RtpQueued(t, n) = f[n]
  BY DEF Stream!RtpQueued
<1> HIDE DEF Step
<1>2. \E g : Is(g, n)
  <2> DEFINE T == {k \in Nat : \E g : Is(g, k)}
  <2>1. 0 \in T
    <3>1. Is([i \in 0 .. 0 |-> Stream!Stream], 0)
      OBVIOUS
    <3> HIDE DEF Is
    <3> QED
      BY <3>1
  <2>2. ASSUME NEW k \in 0 .. n - 1, k \in T PROVE k + 1 \in T
    <3>1. PICK g : Is(g, k)
      BY <2>2
    <3> DEFINE h == [i \in 0 .. k + 1 |-> IF i = k + 1 THEN Step(g[k], k + 1) ELSE g[i]]
    <3>2. ASSUME NEW i \in 0 .. k + 1
          PROVE  h[i] = IF i = 0 THEN Stream!Stream ELSE Step(h[i - 1], i)
      <4>1. CASE i = k + 1
        <5>1. h[i] = Step(g[k], k + 1) /\ h[i - 1] = g[k] /\ i # 0
          BY <4>1
        <5> QED
          BY <4>1, <5>1
      <4>2. CASE i # k + 1
        <5>1. i \in 0 .. k /\ h[i] = g[i] /\ (i # 0 => h[i - 1] = g[i - 1])
          BY <4>2
        <5>2. g[i] = IF i = 0 THEN Stream!Stream ELSE Step(g[i - 1], i)
          BY <3>1, <5>1
        <5> QED
          BY <5>1, <5>2
      <4> QED
        BY <4>1, <4>2
    <3>3. Is(h, k + 1)
      <4>1. h = [i \in 0 .. k + 1 |-> h[i]]
        OBVIOUS
      <4> HIDE DEF h
      <4>2. [i \in 0 .. k + 1 |-> h[i]] = [i \in 0 .. k + 1 |-> IF i = 0 THEN Stream!Stream ELSE Step(h[i - 1], i)]
        BY <3>2
      <4> QED
        BY <4>1, <4>2
    <3> HIDE DEF Is, h
    <3> QED
      BY <3>3
  <2> HIDE DEF T
  <2>3. 0 .. n \subseteq T
    BY <2>1, <2>2, UpTo
  <2>4. n \in T
    BY <2>3
  <2> QED
    BY <2>4 DEF T
<1>3. Is(f, n)
  BY <1>2
<1> HIDE DEF f
<1>4. /\ f[0] = Stream!Stream
      /\ \A i \in 1 .. n : f[i] = Step(f[i - 1], i)
  BY <1>3
<1> DEFINE T == {i \in Nat : Fits(f[i]) /\ Ordered(half, f[i], q(i))}
<1>5. 0 \in T
  <2>1. t \in Stream!Tracks /\ sequence[t] \in 0 .. SeqModulus - 1
    BY DEF Stream!Tcp
  <2>2. (sequence[t] + 0) % SeqModulus = sequence[t]
    BY <2>1, StreamAssumption
  <2>3. q(0) = sequence
    BY <2>2
  <2> HIDE DEF q
  <2> QED
    BY <1>4, <2>3
<1>6. ASSUME NEW i \in 0 .. n - 1, i \in T PROVE i + 1 \in T
  <2>1. t \in Stream!Tracks /\ sequence[t] \in Int /\ SeqModulus \in Nat \ {0}
    BY StreamAssumption DEF Stream!Tcp
  <2>2. (((sequence[t] + i) % SeqModulus) + 1) % SeqModulus = (sequence[t] + (i + 1)) % SeqModulus
    <3> DEFINE x == sequence[t] + i
    <3>1. x \in Int /\ x + 1 = sequence[t] + (i + 1)
      BY <2>1
    <3> HIDE DEF x
    <3>2. \A b \in Int : ((x % SeqModulus) + b) % SeqModulus = (x + b) % SeqModulus
      BY <2>1, <3>1, RemainderOfSum, Zenon
    <3> QED
      BY <3>1, <3>2 DEF x
  <2>3. q(i)[t] = (sequence[t] + i) % SeqModulus
    BY <2>1
  <2>4. [q(i) EXCEPT ![t] = (q(i)[t] + 1) % SeqModulus] = q(i + 1)
    BY <2>1, <2>2, <2>3
  <2>5. q(i) \in [Stream!Tracks -> Nat]
    <3>1. (sequence[t] + i) % SeqModulus \in Nat
      <4>1. sequence[t] + i \in Int
        BY <2>1
      <4> QED
        BY <2>1, <4>1, Quotient
    <3>2. sequence \in [Stream!Tracks -> Nat]
      BY StreamAssumption
    <3> QED
      BY <3>1, <3>2
  <2>6. f[i + 1] = Stream!Queued(f[i], <<t, q(i)[t]>>)
    <3>1. i + 1 \in 1 .. n /\ (i + 1) - 1 = i /\ sequence[t] + (i + 1) - 1 = sequence[t] + i
      BY <2>1
    <3> QED
      BY <1>4, <2>3, <3>1 DEF Step
  <2> HIDE DEF q
  <2>7. Fits(f[i]) /\ Ordered(half, f[i], q(i))
    BY <1>6
  <2>8. Fits(f[i + 1]) /\ Ordered(half, f[i + 1], [q(i) EXCEPT ![t] = (q(i)[t] + 1) % SeqModulus])
    <3> DEFINE s == f[i]  p == q(i)
    <3>1. /\ Fits(s) /\ p \in [Stream!Tracks -> Nat] /\ Ordered(half, s, p)
          /\ f[i + 1] = Stream!Queued(s, <<t, p[t]>>)
      BY <2>5, <2>6, <2>7
    <3> HIDE DEF s, p
    <3>2. LET w == Stream!Queued(s, <<t, p[t]>>) IN
          Fits(w) /\ Ordered(half, w, [p EXCEPT ![t] = (p[t] + 1) % SeqModulus])
      BY <3>1, PacketQueued
    <3> QED
      BY <3>1, <3>2 DEF p
  <2> QED
    BY <2>4, <2>8
<1> HIDE DEF T
<1>7. 0 .. n \subseteq T
  BY <1>5, <1>6, UpTo
<1>8. n \in T
  BY <1>7
<1> QED
  BY <1>1, <1>8 DEF T
StreamTyped ==
  /\ transport \in Setups /\ playing \in BOOLEAN /\ awaiting \in BOOLEAN /\ armed \in BOOLEAN
  /\ closed \in BOOLEAN /\ Fits(Stream!Stream) /\ half \in Seq(Halves) /\ Len(half) <= 1
  /\ timestamp \in [Stream!Tracks -> {-1} \cup 1 .. Modulus - 1] /\ sent \in [Stream!Tracks -> Last]
  /\ sequence \in [Stream!Tracks -> 0 .. SeqModulus - 1] /\ counted \in [Stream!Tracks -> BOOLEAN]
  /\ seen \in [Stream!Tracks -> Last] /\ opening \in {"none", "key", "delta"}

\* The stream is in order, and a closed one is empty.
InOrder == Ordered(half, Stream!Stream, sequence) /\ (closed => half = <<>>)

\* Before the first video packet, a key frame is awaited.
Opening == opening # "delta" /\ (opening = "none" => awaiting)

\* The timestamp of a track is that of the last packet sent, 1 for 0.
Stamped(time) == IF time % Modulus = 0 THEN 1 ELSE time % Modulus
Clocks == \A t \in Stream!Tracks : timestamp[t] = IF sent[t] = -1 THEN -1 ELSE Stamped(sent[t])

StreamInv == StreamTyped /\ InOrder /\ Opening /\ Clocks

\* The stream becomes w, and the numbers q.
LEMMA BecomesOrdered ==
  ASSUME StreamInv, NEW w, Fits(w), NEW q, Ordered(half, w, q),
         output' = w.out, wire' = w.wire, closed' = w.closed,
         half' = IF w.closed THEN <<>> ELSE half, sequence' = q, UNCHANGED <<transport, seen>>
  PROVE  /\ Fits(Stream!Stream)' /\ half' \in Seq(Halves) /\ Len(half') <= 1 /\ closed' \in BOOLEAN
         /\ InOrder'
<1>1. Stream!Stream' = w
  BY DEF Stream!Stream, Fits, Streams
<1>2. Fits(Stream!Stream)' <=> Fits(Stream!Stream')
  BY DEF Fits
<1>3. half' \in Seq(Halves) /\ Len(half') <= 1 /\ closed' \in BOOLEAN
  <2>1. <<>> \in Seq(Halves) /\ Len(<<>>) = 0
    OBVIOUS
  <2> QED
    BY <2>1 DEF StreamInv, StreamTyped, Fits, Streams
<1>4. Ordered(half, Stream!Stream, sequence)'
  <2>1. Ordered(half', w, q)
    BY DEF Ordered
  <2>2. Stream!Tcp' = Stream!Tcp
    BY DEF Stream!Tcp
  <2>3. Ordered(half, Stream!Stream, sequence)' <=>
          /\ Stream!Stream'.closed => Stream!Stream'.wire = <<>> /\ Stream!Stream'.out = <<>>
          /\ ~Stream!Stream'.closed =>
               Stream!Whole(Ahead(half', Stream!Stream')) /\ \A u \in Stream!Tcp' :
                 Stream!Chained(Ahead(half', Stream!Stream'), u, seen'[u], sequence'[u])
    BY DEF Ordered, Ahead, Stream!Whole, Stream!Chained, Stream!Marks, Stream!Number
  <2> QED
    BY <1>1, <2>1, <2>2, <2>3 DEF Ordered
<1> QED
  BY <1>1, <1>2, <1>3, <1>4 DEF InOrder

\* What is flushed, and what is closed, stays in order.
LEMMA FlushedOrdered ==
  ASSUME StreamInv, ~closed
  PROVE  LET w == Stream!Flushed(Stream!Stream) IN Fits(w) /\ Ordered(half, w, sequence)
<1> DEFINE s == Stream!Stream
           w == Stream!Flushed(s)
<1>1. Fits(s) /\ s \in Streams /\ Len(s.wire) <= Room /\ ~s.closed /\ Ordered(half, s, sequence)
  BY DEF StreamInv, StreamTyped, InOrder, Fits, Stream!Stream
<1> HIDE DEF s
<1>2. /\ w \in Streams /\ w.closed = s.closed /\ Len(w.wire) <= Room
      /\ Len(w.out) <= Len(s.out) /\ w.wire \o w.out = s.wire \o s.out
  BY <1>1, FlushIs
<1> HIDE DEF w
<1>3. Len(w.out) \in Nat /\ Len(s.out) \in Nat /\ Len(s.out) <= MaxBacklog
  BY <1>1, <1>2 DEF Streams, Fits
<1>4. Fits(w)
  BY <1>2, <1>3, StreamAssumption DEF Fits
<1>5. Ordered(half, w, sequence)
  BY <1>1, <1>2 DEF Ordered, Ahead
<1> QED
  BY <1>4, <1>5 DEF w, s

\* A stream that is closed is in order, whatever was in it.
LEMMA ClosedOrdered ==
  ASSUME NEW s, NEW h, NEW q
  PROVE  Fits(Stream!Closed(s)) /\ Ordered(h, Stream!Closed(s), q)
<1>1. <<>> \in Seq(Halves) /\ Len(<<>>) = 0
  OBVIOUS
<1> QED
  BY <1>1, StreamAssumption DEF Fits, Streams, Stream!Closed, Ordered

\* A reply or a report leaves the stream in order.
LEMMA OtherOrdered ==
  ASSUME StreamInv, ~closed, NEW a \in {"reply", "report"}
  PROVE  LET w == Stream!Queued(Stream!Stream, <<a, 0>>) IN Fits(w) /\ Ordered(half, w, sequence)
<1>1. sequence \in [Stream!Tracks -> Nat]
  BY StreamAssumption DEF StreamInv, StreamTyped
<1> QED
  BY <1>1, OtherQueued DEF StreamInv, StreamTyped, InOrder

\* Requests, reports and the loop's callbacks.
LEMMA CallbackKeeps ==
  ASSUME StreamInv, UNCHANGED transport,
         \/ \E t \in Stream!Tracks : Stream!Report(t)
         \/ Stream!Play \/ Stream!Pause \/ Stream!Writable \/ Stream!PeerGone
  PROVE  StreamInv'
<1>1. ~closed /\ UNCHANGED <<seen, sequence, counted>>
  BY DEF Stream!Report, Stream!Play, Stream!Pause, Stream!Writable, Stream!PeerGone
<1>2. \E w : /\ Fits(w) /\ Ordered(half, w, sequence)
             /\ output' = w.out /\ wire' = w.wire /\ closed' = w.closed
             /\ half' = IF w.closed THEN <<>> ELSE half
  <2>1. CASE \E t \in Stream!Tracks : Stream!Report(t)
    BY <1>1, <2>1, OtherOrdered DEF Stream!Report, Stream!SetStream
  <2>2. CASE Stream!Play \/ Stream!Pause
    BY <1>1, <2>2, OtherOrdered DEF Stream!Play, Stream!Pause
  <2>3. CASE Stream!Writable
    BY <1>1, <2>3, FlushedOrdered DEF Stream!Writable, Stream!SetStream
  <2>4. CASE Stream!PeerGone
    BY <1>1, <2>4, ClosedOrdered DEF Stream!PeerGone, Stream!SetStream
  <2> QED
    BY <2>1, <2>2, <2>3, <2>4
<1>3. /\ Fits(Stream!Stream)' /\ half' \in Seq(Halves) /\ Len(half') <= 1 /\ closed' \in BOOLEAN
      /\ InOrder'
  BY <1>1, <1>2, BecomesOrdered
<1>4. playing' \in BOOLEAN /\ armed' \in BOOLEAN
  BY DEF StreamInv, StreamTyped, Stream!Report, Stream!Play, Stream!Pause, Stream!Writable, Stream!PeerGone,
     Stream!SetStream, Stream!Rearm
<1>5. \/ UNCHANGED <<awaiting, timestamp, sent, opening>>
      \/ /\ awaiting' = TRUE /\ opening' = "none"
         /\ timestamp' = [t \in Stream!Tracks |-> -1] /\ sent' = [t \in Stream!Tracks |-> -1]
  BY DEF Stream!Report, Stream!Play, Stream!Pause, Stream!Writable, Stream!PeerGone, Stream!clockVars,
     Stream!Never
<1>6. StreamTyped'
  BY <1>1, <1>3, <1>4, <1>5 DEF StreamInv, StreamTyped, Last
<1>7. Opening' /\ Clocks'
  <2>1. CASE UNCHANGED <<awaiting, timestamp, sent, opening>>
    BY <2>1 DEF StreamInv, Opening, Clocks
  <2>2. CASE /\ awaiting' = TRUE /\ opening' = "none"
             /\ timestamp' = [t \in Stream!Tracks |-> -1] /\ sent' = [t \in Stream!Tracks |-> -1]
    BY <2>2 DEF Opening, Clocks
  <2> QED
    BY <1>5, <2>1, <2>2
<1> QED
  BY <1>3, <1>6, <1>7 DEF StreamInv

\* A packet is sent.
LEMMA SendKeeps ==
  ASSUME StreamInv, UNCHANGED transport, NEW t \in Stream!Tracks, NEW time \in 0 .. MaxTime,
         NEW key \in BOOLEAN, NEW n \in 1 .. MaxFragments, Stream!SendFrame(t, time, key, n)
  PROVE  StreamInv'
<1>1. /\ ~closed /\ ~Stream!AwaitsKey(t, key) /\ Stream!SendRtp(t, n)
      /\ awaiting' = (awaiting /\ t # "video")
      /\ timestamp' = [timestamp EXCEPT ![t] = Stamped(time)]
      /\ sent' = [sent EXCEPT ![t] = time]
      /\ opening' = IF t = "video" /\ opening = "none" THEN (IF key THEN "key" ELSE "delta") ELSE opening
      /\ UNCHANGED <<armed, seen>>
  BY DEF Stream!SendFrame, Stream!Stamp, Stamped
<1>2. time \in Nat /\ time # -1 /\ n \in Nat /\ Modulus \in Nat \ {0, 1} /\ SeqModulus \in Nat \ {0}
  BY StreamAssumption
<1>3. Stamped(time) \in 1 .. Modulus - 1
  <2>1. time % Modulus \in 0 .. Modulus - 1
    BY <1>2, Quotient
  <2> QED
    BY <1>2, <2>1 DEF Stamped
<1>4. \A k \in Nat : (sequence[t] + k) % SeqModulus \in 0 .. SeqModulus - 1
  <2> TAKE k \in Nat
  <2>1. sequence[t] + k \in Int
    BY DEF StreamInv, StreamTyped
  <2> QED
    BY <1>2, <2>1, Quotient
<1>5. /\ Fits(Stream!Stream)' /\ half' \in Seq(Halves) /\ Len(half') <= 1 /\ closed' \in BOOLEAN
      /\ InOrder' /\ playing' \in BOOLEAN
      /\ sequence' \in [Stream!Tracks -> 0 .. SeqModulus - 1] /\ counted' \in [Stream!Tracks -> BOOLEAN]
  <2>1. CASE t \in Stream!Tcp
    <3> DEFINE w == Stream!RtpQueued(t, n)
               q == [sequence EXCEPT ![t] = (sequence[t] + n) % SeqModulus]
    <3>1. Fits(w) /\ Ordered(half, w, q)
      BY <1>2, <2>1, FrameQueued DEF StreamInv, StreamTyped, InOrder
    <3>2. /\ output' = w.out /\ wire' = w.wire /\ closed' = w.closed
          /\ half' = IF w.closed THEN <<>> ELSE half
          /\ sequence' = q /\ playing' \in BOOLEAN /\ counted' = [counted EXCEPT ![t] = TRUE]
      BY <1>1, <2>1 DEF Stream!SendRtp, Stream!SetStream
    <3>3. q \in [Stream!Tracks -> 0 .. SeqModulus - 1]
      BY <1>2, <1>4 DEF StreamInv, StreamTyped
    <3> HIDE DEF w, q
    <3>4. /\ Fits(Stream!Stream)' /\ half' \in Seq(Halves) /\ Len(half') <= 1 /\ closed' \in BOOLEAN
          /\ InOrder'
      BY <1>1, <3>1, <3>2, BecomesOrdered
    <3> QED
      BY <3>2, <3>3, <3>4 DEF StreamInv, StreamTyped
  <2>2. CASE t \notin Stream!Tcp
    <3>1. PICK k \in 0 .. n : /\ sequence' = [sequence EXCEPT ![t] = (sequence[t] + k) % SeqModulus]
                              /\ counted' = [counted EXCEPT ![t] = counted[t] \/ k > 0]
                              /\ UNCHANGED <<playing, output, wire, closed, half>>
      BY <1>1, <2>2 DEF Stream!SendRtp
    <3>2. sequence' \in [Stream!Tracks -> 0 .. SeqModulus - 1] /\ counted' \in [Stream!Tracks -> BOOLEAN]
      <4>1. (sequence[t] + k) % SeqModulus \in 0 .. SeqModulus - 1
        BY <1>2, <1>4
      <4>2. sequence' \in [Stream!Tracks -> 0 .. SeqModulus - 1]
        BY <3>1, <4>1 DEF StreamInv, StreamTyped
      <4>3. (counted[t] \/ k > 0) \in BOOLEAN
        OBVIOUS
      <4>4. counted' \in [Stream!Tracks -> BOOLEAN]
        BY <3>1, <4>3, Zenon DEF StreamInv, StreamTyped
      <4> QED
        BY <4>2, <4>4
    <3>3. Fits(Stream!Stream) /\ Ordered(half, Stream!Stream, sequence')
      BY <2>2, <3>1 DEF StreamInv, StreamTyped, InOrder, Ordered, Stream!Tcp
    <3>4. /\ Fits(Stream!Stream)' /\ half' \in Seq(Halves) /\ Len(half') <= 1 /\ closed' \in BOOLEAN
          /\ InOrder'
      <4> DEFINE w == Stream!Stream
                 q == sequence'
      <4>1. /\ Fits(w) /\ Ordered(half, w, q)
            /\ output' = w.out /\ wire' = w.wire /\ closed' = w.closed
            /\ half' = (IF w.closed THEN <<>> ELSE half) /\ sequence' = q
        BY <1>1, <3>1, <3>3 DEF Stream!Stream
      <4> HIDE DEF w, q
      <4> QED
        BY <1>1, <4>1, BecomesOrdered
    <3> QED
      BY <3>1, <3>2, <3>4 DEF StreamInv, StreamTyped
  <2> QED
    BY <2>1, <2>2
<1>6. StreamTyped'
  <2>1. /\ timestamp' \in [Stream!Tracks -> {-1} \cup 1 .. Modulus - 1] /\ sent' \in [Stream!Tracks -> Last]
    BY <1>1, <1>2, <1>3 DEF StreamInv, StreamTyped, Last
  <2>2. awaiting' \in BOOLEAN /\ armed' \in BOOLEAN /\ opening' \in {"none", "key", "delta"}
        /\ seen' \in [Stream!Tracks -> Last] /\ transport' \in Setups
    BY <1>1 DEF StreamInv, StreamTyped
  <2> QED
    BY <1>5, <2>1, <2>2 DEF StreamTyped
<1>7. Opening'
  BY <1>1 DEF StreamInv, StreamTyped, Opening, Stream!AwaitsKey
<1>8. Clocks'
  BY <1>1, <1>2 DEF StreamInv, StreamTyped, Clocks, Stamped
<1> QED
  BY <1>5, <1>6, <1>7, <1>8 DEF StreamInv

\* Half a message goes from the kernel to the client.
LEMMA ReadIs ==
  ASSUME NEW h \in Seq(Halves), Len(h) <= 1, NEW p \in Seq(Halves), NEW o \in Seq(Halves), p # <<>>
  PROVE  /\ Tail(p) \in Seq(Halves) /\ Len(Tail(p)) = Len(p) - 1 /\ Head(p) \in Halves
         /\ h = <<>> => <<Head(p)>> \o (Tail(p) \o o) = h \o (p \o o)
         /\ h # <<>> => /\ Shorter(h \o (p \o o), <<>> \o (Tail(p) \o o))
                        /\ (h \o (p \o o))[2] = Head(p)
<1>1. /\ Tail(p) \in Seq(Halves) /\ Len(Tail(p)) = Len(p) - 1 /\ Head(p) \in Halves
      /\ Len(p) \in Nat \ {0} /\ Head(p) = p[1] /\ \A i \in 1 .. Len(p) - 1 : Tail(p)[i] = p[i + 1]
  OBVIOUS
<1>2. <<Head(p)>> \in Seq(Halves) /\ Len(<<Head(p)>>) = 1 /\ <<Head(p)>>[1] = p[1]
  BY <1>1
<1>3. <<Head(p)>> \o Tail(p) = p
  <2> DEFINE a == <<Head(p)>>
             b == Tail(p)
  <2>1. a \in Seq(Halves) /\ b \in Seq(Halves)
    BY <1>1, <1>2
  <2>2. Len(a) = 1 /\ Len(b) = Len(p) - 1 /\ a[1] = p[1] /\ \A i \in 1 .. Len(p) - 1 : b[i] = p[i + 1]
    BY <1>1, <1>2
  <2> HIDE DEF a, b
  <2>3. a \o b \in Seq(Halves) /\ Len(a \o b) = Len(p)
    <3>1. a \o b \in Seq(Halves) /\ Len(a \o b) = Len(a) + Len(b)
      BY <2>1, Joined
    <3> QED
      BY <1>1, <2>2, <3>1
  <2>4. ASSUME NEW i \in 1 .. Len(p) PROVE (a \o b)[i] = p[i]
    <3>1. i \in 1 .. Len(a) + Len(b)
      BY <1>1, <2>2
    <3>2. (a \o b)[i] = IF i <= Len(a) THEN a[i] ELSE b[i - Len(a)]
      BY <2>1, <3>1, JoinedAt
    <3> QED
      BY <1>1, <2>2, <3>2
  <2>5. a \o b = p
    BY <2>3, <2>4, SeqEqual
  <2> QED
    BY <2>5 DEF a, b
<1>4. ASSUME h = <<>> PROVE <<Head(p)>> \o (Tail(p) \o o) = h \o (p \o o)
  <2>1. <<Head(p)>> \o (Tail(p) \o o) = p \o o
    BY <1>1, <1>2, <1>3, JoinedTwice
  <2>2. p \o o \in Seq(Halves)
    BY Joined
  <2> QED
    BY <1>4, <2>1, <2>2, ConcatEmptySeq
<1>5. ASSUME h # <<>>
      PROVE  /\ Shorter(h \o (p \o o), <<>> \o (Tail(p) \o o))
             /\ (h \o (p \o o))[2] = Head(p)
  <2> DEFINE y == p \o o
             z == Tail(p) \o o
  <2>1. Len(h) = 1
    <3>1. Len(h) \in Nat \ {0}
      BY <1>5, EmptySeq
    <3>2. \A x \in Nat \ {0} : x <= 1 => x = 1
      OBVIOUS
    <3> QED
      BY <3>1, <3>2
  <2>2. y \in Seq(Halves) /\ Len(y) = Len(p) + Len(o) /\ z \in Seq(Halves) /\ Len(z) = Len(Tail(p)) + Len(o)
    BY <1>1, Joined
  <2>3. Len(o) \in Nat
    OBVIOUS
  <2>4. ASSUME NEW i \in 1 .. Len(p) + Len(o) PROVE y[i] = IF i <= Len(p) THEN p[i] ELSE o[i - Len(p)]
    BY JoinedAt
  <2>5. ASSUME NEW i \in 1 .. Len(Tail(p)) + Len(o)
        PROVE  z[i] = IF i <= Len(Tail(p)) THEN Tail(p)[i] ELSE o[i - Len(Tail(p))]
    BY <1>1, JoinedAt
  <2> HIDE DEF y, z
  <2>6. Len(y) = Len(z) + 1 /\ \A i \in 1 .. Len(z) : z[i] = y[i + 1]
    <3>1. Len(y) = Len(z) + 1 /\ Len(z) = Len(p) - 1 + Len(o)
      BY <1>1, <2>2, <2>3
    <3>2. ASSUME NEW i \in 1 .. Len(z) PROVE z[i] = y[i + 1]
      <4>1. /\ i \in 1 .. Len(Tail(p)) + Len(o) /\ i + 1 \in 1 .. Len(p) + Len(o)
            /\ (i <= Len(Tail(p)) <=> i + 1 <= Len(p)) /\ i - Len(Tail(p)) = i + 1 - Len(p)
            /\ (i <= Len(Tail(p)) => i \in 1 .. Len(p) - 1)
        BY <1>1, <2>3, <3>1
      <4>2. z[i] = IF i <= Len(Tail(p)) THEN Tail(p)[i] ELSE o[i - Len(Tail(p))]
        BY <2>5, <4>1
      <4>3. y[i + 1] = IF i + 1 <= Len(p) THEN p[i + 1] ELSE o[i + 1 - Len(p)]
        BY <2>4, <4>1
      <4>4. i <= Len(Tail(p)) => Tail(p)[i] = p[i + 1]
        BY <1>1, <4>1
      <4> QED
        BY <4>1, <4>2, <4>3, <4>4
    <3> QED
      BY <3>1, <3>2
  <2>7. y[1] = Head(p)
    BY <1>1, <2>3, <2>4
  <2>8. h \o y \in Seq(Halves) /\ Len(h \o y) = Len(h) + Len(y) /\ <<>> \o z = z /\ Len(y) \in Nat
    <3>1. <<>> \o z = z
      BY <2>2, ConcatEmptySeq
    <3>2. h \o y \in Seq(Halves) /\ Len(h \o y) = Len(h) + Len(y)
      BY <2>2, Joined
    <3>3. Len(y) \in Nat
      BY <2>2
    <3> QED
      BY <3>1, <3>2, <3>3
  <2>9. ASSUME NEW i \in 1 .. Len(y) PROVE (h \o y)[i + 1] = y[i]
    <3>1. i + 1 \in 1 .. Len(h) + Len(y) /\ ~(i + 1 <= Len(h)) /\ i + 1 - Len(h) = i
      BY <2>1, <2>8
    <3>2. (h \o y)[i + 1] = IF i + 1 <= Len(h) THEN h[i + 1] ELSE y[i + 1 - Len(h)]
      BY <2>2, <3>1, JoinedAt
    <3> QED
      BY <3>1, <3>2
  <2>10. Shorter(h \o y, z)
    <3>1. Len(h \o y) = Len(z) + 2
      BY <2>1, <2>6, <2>8, <2>2
    <3>2. ASSUME NEW i \in 1 .. Len(z) PROVE z[i] = (h \o y)[i + 2]
      <4>1. i + 1 \in 1 .. Len(y) /\ i + 1 + 1 = i + 2
        BY <2>6, <2>8, <2>2
      <4>2. (h \o y)[i + 1 + 1] = y[i + 1]
        BY <2>9, <4>1
      <4> QED
        BY <2>6, <4>1, <4>2
    <3> QED
      BY <3>1, <3>2 DEF Shorter
  <2>11. (h \o y)[2] = Head(p)
    <3>1. 1 \in 1 .. Len(y) /\ 1 + 1 = 2
      BY <1>1, <2>2, <2>3
    <3>2. (h \o y)[1 + 1] = y[1]
      BY <2>9, <3>1
    <3> QED
      BY <2>7, <3>1, <3>2
  <2> QED
    BY <2>8, <2>10, <2>11 DEF y, z
<1> QED
  BY <1>1, <1>4, <1>5

\* The client reads.
LEMMA ReadKeeps ==
  ASSUME StreamInv, UNCHANGED transport, Stream!ClientReads
  PROVE  StreamInv'
<1> DEFINE h == Head(wire)
           a == Ahead(half, Stream!Stream)
           b == Ahead(half', Stream!Stream')
<1>1. /\ ~closed /\ wire # <<>> /\ wire' = Tail(wire)
      /\ IF half = <<>> THEN half' = <<h>> /\ UNCHANGED seen
         ELSE /\ half' = <<>>
              /\ seen' = IF h[1] \in Stream!Tcp THEN [seen EXCEPT ![h[1]] = h[2]] ELSE seen
      /\ UNCHANGED <<playing, awaiting, timestamp, sent, sequence, counted, output, armed, closed, opening>>
  BY DEF Stream!ClientReads, Stream!clockVars
<1>2. /\ half \in Seq(Halves) /\ Len(half) <= 1 /\ wire \in Seq(Halves) /\ output \in Seq(Halves)
      /\ Len(output) <= MaxBacklog /\ Len(wire) <= Room /\ seen \in [Stream!Tracks -> Last]
      /\ sequence \in [Stream!Tracks -> Nat]
  BY StreamAssumption DEF StreamInv, StreamTyped, Fits, Streams, Stream!Stream
<1>3. /\ Tail(wire) \in Seq(Halves) /\ Len(Tail(wire)) = Len(wire) - 1 /\ h \in Halves
      /\ half = <<>> => <<h>> \o (Tail(wire) \o output) = half \o (wire \o output)
      /\ half # <<>> => /\ Shorter(half \o (wire \o output), <<>> \o (Tail(wire) \o output))
                        /\ (half \o (wire \o output))[2] = h
  BY <1>1, <1>2, ReadIs
<1>4. a = half \o (wire \o output) /\ b = half' \o (Tail(wire) \o output)
  BY <1>1 DEF Ahead, Stream!Stream
<1>5. half' \in Seq(Halves) /\ Len(half') <= 1 /\ Len(wire) \in Nat
  <2>1. <<>> \in Seq(Halves) /\ Len(<<>>) = 0 /\ <<h>> \in Seq(Halves) /\ Len(<<h>>) = 1
    BY <1>3
  <2>2. half' = <<>> \/ half' = <<h>>
    BY <1>1
  <2>3. half' \in Seq(Halves) /\ Len(half') <= 1
    <3>1. CASE half' = <<>>
      BY <2>1, <3>1
    <3>2. CASE half' = <<h>>
      BY <2>1, <3>2
    <3> QED
      BY <2>2, <3>1, <3>2
  <2>4. Len(wire) \in Nat
    BY <1>2
  <2> QED
    BY <2>3, <2>4
<1>6. a \in Seq(Halves) /\ b \in Seq(Halves)
  <2>1. wire \o output \in Seq(Halves) /\ Tail(wire) \o output \in Seq(Halves)
    BY <1>2, <1>3, Joined
  <2> QED
    BY <1>2, <1>4, <1>5, <2>1, Joined
<1>7. Stream!Whole(a) /\ \A u \in Stream!Tcp : Stream!Chained(a, u, seen[u], sequence[u])
  BY <1>1 DEF StreamInv, InOrder, Ordered, Stream!Stream
<1>8. h[1] \in {"video", "audio", "reply", "report"} /\ h[2] \in Nat
  BY <1>3 DEF Halves
<1> HIDE DEF h, a, b
<1>9. seen' \in [Stream!Tracks -> Last]
  BY <1>1, <1>2, <1>8 DEF Last
<1>10. Stream!Whole(b) /\ \A u \in Stream!Tcp : Stream!Chained(b, u, seen'[u], sequence[u])
  <2>1. CASE half = <<>>
    <3>1. a = b /\ seen' = seen
      BY <1>1, <1>3, <1>4, <2>1
    <3> QED
      BY <1>7, <3>1
  <2>2. CASE half # <<>>
    <3>1. Shorter(a, b) /\ a[2] = h
      BY <1>1, <1>3, <1>4, <2>2
    <3>2. Stream!Whole(b)
      BY <1>6, <1>7, <3>1, WholeShorter
    <3>3. ASSUME NEW u \in Stream!Tcp PROVE Stream!Chained(b, u, seen'[u], sequence[u])
      <4>1. u \in Stream!Tracks /\ seen[u] \in Last /\ sequence[u] \in Nat
        BY <1>2 DEF Stream!Tcp
      <4>2. Stream!Chained(a, u, seen[u], sequence[u])
        BY <1>7
      <4>3. /\ h[1] # u => Stream!Chained(b, u, seen[u], sequence[u])
            /\ h[1] = u => Stream!Chained(b, u, h[2], sequence[u])
        BY <1>6, <1>7, <3>1, <4>1, <4>2, ChainShorter
      <4>4. seen'[u] = IF h[1] = u THEN h[2] ELSE seen[u]
        BY <1>1, <1>2, <2>2, <4>1
      <4> QED
        BY <4>3, <4>4
    <3> QED
      BY <3>2, <3>3
  <2> QED
    BY <2>1, <2>2
<1>11. Fits(Stream!Stream)'
  <2>1. wire' \in Seq(Halves) /\ Len(wire') <= Room /\ output' \in Seq(Halves) /\ Len(output') <= MaxBacklog
        /\ closed' \in BOOLEAN
    BY <1>1, <1>2, <1>3, <1>5, StreamAssumption DEF StreamInv, StreamTyped
  <2> QED
    BY <2>1 DEF Fits, Streams, Stream!Stream
<1>12. InOrder'
  <2>1. Stream!Tcp' = Stream!Tcp /\ ~Stream!Stream'.closed /\ sequence' = sequence
    BY <1>1 DEF Stream!Tcp, Stream!Stream
  <2>2. Ordered(half, Stream!Stream, sequence)' <=>
          /\ Stream!Stream'.closed => Stream!Stream'.wire = <<>> /\ Stream!Stream'.out = <<>>
          /\ ~Stream!Stream'.closed =>
               Stream!Whole(Ahead(half', Stream!Stream')) /\ \A u \in Stream!Tcp' :
                 Stream!Chained(Ahead(half', Stream!Stream'), u, seen'[u], sequence'[u])
    BY DEF Ordered, Ahead, Stream!Whole, Stream!Chained, Stream!Marks, Stream!Number
  <2>3. Ordered(half, Stream!Stream, sequence)'
    BY <1>10, <2>1, <2>2 DEF b
  <2> QED
    BY <1>1, <2>3 DEF InOrder
<1>13. StreamTyped'
  BY <1>1, <1>5, <1>9, <1>11 DEF StreamInv, StreamTyped
<1>14. Opening' /\ Clocks'
  BY <1>1 DEF StreamInv, Opening, Clocks
<1> QED
  BY <1>12, <1>13, <1>14 DEF StreamInv

\* How far a stamp is ahead of another.
LEMMA Distance ==
  ASSUME NEW m \in Nat \ {0}, NEW k \in Int, NEW e \in Int
  PROVE  /\ 0 <= e /\ e < m => (e - m * k) % m = e
         /\ e < 0 /\ 0 <= e + m => (e - m * k) % m = e + m
<1>1. CASE 0 <= e /\ e < m
  <2>1. e \in 0 .. m - 1 /\ -k \in Int /\ m * (-k) + e = e - m * k
    BY <1>1
  <2>2. (m * (-k) + e) % m = e
    BY <2>1, Remainder
  <2> QED
    BY <1>1, <2>1, <2>2
<1>2. CASE e < 0 /\ 0 <= e + m
  <2>1. e + m \in 0 .. m - 1 /\ -k - 1 \in Int /\ m * (-k - 1) + (e + m) = e - m * k
    BY <1>2
  <2>2. (m * (-k - 1) + (e + m)) % m = e + m
    BY <2>1, Remainder
  <2> QED
    BY <1>2, <2>1, <2>2
<1> QED
  BY <1>1, <1>2

\* Within the window a packet is late exactly if it is older.
LEMMA LateIs ==
  ASSUME NEW s \in Nat, NEW time \in Nat, s - Stream!Window <= time, time <= s + Stream!Window, time # s
  PROVE  (Stream!Stamp(time) - Stamped(s)) % Modulus < Stream!Half <=> time > s
<1> DEFINE m == Modulus
           hf == Modulus \div 2
<1>1. m \in Nat \ {0, 1} /\ hf \in Nat /\ 2 * hf <= m
  BY StreamAssumption
<1>2. Stream!Window = hf - 1 /\ Stream!Half = hf /\ Stream!Stamp(time) = time % m
      /\ Stamped(s) = IF s % m = 0 THEN 1 ELSE s % m
  BY DEF Stream!Window, Stream!Half, Stream!Stamp, Stamped
<1> HIDE DEF hf, m
<1>3. m \in Nat \ {0} /\ s \in Int /\ time \in Int
  BY <1>1
<1>4. PICK p \in Int, r \in 0 .. m - 1 : s = m * p + r /\ s % m = r
  BY <1>3, Quotient, Zenon
<1>5. PICK q \in Int, u \in 0 .. m - 1 : time = m * q + u /\ time % m = u
  BY <1>3, Quotient, Zenon
<1> DEFINE e == time - s
           d == IF r = 0 THEN e - 1 ELSE e
           x == u - (IF r = 0 THEN 1 ELSE r)
           k == q - p
<1>6. e \in Int /\ d \in Int /\ -hf < e /\ e < hf /\ e # 0
  BY <1>1, <1>2
<1>7. u - r = e - m * k /\ k \in Int
  <2>1. e = (m * q + u) - (m * p + r)
    BY <1>4, <1>5
  <2>2. m * (q - p) = m * q - m * p
    BY <1>1
  <2> QED
    BY <1>1, <2>1, <2>2
<1>8. x = d - m * k /\ x \in Int /\ 0 <= d + m /\ d < m
  BY <1>1, <1>6, <1>7
<1> HIDE DEF e, d, x, k
<1>9. x % m = IF d >= 0 THEN d ELSE d + m
  <2>1. m \in Nat \ {0} /\ k \in Int /\ d \in Int
    BY <1>3, <1>6, <1>7
  <2>2. /\ 0 <= d /\ d < m => (d - m * k) % m = d
        /\ d < 0 /\ 0 <= d + m => (d - m * k) % m = d + m
    BY <2>1, Distance, Zenon
  <2>3. x = d - m * k /\ 0 <= d + m /\ d < m
    BY <1>8
  <2> DEFINE v == (d - m * k) % m
  <2>4. x % m = v
    BY <2>3
  <2> HIDE DEF v
  <2>5. 0 <= d => v = d
    BY <2>2, <2>3 DEF v
  <2>6. d < 0 => v = d + m
    BY <2>2, <2>3 DEF v
  <2> QED
    BY <2>1, <2>4, <2>5, <2>6
<1>10. (IF d >= 0 THEN d ELSE d + m) < hf <=> e > 0
  BY <1>1, <1>6 DEF d
<1>11. x = Stream!Stamp(time) - Stamped(s)
  BY <1>2, <1>4, <1>5 DEF x
<1>12. e > 0 <=> time > s
  BY DEF e
<1> QED
  BY <1>2, <1>9, <1>10, <1>11, <1>12 DEF m

\* At first nothing is ahead of the client.
LEMMA StreamInit == Stream!Init => StreamInv
<1> SUFFICES ASSUME Stream!Init PROVE StreamInv
  OBVIOUS
<1>1. <<>> \in Seq(Halves) /\ Len(<<>>) = 0 /\ <<>> \o (<<>> \o <<>>) = <<>>
  OBVIOUS
<1>2. 0 % 2 = 0
  BY Remainder
<1>3. Fits(Stream!Stream) /\ Ahead(half, Stream!Stream) = <<>> /\ half = <<>>
  <2>1. Stream!Stream = [out |-> <<>>, wire |-> <<>>, closed |-> FALSE] /\ half = <<>>
    BY DEF Stream!Init, Stream!Stream
  <2>2. Fits(Stream!Stream)
    BY <1>1, <2>1, StreamAssumption DEF Fits, Streams
  <2>3. Ahead(half, Stream!Stream) = <<>> \o (<<>> \o <<>>)
    BY <2>1 DEF Ahead
  <2> QED
    BY <1>1, <2>1, <2>2, <2>3
<1>4. Stream!Whole(<<>>)
  BY <1>1, <1>2 DEF Stream!Whole
<1>5. ASSUME NEW u \in Stream!Tcp PROVE Stream!Chained(<<>>, u, seen[u], sequence[u])
  <2>1. seen[u] = Stream!Never
    BY DEF Stream!Init, Stream!Tcp
  <2>2. Stream!Marks(<<>>, u, seen[u]) = {1}
    BY <1>1, <2>1 DEF Stream!Marks
  <2> QED
    BY <2>2 DEF Stream!Chained
<1>6. InOrder
  BY <1>3, <1>4, <1>5 DEF InOrder, Ordered, Stream!Init, Stream!Stream
<1>7. StreamTyped
  <2>1. half \in Seq(Halves) /\ Len(half) <= 1
    BY <1>1, <1>3
  <2>2. 0 \in 0 .. SeqModulus - 1
    BY StreamAssumption
  <2>3. /\ sequence \in [Stream!Tracks -> 0 .. SeqModulus - 1] /\ seen \in [Stream!Tracks -> Last]
        /\ counted \in [Stream!Tracks -> BOOLEAN] /\ sent \in [Stream!Tracks -> Last]
        /\ timestamp \in [Stream!Tracks -> {-1} \cup 1 .. Modulus - 1]
    BY <2>2 DEF Stream!Init, Stream!Never, Last
  <2> QED
    BY <1>3, <2>1, <2>3 DEF Stream!Init, StreamTyped
<1>8. Opening /\ Clocks
  BY DEF Stream!Init, Opening, Clocks, Stream!Never
<1> QED
  BY <1>6, <1>7, <1>8 DEF StreamInv

\* Every step of the connection keeps its stream in order.
LEMMA StreamNext == StreamInv /\ [Stream!Next]_streamVars => StreamInv'
<1> SUFFICES ASSUME StreamInv, [Stream!Next]_streamVars PROVE StreamInv'
  OBVIOUS
<1>1. CASE UNCHANGED streamVars
  <2>1. UNCHANGED <<Stream!Stream, Stream!Tcp>>
    BY <1>1 DEF streamVars, Stream!Stream, Stream!Tcp
  <2>2. Fits(Stream!Stream)' /\ half' = half /\ closed' = closed
    BY <1>1, <2>1 DEF streamVars, Fits, StreamInv, StreamTyped
  <2>3. InOrder'
    <3>1. UNCHANGED <<half, seen, sequence, closed>>
      BY <1>1 DEF streamVars
    <3>2. Ordered(half, Stream!Stream, sequence)' <=>
            /\ Stream!Stream'.closed => Stream!Stream'.wire = <<>> /\ Stream!Stream'.out = <<>>
            /\ ~Stream!Stream'.closed =>
                 Stream!Whole(Ahead(half', Stream!Stream')) /\ \A u \in Stream!Tcp' :
                   Stream!Chained(Ahead(half', Stream!Stream'), u, seen'[u], sequence'[u])
      BY DEF Ordered, Ahead, Stream!Whole, Stream!Chained, Stream!Marks, Stream!Number
    <3>3. Ordered(half, Stream!Stream, sequence)'
      BY <2>1, <3>1, <3>2 DEF StreamInv, InOrder, Ordered
    <3> QED
      BY <3>1, <3>3 DEF StreamInv, InOrder
  <2> QED
    BY <1>1, <2>2, <2>3 DEF streamVars, StreamInv, StreamTyped, Opening, Clocks
<1>2. CASE Stream!Next
  <2>1. Stream!Step /\ UNCHANGED transport
    BY <1>2 DEF Stream!Next
  <2>2. ASSUME NEW t \in Stream!Tracks, NEW time \in 0 .. MaxTime, NEW key \in BOOLEAN,
               NEW n \in 1 .. MaxFragments, Stream!SendFrame(t, time, key, n)
        PROVE  StreamInv'
    BY <2>1, <2>2, SendKeeps
  <2> QED
    BY <2>1, <2>2, CallbackKeeps, ReadKeeps DEF Stream!Step
<1> QED
  BY <1>1, <1>2

\* A packet in order is not late.
LEMMA InOrderInTime ==
  ASSUME StreamInv, NEW t \in Stream!Tracks, sent[t] # -1, NEW time \in Nat,
         sent[t] - Stream!Window <= time, time <= sent[t] + Stream!Window, time # sent[t]
  PROVE  Stream!NotLate(t, time) <=> time > sent[t]
<1>1. sent[t] \in Nat /\ timestamp[t] = Stamped(sent[t]) /\ timestamp[t] # -1
  <2>1. sent[t] \in Nat /\ timestamp[t] = Stamped(sent[t])
    BY DEF StreamInv, StreamTyped, Clocks, Last
  <2>2. sent[t] % Modulus \in 0 .. Modulus - 1
    BY <2>1, StreamAssumption
  <2> QED
    BY <2>1, <2>2 DEF Stamped
<1> DEFINE s == sent[t]
<1>2. s \in Nat /\ s - Stream!Window <= time /\ time <= s + Stream!Window /\ time # s
  BY <1>1
<1> HIDE DEF s
<1>3. (Stream!Stamp(time) - Stamped(s)) % Modulus < Stream!Half <=> time > s
  BY <1>2, LateIs
<1> QED
  BY <1>1, <1>3 DEF s, Stream!NotLate, Stream!Never

\* What the invariant says of a connection.
LEMMA StreamSays ==
  ASSUME StreamInv
  PROVE  /\ Stream!TypeOK /\ Stream!WholeMessages /\ Stream!ConsecutiveNumbers
         /\ Stream!OpensWithKeyFrame /\ Stream!InOrderIsSent
<1>1. /\ half \in Seq(Halves) /\ wire \in Seq(Halves) /\ output \in Seq(Halves)
      /\ Len(output) <= MaxBacklog /\ Len(wire) <= Room
      /\ closed => half = <<>> /\ wire = <<>> /\ output = <<>>
  BY DEF StreamInv, StreamTyped, Fits, Streams, InOrder, Ordered, Stream!Stream
<1>2. Stream!TypeOK
  BY <1>1 DEF StreamInv, StreamTyped, Stream!TypeOK, Stream!Never
<1>3. Stream!Pending = Ahead(half, Stream!Stream)
  BY <1>1, JoinedTwice DEF Ahead, Stream!Stream, Stream!Pending
<1>4. Stream!WholeMessages
  <2>1. CASE closed
    <3>1. <<>> \o (<<>> \o <<>>) = <<>> /\ Len(<<>>) = 0
      OBVIOUS
    <3>2. 0 % 2 = 0
      BY Remainder
    <3>3. Ahead(half, Stream!Stream) = <<>>
      BY <1>1, <2>1, <3>1 DEF Ahead, Stream!Stream
    <3> QED
      BY <1>3, <3>1, <3>2, <3>3 DEF Stream!WholeMessages, Stream!Whole
  <2>2. CASE ~closed
    BY <1>3, <2>2 DEF StreamInv, InOrder, Ordered, Stream!Stream, Stream!WholeMessages
  <2> QED
    BY <2>1, <2>2
<1>5. Stream!ConsecutiveNumbers
  BY <1>3 DEF StreamInv, InOrder, Ordered, Stream!Stream, Stream!ConsecutiveNumbers
<1>6. Stream!OpensWithKeyFrame
  BY DEF StreamInv, Opening, Stream!OpensWithKeyFrame
<1>7. Stream!InOrderIsSent
  <2>1. SUFFICES ASSUME NEW t \in Stream!Tracks, sent[t] # -1,
                        NEW time \in sent[t] + 1 .. sent[t] + Stream!Window
                 PROVE  Stream!NotLate(t, time)
    BY DEF Stream!InOrderIsSent, Stream!Never
  <2>2. sent[t] \in Nat /\ Stream!Window \in Int
    BY <2>1, StreamAssumption DEF StreamInv, StreamTyped, Last, Stream!Window, Stream!Half
  <2>3. /\ time \in Nat /\ sent[t] - Stream!Window <= time /\ time <= sent[t] + Stream!Window
        /\ time # sent[t] /\ time > sent[t]
    BY <2>1, <2>2
  <2> QED
    BY <2>1, <2>3, InOrderInTime
<1> QED
  BY <1>2, <1>4, <1>5, <1>6, <1>7

\* No step sends a packet that is older than the last one.
LEMMA StreamForward ==
  ASSUME StreamInv, Stream!Next, NEW t \in Stream!Tracks, sent[t] # -1, sent'[t] # -1
  PROVE  sent'[t] >= sent[t]
<1>1. sent[t] \in Nat /\ Stream!Window \in Int
  BY StreamAssumption DEF StreamInv, StreamTyped, Last, Stream!Window, Stream!Half
<1>2. ASSUME NEW v \in Stream!Tracks, NEW time \in 0 .. MaxTime, NEW key \in BOOLEAN,
             NEW n \in 1 .. MaxFragments, Stream!SendFrame(v, time, key, n)
      PROVE  sent'[t] >= sent[t]
  <2>1. /\ sent[v] # -1 => time \in sent[v] - Stream!Window .. sent[v] + Stream!Window
        /\ Stream!NotLate(v, time) /\ sent' = [sent EXCEPT ![v] = time]
    BY <1>2 DEF Stream!SendFrame, Stream!Never
  <2>2. CASE v = t /\ time # sent[t]
    <3>1. /\ time \in Nat /\ sent[t] - Stream!Window <= time /\ time <= sent[t] + Stream!Window
          /\ Stream!NotLate(t, time)
      BY <1>1, <2>1, <2>2
    <3>2. time > sent[t]
      BY <2>2, <3>1, InOrderInTime
    <3> QED
      BY <1>1, <2>1, <2>2, <3>2 DEF StreamInv, StreamTyped
  <2>3. CASE ~(v = t /\ time # sent[t])
    BY <1>1, <2>1, <2>3 DEF StreamInv, StreamTyped
  <2> QED
    BY <2>2, <2>3
<1>3. CASE \/ \E v \in Stream!Tracks : Stream!Report(v)
           \/ Stream!Pause \/ Stream!Writable \/ Stream!PeerGone \/ Stream!ClientReads
  BY <1>1, <1>3 DEF Stream!Report, Stream!Pause, Stream!Writable, Stream!PeerGone, Stream!ClientReads,
     Stream!clockVars
<1>4. CASE Stream!Play
  BY <1>4 DEF Stream!Play, Stream!Never
<1> QED
  BY <1>2, <1>3, <1>4 DEF Stream!Next, Stream!Step

\* The stream's invariant holds throughout.
LEMMA StreamAlways == Spec => []StreamInv
<1>1. Init => StreamInv
  BY StreamInit DEF Init
<1>2. StreamInv /\ [Next]_vars => StreamInv'
  <2> SUFFICES ASSUME StreamInv, [Next]_vars PROVE StreamInv'
    OBVIOUS
  <2>1. [Stream!Next]_streamVars
    BY DEF Next, vars
  <2> QED
    BY <2>1, StreamNext
<1> QED
  BY <1>1, <1>2, PTL DEF Spec

\* On a connection that is read slowly, every message stays whole, the packets of a
\* track keep consecutive numbers, a play opens with a key frame, and no packet in
\* order is dropped as a late one.
THEOREM StreamIsAlwaysWellFormed == Spec => []StreamWellFormed
<1>1. StreamInv => StreamWellFormed
  BY StreamSays DEF StreamWellFormed
<1> QED
  BY <1>1, StreamAlways, PTL

\* Within one PLAY the capture times of a track never go back, also where the
\* timestamp wraps.
THEOREM TimeGoesOn == Spec => NeverBackwards
<1>1. StreamInv /\ [Next]_vars =>
        [\A t \in Stream!Tracks : sent[t] # Stream!Never /\ sent'[t] # Stream!Never => sent'[t] >= sent[t]]_(Stream!vars)
  <2> SUFFICES ASSUME StreamInv, [Next]_vars, ~UNCHANGED Stream!vars,
                      NEW t \in Stream!Tracks, sent[t] # Stream!Never, sent'[t] # Stream!Never
               PROVE  sent'[t] >= sent[t]
    OBVIOUS
  <2>1. Stream!Next
    BY DEF Next, vars, streamVars, Stream!vars
  <2> QED
    BY <2>1, StreamForward DEF Stream!Never
<1> QED
  BY <1>1, StreamAlways, PTL DEF Spec, NeverBackwards, Stream!NeverBackwards

\* Server and connection keep their types, the queued output its bound.
THEOREM TypesAlwaysOK == Spec => []TypesOK
<1>1. Init => ServerInv
  BY ServerInit DEF Init
<1>2. ServerInv /\ [Next]_vars => ServerInv'
  <2> SUFFICES ASSUME ServerInv, [Next]_vars PROVE ServerInv'
    OBVIOUS
  <2>1. [Server!Next]_serverVars
    BY DEF Next, vars
  <2> QED
    BY <2>1, ServerNext
<1>3. ServerInv /\ StreamInv => TypesOK
  BY ServerSays, StreamSays DEF TypesOK
<1> QED
  BY <1>1, <1>2, <1>3, StreamAlways, PTL DEF Spec

===============================================================================
