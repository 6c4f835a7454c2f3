------------------------------ MODULE RtspStream ------------------------------
(***************************************************************************)
(* SvcKit/protocols/rtsp: what one connection of the RtspServer sends      *)
(* (RtspServer.cpp): RTP packets of its tracks, sender reports and replies *)
(* share the TCP socket, the backlog output_ takes what the socket does    *)
(* not, and late packets are dropped by their 32-bit timestamps.           *)
(*                                                                         *)
(* A message on the TCP socket has two halves, so that a send can stop in  *)
(* its middle; wire is what the kernel holds until the client reads it.    *)
(* Capture times are naturals, timestamps are capture times modulo         *)
(* Modulus, as 32 bits are; the sequence numbers wrap at SeqModulus.       *)
(* Sessions and set-up are in RtspServer.                                  *)
(***************************************************************************)
EXTENDS Integers, Sequences, SequencesExt

CONSTANTS
  Setups,         \* the tracks with their transports that are tried
  MaxBacklog,     \* maximumBacklog_, in halves
  Room,           \* what the kernel takes for the socket, in halves
  MaxFragments,   \* bound on the RTP packets of a video frame
  Modulus, SeqModulus,
  MaxTime         \* bound on the capture times

Tracks == {"video", "audio"}
Half == Modulus \div 2
Never == -1

VARIABLES
  transport,   \* transport of each track, as SETUP has left it
  playing, awaiting,  \* playing_, awaitingKeyframe_
  timestamp,   \* lastTimestamp of each track, or Never: not initialised
  sequence,    \* sequence of each track
  counted,     \* packetCount # 0
  output,      \* output_: halves
  armed,       \* the loop waits for EPOLLOUT, too
  closed,      \* closed_
  wire,        \* halves in the kernel
  half,        \* the half of a message the client has, or <<>>
  sent,        \* history: the capture time of the last packet sent since PLAY
  opening,     \* history: what the first video packet since PLAY was
  seen         \* history: the last sequence number the client got on TCP

clockVars == <<timestamp, sent>>
vars == <<transport, playing, awaiting, timestamp, sequence, counted, output, armed, closed, wire,
          half, sent, opening, seen>>

Tcp == {t \in Tracks : transport[t] = "tcp"}

Init ==
  /\ transport \in Setups
  /\ playing = FALSE /\ awaiting = TRUE
  /\ timestamp = [t \in Tracks |-> Never] /\ sequence = [t \in Tracks |-> 0]
  /\ counted = [t \in Tracks |-> FALSE]
  /\ output = <<>> /\ armed = FALSE /\ closed = FALSE /\ wire = <<>> /\ half = <<>>
  /\ sent = [t \in Tracks |-> Never] /\ opening = "none"
  /\ seen = [t \in Tracks |-> Never]

-----------------------------------------------------------------------------
(* queue() and flush(), on a stream [out, wire, closed] *)

Stream == [out |-> output, wire |-> wire, closed |-> closed]

\* flush(): the kernel takes what it has room for.
Flushed(s) ==
  LET free == Room - Len(s.wire)
      n == IF Len(s.out) < free THEN Len(s.out) ELSE free IN
  [s EXCEPT !.wire = @ \o SubSeq(s.out, 1, n), !.out = SubSeq(@, n + 1, Len(@))]

Closed(s) == [out |-> <<>>, wire |-> <<>>, closed |-> TRUE]

\* The halves of message m, a name and a number.
Halves(m) == <<<<m[1], m[2], 1>>, <<m[1], m[2], 2>>>>

\* Mutant of Queued: what does not fit is cut off.
QueuedCut(s, m) ==
  IF s.closed THEN s
  ELSE LET all == s.out \o Halves(m) IN
       Flushed([s EXCEPT !.out = SubSeq(all, 1, IF Len(all) > MaxBacklog THEN MaxBacklog
                                                ELSE Len(all))])

\* Mutant of Queued: the limit is not looked at.
QueuedUnbounded(s, m) ==
  IF s.closed \/ Len(s.out) > 2 * MaxBacklog THEN Closed(s)
  ELSE Flushed([s EXCEPT !.out = @ \o Halves(m)])

\* queue() of message m; the backlog of a slow client closes its connection.
Queued(s, m) ==
  IF s.closed \/ Len(s.out) + 2 > MaxBacklog THEN Closed(s)
  ELSE Flushed([s EXCEPT !.out = @ \o Halves(m)])

SetStream(s) ==
  /\ output' = s.out /\ wire' = s.wire /\ closed' = s.closed
  /\ half' = IF s.closed THEN <<>> ELSE half
  /\ playing' = (playing /\ ~s.closed)

\* What n RTP packets of track t leave behind: packet i has number sequence + i.
RtpQueued(t, n) ==
  LET after[i \in 0 .. n] ==
        IF i = 0 THEN Stream
        ELSE Queued(after[i - 1], <<t, (sequence[t] + i - 1) % SeqModulus>>) IN
  after[n]

\* Mutant of SendRtp: the number of a packet is not given up.
SendRtpStuck(t, n) ==
  /\ SetStream(RtpQueued(t, n))
  /\ counted' = [counted EXCEPT ![t] = TRUE] /\ UNCHANGED sequence

\* sendRtp() for the n packets of a frame.  On TCP all are queued or the
\* connection closes; a datagram that cannot be sent ends the frame.
SendRtp(t, n) ==
  IF t \in Tcp
  THEN /\ SetStream(RtpQueued(t, n))
       /\ sequence' = [sequence EXCEPT ![t] = (@ + n) % SeqModulus]
       /\ counted' = [counted EXCEPT ![t] = TRUE]
  ELSE \E k \in 0 .. n :
       /\ sequence' = [sequence EXCEPT ![t] = (@ + k) % SeqModulus]
       /\ counted' = [counted EXCEPT ![t] = @ \/ k > 0]
       /\ UNCHANGED <<playing, output, wire, closed, half>>

-----------------------------------------------------------------------------
(* sendVideo(), sendAudio() *)

Stamp(time) == time % Modulus

\* Mutant of NotLate: timestamps are compared as numbers.
NotLatePlain(t, time) == timestamp[t] = Never \/ Stamp(time) >= timestamp[t]

\* Mutant of NotLate: nothing is late.
NotLateAny(t, time) == TRUE

\* The signed difference to the last timestamp is not negative.
NotLate(t, time) ==
  \/ timestamp[t] = Never
  \/ (Stamp(time) - timestamp[t]) % Modulus < Half

\* Mutant of AwaitsKey: a pending key frame is not waited for.
AwaitsKeyNot(t, key) == FALSE

AwaitsKey(t, key) == t = "video" /\ awaiting /\ ~key

\* The most by which a packet may be out of order.
Window == Half - 1

\* A packet captured at time, of n RTP packets, is sent unless it is late or a key
\* frame is waited for.
SendFrame(t, time, key, n) ==
  /\ playing /\ ~closed /\ transport[t] # "none"
  /\ sent[t] # Never => time \in sent[t] - Window .. sent[t] + Window
  /\ ~AwaitsKey(t, key) /\ NotLate(t, time)
  /\ t = "audio" => n = 1 /\ ~key
  /\ awaiting' = (awaiting /\ t # "video")
  /\ timestamp' = [timestamp EXCEPT ![t] = IF Stamp(time) = 0 THEN 1 ELSE Stamp(time)]
  /\ SendRtp(t, n)
  /\ sent' = [sent EXCEPT ![t] = time]
  /\ opening' = IF t = "video" /\ opening = "none" THEN (IF key THEN "key" ELSE "delta")
                ELSE opening
  /\ UNCHANGED <<armed, seen>>

\* Mutant of Report: a report waits until there is no backlog.
ReportDefers(t) ==
  /\ playing /\ ~closed /\ t \in Tcp /\ counted[t] /\ output = <<>>
  /\ SetStream(Queued(Stream, <<"report", 0>>))
  /\ UNCHANGED <<awaiting, clockVars, sequence, counted, armed, opening, seen>>

\* maintain() of a playing connection: a sender report of each track that has
\* sent something.
Report(t) ==
  /\ playing /\ ~closed /\ t \in Tcp /\ counted[t]
  /\ SetStream(Queued(Stream, <<"report", 0>>))
  /\ UNCHANGED <<awaiting, clockVars, sequence, counted, armed, opening, seen>>

-----------------------------------------------------------------------------
(* onReady() *)

\* rearm(): EPOLLOUT is waited for while there is a backlog.
Rearm(s) == armed' = (~s.closed /\ s.out # <<>>)

\* A request is answered; PLAY waits for a key frame and starts the clocks anew,
\* PAUSE stops.
Play ==
  /\ ~closed
  /\ LET s == Queued(Stream, <<"reply", 0>>) IN
     /\ output' = s.out /\ wire' = s.wire /\ closed' = s.closed /\ Rearm(s)
     /\ half' = IF s.closed THEN <<>> ELSE half
     /\ playing' = ~s.closed
  /\ awaiting' = TRUE /\ timestamp' = [t \in Tracks |-> Never]
  /\ sent' = [t \in Tracks |-> Never] /\ opening' = "none"
  /\ UNCHANGED <<sequence, counted, seen>>

Pause ==
  /\ ~closed /\ playing
  /\ LET s == Queued(Stream, <<"reply", 0>>) IN
     /\ output' = s.out /\ wire' = s.wire /\ closed' = s.closed /\ Rearm(s)
     /\ half' = IF s.closed THEN <<>> ELSE half
  /\ playing' = FALSE
  /\ UNCHANGED <<awaiting, clockVars, sequence, counted, opening, seen>>

\* The socket takes data again, or merely has some to read.
Writable ==
  /\ ~closed /\ armed /\ Len(wire) < Room
  /\ SetStream(Flushed(Stream)) /\ Rearm(Flushed(Stream))
  /\ UNCHANGED <<awaiting, clockVars, sequence, counted, opening, seen>>

PeerGone ==
  /\ ~closed /\ SetStream(Closed(Stream)) /\ armed' = FALSE
  /\ UNCHANGED <<awaiting, clockVars, sequence, counted, opening, seen>>

\* The client reads half a message.
ClientReads ==
  /\ ~closed /\ wire # <<>> /\ wire' = Tail(wire)
  /\ LET h == Head(wire) IN
     IF half = <<>> THEN half' = <<h>> /\ UNCHANGED seen
     ELSE /\ half' = <<>>
          /\ seen' = IF h[1] \in Tcp THEN [seen EXCEPT ![h[1]] = h[2]] ELSE seen
  /\ UNCHANGED <<playing, awaiting, clockVars, sequence, counted, output, armed, closed,
                 opening>>

Step ==
  \/ \E t \in Tracks, time \in 0 .. MaxTime, key \in BOOLEAN :
       \E n \in 1 .. MaxFragments : SendFrame(t, time, key, n)
  \/ \E t \in Tracks : Report(t)
  \/ Play \/ Pause \/ Writable \/ PeerGone \/ ClientReads

Next == Step /\ UNCHANGED transport

Spec == Init /\ [][Next]_vars

\* The timer runs, the loop handles events, and the client reads.
Fairness ==
  /\ WF_vars((\E t \in Tracks : Report(t)) /\ UNCHANGED transport)
  /\ WF_vars(Writable /\ UNCHANGED transport)
  /\ WF_vars(ClientReads /\ UNCHANGED transport)

-----------------------------------------------------------------------------
(* Correctness. *)

TypeOK ==
  /\ transport \in Setups /\ playing \in BOOLEAN /\ awaiting \in BOOLEAN /\ armed \in BOOLEAN /\ closed \in BOOLEAN
  /\ timestamp \in [Tracks -> {Never} \cup 1 .. Modulus - 1]
  /\ sequence \in [Tracks -> 0 .. SeqModulus - 1] /\ counted \in [Tracks -> BOOLEAN]
  /\ Len(output) <= MaxBacklog /\ Len(wire) <= Room
  /\ opening \in {"none", "key", "delta"}

\* All the client has not completely read.
Pending == half \o wire \o output

(* Reports, replies and packets of two tracks share the socket, sends stop *)
(* in the middle of a message: the client still reads whole messages.      *)
Whole(p) ==
  /\ Len(p) % 2 = 0
  /\ \A i \in 1 .. Len(p) :
       IF i % 2 = 1 THEN p[i][3] = 1 ELSE p[i] = <<p[i - 1][1], p[i - 1][2], 2>>
WholeMessages == Whole(Pending)

\* Where p has the numbers of track t, between the last one before it (place 0),
\* if there was one, and the next one after it.
Marks(p, t, last) ==
  {i \in 1 .. Len(p) : p[i][1] = t /\ p[i][3] = 2} \cup {Len(p) + 1}
    \cup (IF last = Never THEN {} ELSE {0})
Number(p, i, last, next) == IF i = 0 THEN last ELSE IF i = Len(p) + 1 THEN next ELSE p[i][2]
Chained(p, t, last, next) ==
  \A i, j \in Marks(p, t, last) :
    i < j /\ (\A k \in Marks(p, t, last) : k <= i \/ j <= k) =>
      Number(p, j, last, next) = (Number(p, i, last, next) + 1) % SeqModulus

(* The packets of a track reach a TCP client with consecutive numbers, up  *)
(* to the next one to be used: none is lost or repeated.                   *)
ConsecutiveNumbers ==
  ~closed => \A t \in Tcp : Chained(Pending, t, seen[t], sequence[t])

(* The first video packet a client gets after PLAY is a key frame.         *)
OpensWithKeyFrame == opening # "delta"

(* Across the wrap of the timestamp, the capture times a client gets never *)
(* go back within one PLAY...                                              *)
NeverBackwards ==
  [][\A t \in Tracks : sent[t] # Never /\ sent'[t] # Never => sent'[t] >= sent[t]]_vars

(* ...and no packet in order is taken for a late one, unless the two have  *)
(* the same timestamp: 0 stands for 1.                                     *)
InOrderIsSent ==
  \A t \in Tracks : sent[t] # Never =>
    \A time \in sent[t] + 1 .. sent[t] + Window : NotLate(t, time)

(* A client that has read all there was gets the rest of its backlog,      *)
(* although a send outside onReady() does not ask for EPOLLOUT: a report   *)
(* flushes it.                                                             *)
Starved == ~closed /\ output # <<>> /\ wire = <<>>
BacklogMoves == Starved ~> (~Starved \/ ~playing)
=============================================================================
