----------------------------- MODULE SinkContract -----------------------------
(***************************************************************************)
(* What the media pipeline promises a Sink (media_video_sink.h,            *)
(* media_audio_sink.h): start() and stop() alternate, consume() is called  *)
(* one packet at a time between them, in the order of dispatch, and every  *)
(* packet taken over for the sink is consumed before stop() unless a full  *)
(* queue gave it up.                                                       *)
(***************************************************************************)
EXTENDS Integers, Sequences

CONSTANTS Sinks, Packets, Limit

VARIABLES session,   \* session[s]: the last of start()/stop() the sink saw
          pending,   \* packets taken over for the sink
          busy,      \* the sink is in consume()
          delivered  \* the last packet it was given

vars == <<session, pending, busy, delivered>>

Init ==
  /\ session = [s \in Sinks |-> "stopped"] /\ pending = [s \in Sinks |-> <<>>]
  /\ busy = [s \in Sinks |-> FALSE] /\ delivered = [s \in Sinks |-> 0]

Begin(s) ==
  /\ session[s] = "stopped" /\ ~busy[s]
  /\ session' = [session EXCEPT ![s] = "started"]
  /\ UNCHANGED <<pending, busy, delivered>>

\* A newer packet is taken over; a full queue gives up its oldest for it.
Offer(s) ==
  /\ \E p \in Packets, drop \in {0, 1} :
       LET kept == SubSeq(pending[s], drop + 1, Len(pending[s])) IN
         /\ drop = 1 => Len(pending[s]) = Limit
         /\ Len(kept) < Limit
         /\ p > delivered[s] /\ \A i \in 1 .. Len(kept) : p > kept[i]
         /\ pending' = [pending EXCEPT ![s] = Append(kept, p)]
  /\ UNCHANGED <<session, busy, delivered>>

Consume(s) ==
  /\ session[s] = "started" /\ ~busy[s] /\ pending[s] # <<>>
  /\ busy' = [busy EXCEPT ![s] = TRUE]
  /\ delivered' = [delivered EXCEPT ![s] = Head(pending[s])]
  /\ pending' = [pending EXCEPT ![s] = Tail(@)]
  /\ UNCHANGED session

Consumed(s) ==
  /\ busy[s] /\ busy' = [busy EXCEPT ![s] = FALSE]
  /\ UNCHANGED <<session, pending, delivered>>

End(s) ==
  /\ session[s] = "started" /\ ~busy[s] /\ pending[s] = <<>>
  /\ session' = [session EXCEPT ![s] = "stopped"]
  /\ UNCHANGED <<pending, busy, delivered>>

Next ==
  \E s \in Sinks : Begin(s) \/ Offer(s) \/ Consume(s) \/ Consumed(s) \/ End(s)

Spec == Init /\ [][Next]_vars
=============================================================================
