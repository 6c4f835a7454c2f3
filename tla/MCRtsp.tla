-------------------------------- MODULE MCRtsp --------------------------------
(* Model-checking instances of the modules of the RTSP server and of the   *)
(* conversions of what it sends.  They share no state, so one run checks    *)
(* them side by side: which says whose steps a behaviour takes, the others  *)
(* stay in their initial states.                                           *)
EXTENDS Integers, Sequences, FiniteSets

CONSTANTS
  Sinks, MaxConnections, EnableMulticast,                            \* RtspServer
  Setups, MaxBacklog, Room, MaxFragments, Modulus, SeqModulus, MaxTime   \* RtspStream

ASSUME ServerAssumption == IsFiniteSet(Sinks) /\ MaxConnections \in Nat
ASSUME StreamAssumption ==
  /\ Setups \subseteq [{"video", "audio"} -> {"tcp", "udp", "none"}]
  /\ MaxBacklog \in Nat /\ Room \in Nat /\ MaxFragments \in Nat /\ MaxTime \in Nat
  /\ Modulus \in Nat \ {0, 1} /\ SeqModulus \in Nat \ {0}

\* The transports of the instance for TLC.
TcpOrUdp == {[video |-> "tcp", audio |-> "tcp"], [video |-> "udp", audio |-> "none"]}

VARIABLES
  which,
  references, users, running, listening, timer, nextId, connections, state, watched,
  posted, owner,                                                   \* RtspServer
  transport, playing, awaiting, timestamp, sequence, counted, output, armed, closed,
  wire, half, sent, opening, seen,                                 \* RtspStream
  nals, codes, payloads,                                           \* H264RtpPacketizer
  pcmCodec, pcmFirst, pcmPacket, pcmFrame                          \* G711

serverVars == <<references, users, running, listening, timer, nextId, connections, state,
                watched, posted, owner>>
streamVars == <<transport, playing, awaiting, timestamp, sequence, counted, output, armed,
                closed, wire, half, sent, opening, seen>>
packetizerVars == <<nals, codes, payloads>>
toneVars == <<pcmCodec, pcmFirst, pcmPacket, pcmFrame>>
dataVars == <<packetizerVars, toneVars>>
vars == <<which, serverVars, streamVars, dataVars>>

Server == INSTANCE RtspServer
Stream == INSTANCE RtspStream
Packetizer == INSTANCE H264RtpPacketizer WITH
  Bytes <- {0, 1}, MaxUnit <- 5, MaxUnits <- 2, MaxPayload <- 3
Tone == INSTANCE G711 WITH
  Width <- 256, codec <- pcmCodec, first <- pcmFirst, packet <- pcmPacket, frame <- pcmFrame

Init ==
  /\ which \in {"server", "stream", "packetizer", "tone"}
  /\ Server!Init /\ Stream!Init /\ Tone!Init /\ (which # "tone" => pcmCodec = "pcm")
  /\ IF which = "packetizer" THEN Packetizer!Init
     ELSE nals = <<>> /\ codes = <<>> /\ payloads = <<>>

Next ==
  \/ /\ which = "server" /\ Server!Next /\ UNCHANGED <<which, streamVars, dataVars>>
  \/ /\ which = "stream" /\ Stream!Next /\ UNCHANGED <<which, serverVars, dataVars>>
  \/ /\ which = "packetizer" /\ Packetizer!Next /\ UNCHANGED <<which, serverVars, streamVars, toneVars>>
  \/ /\ which = "tone" /\ Tone!Next /\ UNCHANGED <<which, serverVars, streamVars, packetizerVars>>

Spec == Init /\ [][Next]_vars /\ Server!Fairness /\ Stream!Fairness

-----------------------------------------------------------------------------
(* Correctness: of each part what its module states. *)

(* Every variable keeps its type; the queued output keeps its bound. *)
TypesOK == Server!TypeOK /\ Stream!TypeOK

(* Whatever clients ask, fail or leave in the middle: a multicast group has *)
(* one publisher, a connection's fd is watched only while its connection    *)
(* lives, closed connections are erased, the server runs for its users, and *)
(* only a session that is set up plays.                                     *)
SessionsAgree ==
  /\ Server!OnePublisher /\ Server!NoDanglingCallback /\ Server!ClosedAreErased
  /\ Server!RunsForItsUsers /\ Server!PlaysInSession

(* On a TCP connection that is read slowly: whole interleaved messages,     *)
(* consecutive sequence numbers, a key frame first after every PLAY, and no *)
(* packet in order that is taken for a late one.                            *)
StreamWellFormed ==
  /\ Stream!WholeMessages /\ Stream!ConsecutiveNumbers
  /\ Stream!OpensWithKeyFrame /\ Stream!InOrderIsSent

(* What is sent comes out again: an access unit of its packets as it went   *)
(* in, with the marker bit on its last packet and no other; a sound of its  *)
(* codes within half a step, and the second time without any loss.          *)
DataComesBack ==
  /\ Packetizer!Reassembles /\ Packetizer!WellMarked
  /\ which = "tone" => Tone!ComesBackClose /\ Tone!SettlesAtOnce

(* Timestamps of a track go on, also over the wrap of 32 bits. *)
NeverBackwards == Stream!NeverBackwards

(* A session whose client has fallen silent ends, and output that was       *)
(* deferred goes out when the client reads.                                 *)
NobodyHangs == Server!SilentSessionsEnd /\ Stream!BacklogMoves
===============================================================================
