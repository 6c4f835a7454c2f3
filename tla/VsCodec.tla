------------------------------- MODULE VsCodec -------------------------------
(***************************************************************************)
(* platform/vendors/visinextek: one device of the VS816 codec HAL          *)
(* (codec_vs816.c, vs_venc_stream.c).  The encoder is made by start(), the *)
(* decoder by the first decode(), with or without an encoder; whichever    *)
(* comes first takes the device's one reference to the vendor's system.    *)
(* Calls are atomic; hw, blocks and the units are those of RkCodec.        *)
(***************************************************************************)
EXTENDS Integers

CONSTANT MaxSent   \* bound on the units handed in

Sides == {"enc", "dec"}

VARIABLES
  encoding, decoding, sys_acquired,
  orphaned,    \* a start() that failed gave the system up under a running decoder
  hw, refs, blocks,
  sent, fetched, got, floor
vars == <<encoding, decoding, sys_acquired, orphaned, hw, refs, blocks, sent, fetched, got, floor>>
units == <<sent, fetched, got, floor>>

\* open_device()
Init ==
  /\ encoding = FALSE /\ decoding = FALSE /\ sys_acquired = FALSE /\ orphaned = FALSE
  /\ hw = {} /\ refs = 0 /\ blocks = 0
  /\ sent = [s \in Sides |-> 0] /\ fetched = [s \in Sides |-> 0]
  /\ got = [s \in Sides |-> 0] /\ floor = [s \in Sides |-> 0]

Taken == IF sys_acquired THEN refs ELSE refs + 1

\* Mutant of Start: a failed start keeps its reference, and the next takes another.
StartKeepsReference(result) ==
  /\ ~encoding
  /\ \/ /\ result = "nosys" /\ ~sys_acquired
        /\ UNCHANGED <<encoding, sys_acquired, orphaned, hw, refs>>
     \/ /\ result = "failed" /\ refs' = Taken /\ sys_acquired' = FALSE /\ orphaned' = decoding
        /\ UNCHANGED <<encoding, hw>>
     \/ /\ result = "up" /\ refs' = Taken /\ sys_acquired' = TRUE /\ orphaned' = FALSE
        /\ encoding' = TRUE /\ hw' = hw \cup {"venc"}
  /\ UNCHANGED <<decoding, blocks, units>>

\* start(): an encoder that does not start gives the reference up, whoever took it.
Start(result) ==
  /\ ~encoding
  /\ \/ /\ result = "nosys" /\ ~sys_acquired
        /\ UNCHANGED <<encoding, sys_acquired, orphaned, hw, refs>>
     \/ /\ result = "failed" /\ refs' = Taken - 1 /\ sys_acquired' = FALSE
        /\ orphaned' = decoding /\ UNCHANGED <<encoding, hw>>
     \/ /\ result = "up" /\ refs' = Taken /\ sys_acquired' = TRUE /\ orphaned' = FALSE
        /\ encoding' = TRUE /\ hw' = hw \cup {"venc"}
  /\ UNCHANGED <<decoding, blocks, units>>

\* Mutant of Stop: only the encoder's channel is destroyed.
StopEncoder ==
  /\ encoding' = FALSE /\ decoding' = FALSE /\ orphaned' = FALSE
  /\ hw' = hw \ (IF encoding THEN {"venc"} ELSE {})
  /\ sys_acquired' = FALSE /\ refs' = IF sys_acquired THEN refs - 1 ELSE refs
  /\ fetched' = sent /\ floor' = sent /\ UNCHANGED <<blocks, sent, got>>

\* stop(), also from close_device()
Stop ==
  /\ encoding' = FALSE /\ decoding' = FALSE /\ orphaned' = FALSE
  /\ hw' = hw \ ((IF encoding THEN {"venc"} ELSE {}) \cup (IF decoding THEN {"vdec"} ELSE {}))
  /\ sys_acquired' = FALSE /\ refs' = IF sys_acquired THEN refs - 1 ELSE refs
  /\ fetched' = sent /\ floor' = sent /\ UNCHANGED <<blocks, sent, got>>

\* Mutant of Flush: the channels are restarted without being reset.
FlushRestarts ==
  /\ floor' = [s \in Sides |-> IF (s = "enc" /\ encoding) \/ (s = "dec" /\ decoding)
                               THEN sent[s] ELSE floor[s]]
  /\ UNCHANGED <<encoding, decoding, sys_acquired, orphaned, hw, refs, blocks, sent, got, fetched>>

\* flush(): each channel is stopped, reset and started.
Flush ==
  LET dropped == {s \in Sides : IF s = "enc" THEN encoding ELSE decoding} IN
  /\ fetched' = [s \in Sides |-> IF s \in dropped THEN sent[s] ELSE fetched[s]]
  /\ floor' = [s \in Sides |-> IF s \in dropped THEN sent[s] ELSE floor[s]]
  /\ UNCHANGED <<encoding, decoding, sys_acquired, orphaned, hw, refs, blocks, sent, got>>

-----------------------------------------------------------------------------
(* encode() and decode(); the outcomes are those of RkCodec, "unmapped" is a *)
(* block that cannot be mapped.                                             *)

\* Mutant of Owned: the block is released only after a frame was sent.
OwnedUnlessSent(outcome, own) == IF own /\ outcome \in {"unmapped", "refused"} THEN 1 ELSE 0

\* The blocks still held after the cleanup of encode().
Owned(outcome, own) == 0

Exchange(side, outcome) ==
  IF outcome \in {"noblock", "unmapped", "refused"} THEN UNCHANGED units
  ELSE /\ sent[side] < MaxSent
       /\ sent' = [sent EXCEPT ![side] = @ + 1] /\ UNCHANGED floor
       /\ fetched' = IF outcome = "late" THEN fetched ELSE [fetched EXCEPT ![side] = @ + 1]
       /\ got' = IF outcome = "returned" THEN [got EXCEPT ![side] = fetched[side] + 1] ELSE got

\* encode(); vs_venc_packet_acquire() polls the encoder, and releases the packet
\* it took also when that is too large or malformed.
Encode(outcome, own) ==
  /\ encoding /\ Exchange("enc", outcome)
  /\ outcome \in {"noblock", "unmapped"} => own
  /\ blocks' = blocks + Owned(outcome, own)
  /\ UNCHANGED <<encoding, decoding, sys_acquired, orphaned, hw, refs>>

\* decode(): the system and the decoder are each made when they are missing, also
\* the system under a decoder that has lost it.
Decode(outcome, made) ==
  /\ outcome \notin {"noblock", "unmapped"}
  /\ sys_acquired => made # "nosys"
  /\ decoding => made # "failed"
  /\ sys_acquired' = (made # "nosys") /\ refs' = IF made = "nosys" THEN refs ELSE Taken
  /\ orphaned' = (orphaned /\ made = "nosys")
  /\ decoding' = (decoding \/ made = "up") /\ hw' = IF made = "up" THEN hw \cup {"vdec"} ELSE hw
  /\ IF made = "up" THEN Exchange("dec", outcome) ELSE UNCHANGED units
  /\ UNCHANGED <<encoding, blocks>>

Outcomes == {"noblock", "unmapped", "refused", "late", "toosmall", "returned"}

Next ==
  \/ Stop \/ Flush
  \/ \E result \in {"nosys", "failed", "up"} :
       \/ Start(result)
       \/ \E outcome \in Outcomes : Decode(outcome, result)
  \/ \E outcome \in Outcomes, own \in BOOLEAN : Encode(outcome, own)

Spec == Init /\ [][Next]_vars

-----------------------------------------------------------------------------
(* Correctness. *)

(* The flags tell what is held: the one reference taken by either side is  *)
(* given back once, an encoder has its channel and the system, as has a    *)
(* decoder unless a failed start() of the encoder gave the system up under *)
(* it, and neither channel outlives a stop, nor a block its call.          *)
HoldsWhatItUses ==
  /\ hw = (IF encoding THEN {"venc"} ELSE {}) \cup (IF decoding THEN {"vdec"} ELSE {})
  /\ refs = IF sys_acquired THEN 1 ELSE 0
  /\ encoding => sys_acquired
  /\ decoding /\ ~orphaned => sys_acquired
  /\ blocks = 0

(* The promise of the interface: in order, once, nothing from before a     *)
(* stop() or a flush().  A device decodes also when it was not started.    *)
Contract == INSTANCE CodecContract WITH running <- encoding \/ decoding
ImplementsContract == Contract!Spec
===============================================================================
