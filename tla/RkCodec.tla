------------------------------- MODULE RkCodec -------------------------------
(***************************************************************************)
(* platform/vendors/rockchip: one device of the RV1126B codec HAL          *)
(* (codec_rockchip.c).  start() makes the encoder, the first decode() the  *)
(* decoder; both take a unit with Send and fetch one with Get, each with a *)
(* timeout of its own, so that what is fetched is the oldest unit not yet  *)
(* fetched, and not always the one just sent (the streams have no frames    *)
(* out of order).  Calls are atomic.                                       *)
(*                                                                         *)
(* hw is what the vendor's layer holds for the device, blocks the blocks   *)
(* of its pools that it has not given back.                                *)
(***************************************************************************)
EXTENDS Integers

CONSTANT MaxSent   \* bound on the units handed in

Sides == {"enc", "dec"}

VARIABLES
  encoding, decoding, sys_acquired,
  hw, refs, blocks,
  sent, fetched,   \* units the vendor's channel has taken, and has given back
  got, floor       \* the last unit returned; where the run, or the flush, began
vars == <<encoding, decoding, sys_acquired, hw, refs, blocks, sent, fetched, got, floor>>
units == <<sent, fetched, got, floor>>

Encoder == <<"venc", "vencrecv", "rawpool">>
Decoder == <<"vdec", "vdecrecv", "streampool">>
Reached(steps, n) == {steps[i] : i \in 1 .. n}

\* rk_codec_open()
Init ==
  /\ encoding = FALSE /\ decoding = FALSE /\ sys_acquired = FALSE
  /\ hw = {} /\ refs = 0 /\ blocks = 0
  /\ sent = [s \in Sides |-> 0] /\ fetched = [s \in Sides |-> 0]
  /\ got = [s \in Sides |-> 0] /\ floor = [s \in Sides |-> 0]

\* Mutant of Create: a failure late keeps what came before.
CreateKeeps(steps, n) == Reached(steps, n)

\* rk_venc_create(), rk_vdec_create(): the channel, its input, its pool, or nothing.
Create(steps, n) == IF n = 3 THEN Reached(steps, n) ELSE {}

\* rk_codec_start()
Start(n) ==
  /\ ~encoding
  /\ \/ UNCHANGED <<encoding, sys_acquired, hw, refs>>   \* the system does not come up
     \/ /\ hw' = hw \cup Create(Encoder, n) /\ encoding' = (n = 3)
        /\ sys_acquired' = (n = 3) /\ refs' = IF n = 3 THEN refs + 1 ELSE refs
  /\ UNCHANGED <<decoding, blocks, units>>

\* Mutant of Stop: the decoder is left to close().
StopEncoder ==
  /\ encoding' = FALSE /\ hw' = hw \ Reached(Encoder, 3)
  /\ sys_acquired' = FALSE /\ refs' = IF sys_acquired THEN refs - 1 ELSE refs
  /\ fetched' = sent /\ floor' = sent /\ UNCHANGED <<decoding, blocks, sent, got>>

\* rk_codec_stop(), also from rk_codec_close()
Stop ==
  /\ decoding' = FALSE /\ encoding' = FALSE
  /\ hw' = hw \ ((IF decoding THEN Reached(Decoder, 3) ELSE {})
                 \cup (IF encoding THEN Reached(Encoder, 3) ELSE {}))
  /\ sys_acquired' = FALSE /\ refs' = IF sys_acquired THEN refs - 1 ELSE refs
  /\ fetched' = sent /\ floor' = sent /\ UNCHANGED <<blocks, sent, got>>

\* Mutant of Flush: nothing is reset.
FlushNothing ==
  /\ floor' = [s \in Sides |-> IF (s = "enc" /\ encoding) \/ (s = "dec" /\ decoding)
                               THEN sent[s] ELSE floor[s]]
  /\ UNCHANGED <<encoding, decoding, sys_acquired, hw, refs, blocks, sent, got, fetched>>

\* rk_codec_flush(): the channels there are drop what they hold.
Flush ==
  LET dropped == {s \in Sides : IF s = "enc" THEN encoding ELSE decoding} IN
  /\ fetched' = [s \in Sides |-> IF s \in dropped THEN sent[s] ELSE fetched[s]]
  /\ floor' = [s \in Sides |-> IF s \in dropped THEN sent[s] ELSE floor[s]]
  /\ UNCHANGED <<encoding, decoding, sys_acquired, hw, refs, blocks, sent, got>>

-----------------------------------------------------------------------------
(* encode() and decode().  The outcomes: no block of the pool, no address   *)
(* of the block; the unit refused; nothing to fetch in time; a unit fetched *)
(* and dropped, for which the buffer is too small; a unit returned.         *)
Outcomes == {"noblock", "noaddress", "refused", "late", "toosmall", "returned"}

\* Mutant of Owned: the block of a frame that is refused is kept.
OwnedOnRefusal(outcome, own) == IF own /\ outcome \in {"noaddress", "refused"} THEN 1 ELSE 0

\* The blocks of the pool still held when the call returns.
Owned(outcome, own) == 0

Exchange(side, outcome, own) ==
  /\ outcome \in {"noblock", "noaddress"} => own
  /\ blocks' = blocks + Owned(outcome, own)
  /\ IF outcome \in {"noblock", "noaddress", "refused"} THEN UNCHANGED units
     ELSE /\ sent[side] < MaxSent
          /\ sent' = [sent EXCEPT ![side] = @ + 1] /\ UNCHANGED floor
          /\ fetched' = IF outcome = "late" THEN fetched ELSE [fetched EXCEPT ![side] = @ + 1]
          /\ got' = IF outcome = "returned" THEN [got EXCEPT ![side] = fetched[side] + 1] ELSE got

\* rk_codec_encode(); a frame with a block of its own needs none of the pool.
Encode(outcome, own) ==
  /\ encoding /\ Exchange("enc", outcome, own)
  /\ UNCHANGED <<encoding, decoding, sys_acquired, hw, refs>>

\* rk_codec_decode(), which makes the decoder when there is none.
Decode(outcome, n) ==
  /\ encoding
  /\ IF decoding THEN n = 3 ELSE TRUE
  /\ hw' = IF decoding THEN hw ELSE hw \cup Create(Decoder, n)
  /\ decoding' = (decoding \/ n = 3)
  /\ IF n = 3 THEN Exchange("dec", outcome, TRUE) ELSE UNCHANGED <<blocks, units>>
  /\ UNCHANGED <<encoding, sys_acquired, refs>>

Next ==
  \/ Stop \/ Flush
  \/ \E n \in 0 .. 3 :
       \/ Start(n)
       \/ \E outcome \in Outcomes : Decode(outcome, n)
  \/ \E outcome \in Outcomes, own \in BOOLEAN : Encode(outcome, own)

Spec == Init /\ [][Next]_vars

-----------------------------------------------------------------------------
(* Correctness. *)

(* A stopped device holds nothing, however far its starts came; a running  *)
(* one has its system, and no call keeps a block of a pool, whichever of    *)
(* its steps failed.                                                       *)
HoldsWhatItUses ==
  /\ hw = (IF encoding THEN Reached(Encoder, 3) ELSE {})
          \cup (IF decoding THEN Reached(Decoder, 3) ELSE {})
  /\ refs = IF encoding \/ decoding THEN 1 ELSE 0
  /\ blocks = 0

(* The promise of the interface: in order, once, nothing from before a     *)
(* stop() or a flush(), even after timeouts have left units in the vendor's *)
(* channel.                                                                *)
Contract == INSTANCE CodecContract WITH running <- encoding
ImplementsContract == Contract!Spec
===============================================================================
