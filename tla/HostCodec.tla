------------------------------ MODULE HostCodec ------------------------------
(***************************************************************************)
(* platform/ubuntu_x86_64: one device of the host's codec HAL              *)
(* (codec_host_x86.c), which encodes with x264 or copies raw frames, and   *)
(* answers every call at once.  Calls are atomic.  set_format() takes a    *)
(* format also while the device runs; ICodec.h has callers stop it first,  *)
(* and a caller that turned a running device from raw frames to H.264      *)
(* would encode without an encoder: that one call is left out.             *)
(***************************************************************************)
EXTENDS Integers

CONSTANT MaxSent   \* bound on the units handed in

Sides == {"enc", "dec"}

VARIABLES
  open,       \* the device is open, its priv allocated
  codec,      \* of fmt: "h264" or "raw"
  changed,    \* a format was set since the device was started
  encoding,
  enc,        \* the x264 encoder is open
  sent, got, floor   \* as in CodecContract
vars == <<open, codec, changed, encoding, enc, sent, got, floor>>
units == <<sent, got, floor>>

\* host_codec_open()
Init ==
  /\ open = TRUE /\ codec = "raw" /\ changed = FALSE /\ encoding = FALSE /\ enc = FALSE
  /\ sent = [s \in Sides |-> 0] /\ got = [s \in Sides |-> 0] /\ floor = [s \in Sides |-> 0]

SetFormat ==
  /\ open /\ codec' \in {"raw", "h264"} /\ changed' = (changed \/ encoding)
  /\ UNCHANGED <<open, encoding, enc, units>>

\* Mutant of Start: the device runs also when no encoder could be opened.
StartAnyway ==
  /\ open /\ ~encoding /\ encoding' = TRUE /\ enc' \in {FALSE, codec = "h264"}
  /\ changed' = FALSE /\ UNCHANGED <<open, codec, units>>

\* start(); -ENOMEM without an encoder changes nothing.
Start ==
  /\ open /\ ~encoding /\ encoding' = TRUE /\ enc' = (codec = "h264")
  /\ changed' = FALSE /\ UNCHANGED <<open, codec, units>>

\* Mutant of Stop: the encoder is left open.
StopOpen ==
  /\ open /\ encoding' = FALSE /\ changed' = FALSE /\ floor' = sent
  /\ UNCHANGED <<open, codec, enc, sent, got>>

Stop ==
  /\ open /\ encoding' = FALSE /\ enc' = FALSE /\ changed' = FALSE /\ floor' = sent
  /\ UNCHANGED <<open, codec, sent, got>>

\* close() frees the device as it is: an encoder that was not stopped is lost.
Close == open /\ open' = FALSE /\ UNCHANGED <<codec, changed, encoding, enc, units>>

\* flush(): nothing is buffered.
Flush == open /\ UNCHANGED vars

\* encode() and decode(): a unit comes back at once, or the call fails, with the
\* encoder having had the unit or not; only raw frames are decoded.
Process(side) ==
  /\ open /\ encoding /\ sent[side] < MaxSent
  /\ codec = "raw" \/ (side = "enc" /\ enc)
  /\ sent' = [sent EXCEPT ![side] = @ + 1]
  /\ got' \in {got, [got EXCEPT ![side] = sent[side] + 1]}
  /\ UNCHANGED <<open, codec, changed, encoding, enc, floor>>

Next == SetFormat \/ Start \/ Stop \/ Close \/ Flush \/ \E side \in Sides : Process(side)

Spec == Init /\ [][Next]_vars

-----------------------------------------------------------------------------
(* Correctness. *)

(* An open device has an encoder only while it runs, and the one that the   *)
(* format it was started with needs.                                       *)
HoldsWhatItUses ==
  open => /\ enc => encoding
          /\ encoding /\ ~changed => enc = (codec = "h264")

(* The promise of the interface: in order, once, nothing from before a     *)
(* stop().                                                                 *)
Contract == INSTANCE CodecContract WITH running <- encoding
ImplementsContract == Contract!Spec
===============================================================================
