------------------------------ MODULE G711 ------------------------------
(***************************************************************************)
(* SvcKit/subsystems/media/src/codec/g711_audio_codec.cpp: the conversion  *)
(* of 16 bit samples to the 8 bit codes of A-law and u-law and back.  A    *)
(* sender's encoder and a receiver's decoder work through all samples, one *)
(* block at a time.                                                        *)
(***************************************************************************)
EXTENDS Integers, Sequences

CONSTANT Width   \* samples of a block

VARIABLES
  codec, first,   \* the codec of the stream; the least sample of the block
  packet, frame   \* what encode() and decode() made of the block
vars == <<codec, first, packet, frame>>

Codecs == {"pcm", "g711a", "g711u"}
Magnitude(n) == IF n < 0 THEN -n ELSE n
AtMost(n, bound) == IF n > bound THEN bound ELSE n

\* code ^ mask, of 8 bits, for the masks of the two laws.
Bit(n, k) == (n \div 2^k) % 2
Flip ==
  [mask \in {85, 127, 213, 255} |-> [code \in 0..255 |->
     LET bit(k) == ((Bit(code, k) + Bit(mask, k)) % 2) * 2^k IN
     bit(0) + bit(1) + bit(2) + bit(3) + bit(4) + bit(5) + bit(6) + bit(7)]]

\* The loops over thresholds: how often a value is twice a segment's end.
Segment(value, end) == CHOOSE k \in 0..7 : /\ value < end * 2^k
                                           /\ k > 0 => value >= end * 2^(k - 1)

\* Bits of the mantissa within its segment.
Mantissa(value, shift) == (value \div 2^shift) % 16

\* Mutant of linearToUlaw: the bias is left out.
UnbiasedUlaw(sample) ==
  LET value == AtMost(Magnitude(sample), 32635)
      segment == Segment(value, 256)
      mask == IF sample < 0 THEN 127 ELSE 255
  IN Flip[mask][segment * 16 + Mantissa(value, segment + 3)]

linearToUlaw(sample) ==
  LET value == AtMost(Magnitude(sample), 32635) + 132
      segment == Segment(value, 256)
      mask == IF sample < 0 THEN 127 ELSE 255
  IN Flip[mask][segment * 16 + Mantissa(value, segment + 3)]

ulawToLinear(code) ==
  LET value == 255 - code
      sample == ((value % 16) * 8 + 132) * 2^((value \div 16) % 8) - 132
  IN IF value >= 128 THEN -sample ELSE sample

\* Mutant of linearToAlaw: the smallest segment is taken for one like the others.
linearToAlawUniform(sample) ==
  LET value == IF sample < 0 THEN -sample - 1 ELSE sample
      segment == Segment(value, 256)
      mask == IF sample < 0 THEN 85 ELSE 213
  IN Flip[mask][segment * 16 + Mantissa(value, segment + 3)]

\* The negative half begins at -1: -32768 has a code, too.
linearToAlaw(sample) ==
  LET value == IF sample < 0 THEN -sample - 1 ELSE sample
      segment == Segment(value, 256)
      mask == IF sample < 0 THEN 85 ELSE 213
  IN Flip[mask][segment * 16 + Mantissa(value, IF segment = 0 THEN 4 ELSE segment + 3)]

alawToLinear(code) ==
  LET value == Flip[85][code]
      segment == (value \div 16) % 8
      least == (value % 16) * 16 + (IF segment = 0 THEN 8 ELSE 264)
      sample == IF segment < 2 THEN least ELSE least * 2^(segment - 1)
  IN IF value >= 128 THEN sample ELSE -sample

\* G711AudioEncoder::encode(): a code for each sample; PCM passes as it is.
Encode(c, samples) ==
  [i \in DOMAIN samples |-> CASE c = "pcm" -> samples[i]
                              [] c = "g711a" -> linearToAlaw(samples[i])
                              [] c = "g711u" -> linearToUlaw(samples[i])]

\* G711AudioDecoder::decode()
Decode(c, codes) ==
  [i \in DOMAIN codes |-> CASE c = "pcm" -> codes[i]
                            [] c = "g711a" -> alawToLinear(codes[i])
                            [] c = "g711u" -> ulawToLinear(codes[i])]

Block(n) == [i \in 1..Width |-> n + i - 1]

Init == codec \in Codecs /\ first = -32768 /\ packet = <<>> /\ frame = <<>>

\* The next block of samples is sent and received.
Transcode ==
  /\ first + Width <= 32768
  /\ packet' = Encode(codec, Block(first)) /\ frame' = Decode(codec, packet')
  /\ first' = first + Width
  /\ UNCHANGED codec

Next == Transcode

Spec == Init /\ [][Next]_vars

-----------------------------------------------------------------------------
(* Correctness. *)

(* Every sample of the 16 bits comes back as itself within half a step of   *)
(* its segment: 1/32 of its amplitude, or 8 in the smallest segment.  A     *)
(* louder sample does not come back as a softer one, from end to end.       *)
ComesBackClose ==
  \A i \in DOMAIN frame :
    LET sample == first - Width + i - 1
        error == Magnitude(frame[i] - sample)
    IN /\ IF codec = "pcm" THEN error = 0 ELSE error <= 8 + Magnitude(sample) \div 32
       /\ i > 1 => frame[i - 1] <= frame[i]
       /\ codec # "pcm" => packet[i] \in 0..255

(* A second passage changes nothing: what was decoded once is coded as the  *)
(* same sample again, so that a call forwarded twice does not degrade.      *)
SettlesAtOnce == Decode(codec, Encode(codec, frame)) = frame
===============================================================================
