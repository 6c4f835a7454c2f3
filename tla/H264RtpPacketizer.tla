--------------------------- MODULE H264RtpPacketizer ---------------------------
(***************************************************************************)
(* SvcKit/protocols/common: H264RtpPacketizer (H264RtpPacketizer.cpp).  An *)
(* Annex B access unit is split at its start codes into NAL units, which   *)
(* are sent whole or in FU-A fragments.  A byte is a natural; positions    *)
(* count from 1.  A payload is sent with the marker bit or without.        *)
(***************************************************************************)
EXTENDS Integers, Sequences, SequencesExt

CONSTANTS
  Bytes,           \* the bytes that occur: 0, 1 and NAL headers
  MaxUnit,         \* bound on the bytes of a NAL unit
  MaxUnits,        \* bound on the NAL units of an access unit
  MaxPayload       \* maximumPayloadBytes_

VARIABLES
  nals,      \* what the encoder put into the access unit
  codes,     \* the length of the start code before each, with the zeros before it
  payloads   \* what was sent so far, <<bytes, marker>>

vars == <<nals, codes, payloads>>

\* Mutant of StartCode: the long code is looked for first.
StartCodeFour(d, i) ==
  IF i + 3 <= Len(d) /\ SubSeq(d, i, i + 3) = <<0, 0, 0, 1>> THEN 4 ELSE 0

\* startCodeSize()
StartCode(d, i) ==
  IF i + 2 <= Len(d) /\ SubSeq(d, i, i + 2) = <<0, 0, 1>> THEN 3
  ELSE IF i + 3 <= Len(d) /\ SubSeq(d, i, i + 3) = <<0, 0, 0, 1>> THEN 4 ELSE 0

\* The position of the first start code from i on, or the end.
NextCode(d, i) ==
  LET found == {j \in i .. Len(d) : StartCode(d, j) # 0} IN
  IF found = {} THEN Len(d) + 1 ELSE CHOOSE j \in found : \A k \in found : j <= k

\* Mutant of Trimmed: zeros stay.
TrimmedNot(u) == u

\* The zeros at the end of a unit belong to the next start code.
Trimmed(u) ==
  LET kept == {n \in 1 .. Len(u) : u[n] # 0} IN
  IF kept = {} THEN <<>> ELSE SubSeq(u, 1, CHOOSE n \in kept : \A m \in kept : m <= n)

\* splitAnnexB(); data without a start code is one unit.
SplitAnnexB(d) ==
  LET from[i \in 1 .. Len(d) + 1] ==
        LET at == NextCode(d, i) IN
        IF at = Len(d) + 1 THEN <<>>
        ELSE LET begin == at + StartCode(d, at)
                 end == NextCode(d, begin)
                 unit == Trimmed(SubSeq(d, begin, end - 1)) IN
             (IF unit = <<>> THEN <<>> ELSE <<unit>>) \o from[end] IN
  IF from[1] = <<>> /\ d # <<>> THEN <<d>> ELSE from[1]

\* Mutant of Fragment: the last bytes of a unit that fills its fragments are
\* not marked.
FragmentOpen(u, k, final) ==
  LET capacity == MaxPayload - 2
      first == 2 + (k - 1) * capacity
      last == first + capacity > Len(u) + 1 IN
  <<<<(u[1] \div 32) * 32 + 28,
      (u[1] % 32) + (IF k = 1 THEN 128 ELSE 0) + (IF last THEN 64 ELSE 0)>>
     \o SubSeq(u, first, IF first + capacity > Len(u) THEN Len(u) ELSE first + capacity - 1),
    final /\ last>>

\* Fragment k of unit u: indicator, header with start and end bit, bytes.
Fragment(u, k, final) ==
  LET capacity == MaxPayload - 2
      first == 2 + (k - 1) * capacity
      last == first + capacity > Len(u) IN
  <<<<(u[1] \div 32) * 32 + 28,
      (u[1] % 32) + (IF k = 1 THEN 128 ELSE 0) + (IF last THEN 64 ELSE 0)>>
     \o SubSeq(u, first, IF last THEN Len(u) ELSE first + capacity - 1),
    final /\ last>>

\* The payloads of one unit; final: it is the last of the access unit.
UnitPayloads(u, final) ==
  IF Len(u) <= MaxPayload THEN <<<<u, final>>>>
  ELSE [k \in 1 .. (Len(u) - 1 + MaxPayload - 3) \div (MaxPayload - 2) |-> Fragment(u, k, final)]

\* Mutant of Packetize: every unit ends the access unit.
PacketizeMarks(d) ==
  LET units == SplitAnnexB(d) IN
  FlattenSeq([i \in 1 .. Len(units) |-> UnitPayloads(units[i], TRUE)])

\* packetize(), as long as the callback takes what it is given.
Packetize(d) ==
  LET units == SplitAnnexB(d) IN
  FlattenSeq([i \in 1 .. Len(units) |-> UnitPayloads(units[i], i = Len(units))])

\* The access unit the encoder delivers.
Zeros(n) == [i \in 1 .. n |-> 0]
AccessUnit == FlattenSeq([i \in 1 .. Len(nals) |-> Append(Zeros(codes[i] - 1), 1) \o nals[i]])

\* A NAL unit contains no start code and does not end in 0.
IsNal(u) == u # <<>> /\ u[Len(u)] # 0 /\ \A i \in 1 .. Len(u) : StartCode(u, i) = 0

Init ==
  /\ nals \in {s \in SeqOf({u \in SeqOf(Bytes, MaxUnit) : IsNal(u)}, MaxUnits) : s # <<>>}
  /\ codes \in [1 .. Len(nals) -> 3 .. 5]
  /\ payloads = <<>>

Next ==
  /\ payloads = <<>> /\ payloads' = Packetize(AccessUnit) /\ UNCHANGED <<nals, codes>>

Spec == Init /\ [][Next]_vars

-----------------------------------------------------------------------------
(* What a receiver does with the payloads: units of type 28 are fragments, *)
(* from a start bit to an end bit.                                         *)
IsFragment(p) == p[1][1] % 32 = 28
Starts(p) == p[1][2] >= 128
Ends(p) == (p[1][2] \div 64) % 2 = 1

Received(ps) ==
  LET rest[i \in 1 .. Len(ps) + 1] ==     \* <<units before i, bytes of an open one>>
        IF i = 1 THEN <<<<>>, <<>>>>
        ELSE LET done == rest[i - 1][1]  open == rest[i - 1][2]  p == ps[i - 1] IN
             IF ~IsFragment(p) THEN <<Append(done, p[1]), open>>
             ELSE LET body == SubSeq(p[1], 3, Len(p[1]))
                      now == IF Starts(p)
                             THEN <<(p[1][1] \div 32) * 32 + (p[1][2] % 32)>> \o body
                             ELSE open \o body IN
                  IF Ends(p) THEN <<Append(done, now), <<>>>> ELSE <<done, now>> IN
  rest[Len(ps) + 1]

(* The receiver gets the NAL units the encoder delivered, in order, however *)
(* their start codes and lengths fall together with the fragments.         *)
Reassembles == payloads # <<>> => Received(payloads) = <<nals, <<>>>>

(* No payload is larger than the limit, and exactly the last one has the   *)
(* marker bit, which ends the frame at the receiver.                       *)
WellMarked ==
  \A i \in 1 .. Len(payloads) :
    Len(payloads[i][1]) <= MaxPayload /\ (payloads[i][2] <=> i = Len(payloads))
=============================================================================
