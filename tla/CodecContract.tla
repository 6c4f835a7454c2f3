---------------------------- MODULE CodecContract ----------------------------
(***************************************************************************)
(* What a codec device promises its caller about the order of what it      *)
(* returns (platform/interfaces/codec/ICodec.h): each call hands in one    *)
(* unit and may hand back one, of a unit handed in earlier in the same run *)
(* and not before a flush(); units come back in order and at most once.    *)
(* Units are numbered as they are handed in, in both directions alike.     *)
(***************************************************************************)
EXTENDS Integers

CONSTANT Sides   \* "enc", "dec"

VARIABLES running, sent, got, floor
vars == <<running, sent, got, floor>>

\* A device is idle until it is started.
Init ==
  /\ running = FALSE
  /\ sent = [s \in Sides |-> 0] /\ got = [s \in Sides |-> 0] /\ floor = [s \in Sides |-> 0]

Start == running' = TRUE /\ UNCHANGED <<sent, got, floor>>

\* Nothing of an earlier run, or of before a flush, comes back.
Stop == running' = FALSE /\ floor' = sent /\ UNCHANGED <<sent, got>>
Flush == /\ floor' \in [Sides -> Nat] /\ \A s \in Sides : floor'[s] \in {floor[s], sent[s]}
         /\ UNCHANGED <<running, sent, got>>

\* encode() or decode(), of a device that runs or that it makes run.
Process(side) ==
  /\ running' = TRUE
  /\ sent' \in {sent, [sent EXCEPT ![side] = @ + 1]}
  /\ \/ UNCHANGED got
     \/ \E unit \in 1 .. sent'[side] :
          unit > got[side] /\ unit > floor[side] /\ got' = [got EXCEPT ![side] = unit]
  /\ UNCHANGED floor

Next == Start \/ Stop \/ Flush \/ \E side \in Sides : Process(side)

Spec == Init /\ [][Next]_vars
===============================================================================
