------------------------------- MODULE RkAudio -------------------------------
(***************************************************************************)
(* platform/vendors/rockchip: the RV1126B audio HAL (audio_rockchip.c).    *)
(* One device captures and plays PCM, or captures for an encoder bound to  *)
(* its input; its directions share one reference to the vendor's system,   *)
(* the encoder shares the input.  Calls are atomic; hw is what the         *)
(* vendor's layer has enabled, refs the references it counts for us.       *)
(***************************************************************************)
EXTENDS Integers

VARIABLES in, out, encoded, created, bound, sys, hw, refs
vars == <<in, out, encoded, created, bound, sys, hw, refs>>

Input == {"ai", "aichn"}
Output == {"ao", "aochn"}

\* rk_audio_open()
Init ==
  /\ in = FALSE /\ out = FALSE /\ encoded = FALSE /\ created = FALSE /\ bound = FALSE
  /\ sys = FALSE /\ hw = {} /\ refs = 0

\* Mutant of AiStart: the device stays enabled when its channel fails.
AiStartKeeps(h) == {<<TRUE, h \cup Input>>, <<FALSE, h>>, <<FALSE, h \cup {"ai"}>>}

\* rk_audio_ai_start(), rk_audio_ao_start(): all, or nothing when a step fails.
AiStart(h) == {<<TRUE, h \cup Input>>, <<FALSE, h>>}
AoStart(h) == {<<TRUE, h \cup Output>>, <<FALSE, h>>}

\* rk_audio_ai_stop(): on [in, hw].
AiStop(s) == [in |-> FALSE, hw |-> IF s.in THEN s.hw \ Input ELSE s.hw]

\* A call that takes the reference unless it is held; the system may fail.
AcquireSys == sys' = TRUE /\ refs' = IF sys THEN refs ELSE refs + 1

\* Mutant of SysIf: only the direction at hand is looked at.
SysIfIn(inp, outp, held) == held /\ inp

\* The reference is kept while a direction runs.
SysIf(inp, outp, held) == held /\ (inp \/ outp)
KeepSys(inp, outp, held, count) ==
  /\ sys' = SysIf(inp, outp, held)
  /\ refs' = IF held /\ ~SysIf(inp, outp, held) THEN count - 1 ELSE count

Taken == IF sys THEN refs ELSE refs + 1

Start(dir) ==
  /\ IF dir = "in" THEN ~in ELSE ~out
  /\ \E r \in IF dir = "in" THEN AiStart(hw) ELSE AoStart(hw) :
       /\ hw' = r[2]
       /\ in' = (in \/ (dir = "in" /\ r[1])) /\ out' = (out \/ (dir = "out" /\ r[1]))
  /\ KeepSys(in', out', TRUE, Taken)
  /\ UNCHANGED <<encoded, created, bound>>

\* Mutant of Stop: the input is stopped under the encoder.
StopAnyway(dir) ==
  /\ in' = (in /\ dir # "in") /\ out' = (out /\ dir # "out")
  /\ hw' = hw \ IF dir = "in" THEN Input ELSE Output
  /\ KeepSys(in', out', sys, refs) /\ UNCHANGED <<encoded, created, bound>>

Stop(dir) ==
  /\ ~(dir = "in" /\ in /\ encoded)
  /\ LET s == IF dir = "in" THEN AiStop([in |-> in, hw |-> hw]) ELSE [in |-> in, hw |-> hw] IN
     /\ in' = s.in /\ out' = (out /\ dir # "out")
     /\ hw' = IF dir = "out" /\ out THEN s.hw \ Output ELSE s.hw
  /\ KeepSys(in', out', sys, refs) /\ UNCHANGED <<encoded, created, bound>>

\* Mutant of EncodedStart: the encoder is not destroyed when it cannot be bound.
EncodedStartKeeps ==
  /\ ~encoded /\ ~in
  /\ \/ \E r \in AiStart(hw) :
          /\ ~r[1] /\ hw' = r[2]
          /\ KeepSys(FALSE, out, TRUE, Taken) /\ UNCHANGED <<in, encoded, created, bound>>
     \/ /\ hw' = hw \cup {"aenc"} /\ created' = TRUE
        /\ KeepSys(FALSE, out, TRUE, Taken) /\ UNCHANGED <<in, encoded, bound>>
     \/ /\ hw' = hw \cup Input \cup {"aenc", "bind"}
        /\ in' = TRUE /\ created' = TRUE /\ bound' = TRUE /\ encoded' = TRUE /\ AcquireSys
  /\ UNCHANGED out

\* rk_audio_encoded_start(): the input, the encoder, the binding; what was had is
\* given up again when one of them fails.
EncodedStart ==
  /\ ~encoded /\ ~in
  /\ \/ \E r \in AiStart(hw) :
          /\ hw' = IF r[1] THEN AiStop([in |-> TRUE, hw |-> r[2]]).hw ELSE r[2]
          /\ KeepSys(FALSE, out, TRUE, Taken) /\ UNCHANGED <<in, encoded, created, bound>>
     \/ /\ hw' = hw \cup Input \cup {"aenc", "bind"}
        /\ in' = TRUE /\ created' = TRUE /\ bound' = TRUE /\ encoded' = TRUE /\ AcquireSys
  /\ UNCHANGED out

EncodedStop ==
  /\ encoded \/ created
  /\ LET h == hw \ ((IF bound THEN {"bind"} ELSE {}) \cup (IF created THEN {"aenc"} ELSE {}))
         s == AiStop([in |-> in, hw |-> h]) IN
     in' = s.in /\ hw' = s.hw
  /\ encoded' = FALSE /\ created' = FALSE /\ bound' = FALSE
  /\ KeepSys(in', out, sys, refs) /\ UNCHANGED out

Next == EncodedStart \/ EncodedStop \/ \E dir \in {"in", "out"} : Start(dir) \/ Stop(dir)

Spec == Init /\ [][Next]_vars

-----------------------------------------------------------------------------
(* A device that neither captures nor plays holds nothing, whatever failed  *)
(* and in whichever order its users stopped.                               *)
RestsClean == ~in /\ ~out /\ ~encoded => hw = {} /\ ~created /\ refs = 0

(* No user loses what another has stopped: while something is enabled the  *)
(* system is held, once, and an encoder has a running input behind it.     *)
SharedIsHeld ==
  /\ hw # {} => refs = 1
  /\ in => Input \subseteq hw
  /\ out => Output \subseteq hw
  /\ encoded => Input \cup {"aenc", "bind"} \subseteq hw
===============================================================================
