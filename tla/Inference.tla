------------------------------ MODULE Inference ------------------------------
(***************************************************************************)
(* One inference engine of the analysis subsystem (platform_engine.cpp)    *)
(* and the RV1126B device that it opens (inference_rknn.cpp).  A load      *)
(* replaces the model: it gives up the device there is, opens another,     *)
(* and makes the vendor's context in it.  A frame that is run leaves       *)
(* vendor buffers, which the engine copies and releases before it returns. *)
(* The engine is used under the analysis manager's lock: calls are atomic. *)
(***************************************************************************)
EXTENDS Integers

VARIABLES
  device, loaded,        \* the engine: device_ # nullptr, loaded_
  context, outputs_held, \* the device: context_ # 0, outputs_held_
  contexts, buffers      \* contexts, and sets of output buffers, that the vendor's runtime
                         \* has not been asked to give up
vars == <<device, loaded, context, outputs_held, contexts, buffers>>

Init ==
  /\ device = FALSE /\ loaded = FALSE /\ context = FALSE /\ outputs_held = FALSE
  /\ contexts = 0 /\ buffers = 0

(* The device and the engine, as a record that the calls work on.          *)
Now == [device |-> device, loaded |-> loaded, context |-> context, held |-> outputs_held,
        contexts |-> contexts, buffers |-> buffers, ok |-> TRUE]

Becomes(s) ==
  /\ device' = s.device /\ loaded' = s.loaded /\ context' = s.context
  /\ outputs_held' = s.held /\ contexts' = s.contexts /\ buffers' = s.buffers

-----------------------------------------------------------------------------
(* inference_rknn.cpp.  refused: what the vendor's runtime does not give up. *)

ReleaseOutputs(s, refused) ==
  IF ~s.held THEN s
  ELSE [s EXCEPT !.held = FALSE, !.buffers = IF s.context THEN @ - 1 ELSE @,
                 !.ok = @ /\ "outputs" \notin refused]

\* Mutant of UnloadModel: a context that cannot be destroyed is kept.
UnloadModelKeeps(s, refused) ==
  LET r == ReleaseOutputs(s, refused) IN
  IF ~r.context \/ "context" \in refused THEN r ELSE [r EXCEPT !.context = FALSE, !.contexts = @ - 1]

\* The context is forgotten, whatever the runtime says.
UnloadModel(s, refused) ==
  LET r == ReleaseOutputs(s, refused) IN
  IF ~r.context THEN r
  ELSE [r EXCEPT !.context = FALSE, !.contexts = @ - 1,
                 !.ok = @ /\ "context" \notin refused]

\* Mutant of LoadModel: a context that cannot be queried is not destroyed.
LoadModelLeaks(s, step, refused) ==
  IF step \in {"read", "init"} THEN [UnloadModel(s, refused) EXCEPT !.ok = FALSE]
  ELSE IF step = "query" THEN [s EXCEPT !.contexts = @ + 1, !.ok = FALSE]
  ELSE [s EXCEPT !.context = TRUE, !.contexts = @ + 1]

\* The file is read before the old model is given up; a context that cannot be
\* queried is destroyed.  step is the one that fails, or "none".
LoadModel(s, step, refused) ==
  IF step = "read" THEN [s EXCEPT !.ok = FALSE]
  ELSE LET u == UnloadModel(s, refused) IN
       IF ~u.ok \/ step \in {"init", "query"} THEN [u EXCEPT !.ok = FALSE]
       ELSE [u EXCEPT !.context = TRUE, !.contexts = @ + 1]

\* What an earlier run left is released first; then the outputs of this one are held.
RunFrame(s, step, refused) ==
  LET r == ReleaseOutputs(s, refused) IN
  IF ~r.ok \/ step \in {"input", "run", "get"} THEN [r EXCEPT !.ok = FALSE]
  ELSE [r EXCEPT !.held = TRUE, !.buffers = @ + 1]

-----------------------------------------------------------------------------
(* platform_engine.cpp *)

\* inference_close(), which destroys the device.
CloseDevice(s, refused) == [UnloadModel(s, refused) EXCEPT !.device = FALSE, !.ok = s.ok]

EngineUnload(s, refused) ==
  IF ~s.device THEN [s EXCEPT !.loaded = FALSE]
  ELSE LET u == IF s.loaded THEN UnloadModel(s, refused) ELSE s IN
       [CloseDevice(u, refused) EXCEPT !.loaded = FALSE]

Refused == SUBSET {"context", "outputs"}

Load(step, refused) ==
  LET u == EngineUnload(Now, refused)
      opened == [u EXCEPT !.device = TRUE]
      l == LoadModel(opened, step, refused) IN
  Becomes(IF ~u.ok \/ step = "open" THEN u
          ELSE IF ~l.ok \/ step = "caps" THEN CloseDevice(l, refused)
          ELSE [l EXCEPT !.loaded = TRUE])

Unload(refused) == Becomes(EngineUnload(Now, refused))

\* Mutant of Infer: outputs that cannot be copied are not released.
InferKeeps(step, refused) ==
  /\ loaded /\ device
  /\ LET r == RunFrame(Now, step, refused) IN
     Becomes(IF ~r.ok \/ step = "copy" THEN r ELSE ReleaseOutputs(r, refused))

\* infer(): run, copy, release, decode; every way out after the run releases.
Infer(step, refused) ==
  /\ loaded /\ device
  /\ LET r == RunFrame(Now, step, refused) IN
     Becomes(IF r.ok THEN ReleaseOutputs(r, refused) ELSE r)

Next ==
  \E refused \in Refused :
    \/ Unload(refused)
    \/ \E step \in {"none", "open", "read", "init", "query", "caps"} : Load(step, refused)
    \/ \E step \in {"none", "input", "run", "get", "copy"} : Infer(step, refused)

Spec == Init /\ [][Next]_vars

-----------------------------------------------------------------------------
(* Correctness. *)

(* The runtime has one context while a model is loaded and none otherwise,  *)
(* whichever step of a load fails and whatever the runtime refuses.        *)
OneContext ==
  /\ loaded => device /\ context
  /\ device => loaded
  /\ contexts = IF loaded THEN 1 ELSE 0

(* No output buffer of the runtime outlives the call that ran the frame:   *)
(* the decoder depends on none (iva_inference.h:32).                        *)
NoBufferOutlives == buffers = 0 /\ ~outputs_held
==============================================================================
