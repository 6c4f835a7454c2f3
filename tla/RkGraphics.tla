------------------------------ MODULE RkGraphics ------------------------------
(***************************************************************************)
(* platform/vendors/rockchip: a device of the RV1126B graphics HAL         *)
(* (graphics_rockchip.c).  It shows one overlay, on the screen's UI layer  *)
(* or in an encoder's picture.  Calls are atomic.                          *)
(***************************************************************************)
EXTENDS Integers, Sequences

VARIABLES
  target, attached, vo_ready, sys_acquired,
  has_blk,   \* vo_blk is not NULL
  osd,       \* what the vendor's layer holds for the overlay
  refs,      \* references counted for this device
  canvas     \* the caller draws into the canvas
vars == <<target, attached, vo_ready, sys_acquired, has_blk, osd, refs, canvas>>

\* rk_gfx_open()
Init ==
  /\ target = "venc" /\ attached = FALSE /\ vo_ready = FALSE /\ sys_acquired = FALSE
  /\ has_blk = FALSE /\ osd = {} /\ refs = 0 /\ canvas = FALSE

OnScreen == <<"uibind", "uilayer", "uichn", "mmz", "address">>
InPicture == <<"region", "attach", "canvas">>
Parts(t) == IF t = "vo" THEN OnScreen ELSE InPicture
All(t) == {Parts(t)[i] : i \in DOMAIN Parts(t)}

\* Mutant of Undone: the region stays attached when it has no canvas.
UndoneAttached(t, k) == IF t = "venc" /\ k = 3 THEN {"region"} ELSE {Parts(t)[i] : i \in 1 .. k - 1}

\* What the labels of rk_osd_create_vo(), the returns of rk_osd_create_venc(), undo
\* when step k fails: all that was done.
Undone(t, k) == {Parts(t)[i] : i \in 1 .. k - 1}

\* Mutant of CreateFails: the target is noted before the device is found busy.
CreateFailsNoted(t) ==
  /\ target' = t
  /\ UNCHANGED <<osd, attached, vo_ready, sys_acquired, has_blk, refs, canvas>>

\* rk_gfx_osd_create(): the system does not come up; step k fails; or all is there.
CreateFails(t) ==
  /\ ~attached /\ ~vo_ready
  /\ \/ UNCHANGED <<target, osd>>
     \/ target' = t /\ \E k \in DOMAIN Parts(t) :
          osd' = osd \cup ({Parts(t)[i] : i \in 1 .. k - 1} \ Undone(t, k))
  /\ UNCHANGED <<attached, vo_ready, sys_acquired, has_blk, refs, canvas>>

Create(t) ==
  /\ ~attached /\ ~vo_ready
  /\ target' = t /\ osd' = osd \cup All(t) /\ canvas' = TRUE
  /\ attached' = (t = "venc") /\ vo_ready' = (t = "vo") /\ has_blk' = (t = "vo" \/ has_blk)
  /\ sys_acquired' = TRUE /\ refs' = refs + 1

\* Mutant of Destroy: the canvas is left to close().
DestroyKeepsBlock ==
  /\ osd' = osd \ IF attached THEN All("venc") ELSE IF vo_ready THEN All("vo") \ {"mmz"} ELSE {}
  /\ attached' = FALSE /\ vo_ready' = FALSE /\ sys_acquired' = FALSE /\ canvas' = FALSE
  /\ refs' = IF sys_acquired THEN refs - 1 ELSE refs
  /\ UNCHANGED <<target, has_blk>>

\* rk_gfx_osd_destroy(), also from rk_gfx_close(): each part that is marked is undone.
Destroy ==
  /\ osd' = osd \ ((IF attached THEN All("venc") ELSE {})
                   \cup (IF vo_ready THEN {"uibind", "uilayer", "uichn"} ELSE {})
                   \cup (IF has_blk THEN {"mmz", "address"} ELSE {}))
  /\ attached' = FALSE /\ vo_ready' = FALSE /\ has_blk' = FALSE /\ canvas' = FALSE
  /\ sys_acquired' = FALSE /\ refs' = IF sys_acquired THEN refs - 1 ELSE refs
  /\ UNCHANGED target

\* rk_gfx_osd_flush() goes by the target of the last create(): to the screen, to the
\* region, or nowhere.
FlushesTo ==
  IF target = "vo" THEN IF vo_ready /\ has_blk THEN "vo" ELSE "none"
  ELSE IF attached THEN "venc" ELSE "none"

Next == Destroy \/ \E t \in {"vo", "venc"} : CreateFails(t) \/ Create(t)

Spec == Init /\ [][Next]_vars

-----------------------------------------------------------------------------
(* Correctness. *)

(* A device holds one whole overlay or nothing, after every failure and in  *)
(* every order of its targets, and one reference while it has an overlay.  *)
WholeOrNothing ==
  /\ osd = IF canvas THEN All(target) ELSE {}
  /\ refs = IF canvas THEN 1 ELSE 0

(* What is drawn is flushed where it is shown: a create() that failed for   *)
(* another target does not redirect the overlay there is.                  *)
FlushesWhatIsShown == FlushesTo = IF canvas THEN target ELSE "none"
===============================================================================
