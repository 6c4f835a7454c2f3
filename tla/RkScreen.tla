------------------------------- MODULE RkScreen -------------------------------
(***************************************************************************)
(* The display and the graphics HAL on one screen (display_rockchip.c,     *)
(* graphics_rockchip.c).  The preview and the user interface each start a  *)
(* display; the user interface then puts its overlay on the UI layer of    *)
(* the device that the display HAL owns (graphics_rockchip.c:385), and     *)
(* removes it before it stops its display.                                 *)
(***************************************************************************)
EXTENDS Integers

CONSTANTS Devices, Ui, PoolSize

VARIABLES started, refcount, hw, pool, holding,
          target, attached, vo_ready, sys_acquired, has_blk, osd, refs, canvas
displayVars == <<started, refcount, hw, pool, holding>>
graphicsVars == <<target, attached, vo_ready, sys_acquired, has_blk, osd, refs, canvas>>
vars == <<displayVars, graphicsVars>>

Display == INSTANCE RkDisplay
Graphics == INSTANCE RkGraphics

Init == Display!Init /\ Graphics!Init

DisplayStep ==
  /\ Display!Next /\ UNCHANGED graphicsVars
  /\ vo_ready => Ui \in started'

GraphicsStep ==
  /\ Graphics!Next /\ UNCHANGED displayVars
  /\ vo_ready' => Ui \in started /\ holding[Ui] = 0

Next == DisplayStep \/ GraphicsStep

Spec == Init /\ [][Next]_vars

(* The overlay's layer is on a device that is enabled: the preview's stop() *)
(* does not take the screen from under the user interface.                 *)
OverlayHasScreen == "uilayer" \in osd => {"sys", "dev"} \subseteq hw

UpWhileUsed == Display!UpWhileUsed
BlockLives == Display!BlockLives
WholeOrNothing == Graphics!WholeOrNothing
FlushesWhatIsShown == Graphics!FlushesWhatIsShown
===============================================================================
