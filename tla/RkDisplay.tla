------------------------------ MODULE RkDisplay ------------------------------
(***************************************************************************)
(* platform/vendors/rockchip: the RV1126B display HAL                      *)
(* (display_rockchip.c).  The devices that are open share one screen: the  *)
(* first start() brings it up, the last stop() takes it down.  start() and *)
(* stop() run under g_vo_mtx and are atomic; show() takes a block of the   *)
(* shared pool under the lock and fills and sends it without.  A device    *)
(* has one caller, which is in show() or outside.                          *)
(***************************************************************************)
EXTENDS Integers, Sequences, FiniteSets

CONSTANTS Devices, PoolSize   \* RK_VO_POOL_CNT

VARIABLES
  started,   \* the devices that are counted
  refcount,  \* g_vo_refcount
  hw,        \* what is enabled, and the reference to the vendor's system
  pool,      \* how often the pool has been made: a block is of one of them
  holding    \* the pool of the block that a show() has taken, 0 without one
vars == <<started, refcount, hw, pool, holding>>

Steps == <<"sys", "dev", "bind", "layer", "chn", "pool">>
Screen == {Steps[i] : i \in DOMAIN Steps}

\* rk_display_open()
Init == started = {} /\ refcount = 0 /\ hw = {} /\ pool = 0 /\ holding = [d \in Devices |-> 0]

\* Mutant of OutLayer: the layer stays bound.
OutLayerBound == {"layer", "dev", "sys"}

\* The labels of rk_vo_bringup(): what is undone.
OutSys == {"sys"}
OutDev == {"dev"} \cup OutSys
OutLayer == {"layer", "bind"} \cup OutDev
OutChn == {"chn"} \cup OutLayer

\* What rk_vo_bringup() leaves when step k fails.
LeftAt(k) == {Steps[i] : i \in 1 .. k - 1} \ <<{}, OutSys, OutDev, OutLayer, OutLayer, OutChn>>[k]

\* Mutant of Start: a start of a screen that is up is not counted.
StartUncounted(d, k) ==
  /\ holding[d] = 0 /\ d \notin started
  /\ IF refcount > 0 THEN started' = started \cup {d} /\ UNCHANGED <<refcount, hw, pool>>
     ELSE IF k <= Len(Steps) THEN hw' = hw \cup LeftAt(k) /\ UNCHANGED <<started, refcount, pool>>
     ELSE /\ hw' = hw \cup Screen /\ pool' = (pool % (Cardinality(Devices) + 1)) + 1
          /\ refcount' = 1 /\ started' = started \cup {d}
  /\ UNCHANGED holding

\* rk_display_start(): step k fails, none when k is past the last.
Start(d, k) ==
  /\ holding[d] = 0 /\ d \notin started
  /\ IF refcount > 0
     THEN refcount' = refcount + 1 /\ started' = started \cup {d} /\ UNCHANGED <<hw, pool>>
     ELSE IF k \in DOMAIN Steps
     THEN hw' = hw \cup LeftAt(k) /\ UNCHANGED <<started, refcount, pool>>
     ELSE /\ hw' = hw \cup Screen /\ pool' = (pool % (Cardinality(Devices) + 1)) + 1
          /\ refcount' = 1 /\ started' = started \cup {d}
  /\ UNCHANGED holding

\* rk_vo_teardown(), of the last user.
Teardown == hw \ Screen

\* rk_display_stop(), also from rk_display_close()
Stop(d) ==
  /\ holding[d] = 0 /\ d \in started /\ started' = started \ {d}
  /\ refcount' = refcount - 1
  /\ hw' = IF refcount = 1 THEN Teardown ELSE hw
  /\ UNCHANGED <<pool, holding>>

\* rk_display_show() of a frame without a block of its own, up to the unlock.  The
\* screen must be up, whoever started it.
Show(d) ==
  /\ holding[d] = 0 /\ refcount > 0
  /\ Cardinality({c \in Devices : holding[c] = pool}) < PoolSize
  /\ holding' = [holding EXCEPT ![d] = pool]
  /\ UNCHANGED <<started, refcount, hw, pool>>

\* The frame is copied and sent, or has no address; the block is released.
Shown(d) ==
  /\ holding[d] # 0 /\ holding' = [holding EXCEPT ![d] = 0]
  /\ UNCHANGED <<started, refcount, hw, pool>>

Next == \E d \in Devices : Stop(d) \/ Show(d) \/ Shown(d) \/ \E k \in 1 .. 7 : Start(d, k)

Spec == Init /\ [][Next]_vars

-----------------------------------------------------------------------------
(* Correctness. *)

(* The screen is up exactly while a device is started, whichever device     *)
(* brought it up, and a bring-up that fails leaves nothing enabled.        *)
UpWhileUsed ==
  /\ refcount = Cardinality(started)
  /\ hw = IF started = {} THEN {} ELSE Screen

(* The block that a started device copies into is of the pool there is:    *)
(* another user's stop() does not destroy it.                              *)
BlockLives == \A d \in started : holding[d] # 0 => "pool" \in hw /\ holding[d] = pool
==============================================================================
