------------------------------ MODULE VendorSys ------------------------------
(***************************************************************************)
(* The guard of a vendor's process-wide media system: mpi_sys_guard.c of   *)
(* platform/vendors/rockchip (one part: the system), vs_sys_guard.c of     *)
(* visinextek (two: the buffers, then the system).  The first acquire()    *)
(* brings the parts up one by one, the last release() takes them down;     *)
(* both hold a lock that other callers wait for.  The users are devices of *)
(* the HALs: each holds one reference at most, which its sys_acquired      *)
(* remembers.                                                              *)
(***************************************************************************)
EXTENDS Integers, FiniteSetTheorems, TLAPS

CONSTANTS Users, NoUser, PartCount

ASSUME GuardAssumption == NoUser \notin Users /\ PartCount \in Nat

VARIABLES
  lock, refcount,
  up,      \* how many parts are up
  pc,      \* "free", "up" or "down": what the user does
  holders  \* the users that have been given a reference
vars == <<lock, refcount, up, pc, holders>>

Init ==
  /\ lock = NoUser /\ refcount = 0 /\ up = 0
  /\ pc = [u \in Users |-> "free"] /\ holders = {}

Free(u) == lock' = NoUser /\ pc' = [pc EXCEPT ![u] = "free"]

\* Mutant of Acquire: the reference is counted before the system is up.
AcquireEarly(u) ==
  /\ pc[u] = "free" /\ lock = NoUser /\ u \notin holders
  /\ refcount' = refcount + 1 /\ holders' = holders \cup {u}
  /\ IF refcount > 0 THEN UNCHANGED <<lock, pc>>
     ELSE lock' = u /\ pc' = [pc EXCEPT ![u] = "up"]
  /\ UNCHANGED up

\* rk_mpi_sys_acquire(), vs_sys_acquire(): a user more, or the system is to come up.
Acquire(u) ==
  /\ pc[u] = "free" /\ lock = NoUser /\ u \notin holders
  /\ IF refcount > 0
     THEN /\ refcount' = refcount + 1 /\ holders' = holders \cup {u}
          /\ UNCHANGED <<lock, pc>>
     ELSE lock' = u /\ pc' = [pc EXCEPT ![u] = "up"] /\ UNCHANGED <<refcount, holders>>
  /\ UNCHANGED up

BringUp(u) ==
  /\ pc[u] = "up" /\ up < PartCount /\ up' = up + 1
  /\ UNCHANGED <<lock, refcount, pc, holders>>

Acquired(u) ==
  /\ pc[u] = "up" /\ up = PartCount
  /\ Free(u) /\ refcount' = refcount + 1 /\ holders' = holders \cup {u} /\ UNCHANGED up

\* Mutant of Fails: what came up before stays up.
FailsHalfway(u) ==
  /\ pc[u] = "up" /\ up < PartCount /\ Free(u) /\ UNCHANGED <<refcount, up, holders>>

\* A part does not come up: the parts before it are taken down again.
Fails(u) ==
  /\ pc[u] = "up" /\ up < PartCount /\ up' = 0 /\ Free(u) /\ UNCHANGED <<refcount, holders>>

\* Mutant of Release: the system goes down under the other users.
ReleaseAll(u) ==
  /\ pc[u] = "free" /\ lock = NoUser /\ u \in holders /\ refcount > 0
  /\ refcount' = refcount - 1 /\ holders' = holders \ {u}
  /\ lock' = u /\ pc' = [pc EXCEPT ![u] = "down"] /\ UNCHANGED up

\* rk_mpi_sys_release(), vs_sys_release()
Release(u) ==
  /\ pc[u] = "free" /\ lock = NoUser /\ u \in holders /\ refcount > 0
  /\ refcount' = refcount - 1 /\ holders' = holders \ {u}
  /\ IF refcount = 1 THEN lock' = u /\ pc' = [pc EXCEPT ![u] = "down"]
     ELSE UNCHANGED <<lock, pc>>
  /\ UNCHANGED up

\* One part after the other goes down, then the lock is released.
TakeDown(u) ==
  /\ pc[u] = "down"
  /\ IF up > 0 THEN up' = up - 1 /\ UNCHANGED <<lock, pc>> ELSE Free(u) /\ UNCHANGED up
  /\ UNCHANGED <<refcount, holders>>

Next ==
  \E u \in Users :
    Acquire(u) \/ BringUp(u) \/ Acquired(u) \/ Fails(u) \/ Release(u) \/ TakeDown(u)

Spec == Init /\ [][Next]_vars

-----------------------------------------------------------------------------
(* Correctness. *)

TypeOK ==
  /\ lock \in Users \cup {NoUser} /\ refcount \in Nat /\ up \in 0 .. PartCount
  /\ pc \in [Users -> {"free", "up", "down"}] /\ holders \subseteq Users

(* Whoever holds a reference finds the whole system up, whatever the others *)
(* do meanwhile; when nobody holds one and nobody is at it, it is down.    *)
UpForItsUsers ==
  /\ holders # {} => up = PartCount
  /\ lock = NoUser /\ holders = {} => up = 0

(* The system is brought up and taken down by one user at a time, and only  *)
(* while no other holds it.                                                *)
OneAtIt == \A u \in Users : pc[u] # "free" => lock = u /\ holders = {}

-----------------------------------------------------------------------------
(* Proofs, for every set of users and every number of parts. *)

(* The count is of the holders, and the lock is held by the one user that   *)
(* moves the system, which nobody holds then.                              *)
Counted == IsFiniteSet(holders) /\ refcount = Cardinality(holders)

Moved ==
  IF lock = NoUser
  THEN /\ \A u \in Users : pc[u] = "free"
       /\ up = IF holders = {} THEN 0 ELSE PartCount
  ELSE /\ holders = {} /\ pc[lock] # "free"
       /\ \A u \in Users \ {lock} : pc[u] = "free"

IInv == TypeOK /\ Counted /\ Moved

(* A count is zero exactly when there is no holder.                        *)
LEMMA CountZero == Counted => refcount \in Nat /\ (refcount = 0 <=> holders = {})
  BY FS_EmptySet, FS_CardinalityType DEF Counted

(* A reference more is counted. *)
LEMMA CountMore ==
  ASSUME Counted, NEW u, u \notin holders
  PROVE  IsFiniteSet(holders \cup {u}) /\ Cardinality(holders \cup {u}) = refcount + 1
  BY FS_AddElement DEF Counted

(* A reference less is counted; after the last one there is no holder.     *)
LEMMA CountLess ==
  ASSUME Counted, NEW u \in holders
  PROVE  /\ IsFiniteSet(holders \ {u}) /\ Cardinality(holders \ {u}) = refcount - 1
         /\ refcount = 1 => holders \ {u} = {}
         /\ refcount # 1 => holders \ {u} # {}
<1>1. IsFiniteSet(holders \ {u}) /\ Cardinality(holders \ {u}) = refcount - 1
  BY FS_RemoveElement DEF Counted
<1>2. Cardinality(holders \ {u}) = 0 <=> holders \ {u} = {}
  BY <1>1, FS_EmptySet
<1>3. refcount \in Nat
  BY CountZero
<1> QED
  BY <1>1, <1>2, <1>3

LEMMA InitInv == Init => IInv
  BY GuardAssumption, FS_EmptySet DEF Init, IInv, TypeOK, Counted, Moved

(* Every step of the guard keeps the invariant. *)
LEMMA NextInv == IInv /\ [Next]_vars => IInv'
<1> SUFFICES ASSUME IInv, [Next]_vars PROVE IInv'
  OBVIOUS
<1> USE GuardAssumption
<1>0. refcount \in Nat /\ (refcount = 0 <=> holders = {})
  BY CountZero DEF IInv
<1>1. ASSUME NEW u \in Users, Acquire(u) PROVE IInv'
  <2>1. CASE refcount > 0
    BY <1>0, <1>1, <2>1, CountMore DEF Acquire, IInv, TypeOK, Counted, Moved
  <2>2. CASE ~(refcount > 0)
    BY <1>0, <1>1, <2>2 DEF Acquire, IInv, TypeOK, Counted, Moved
  <2> QED
    BY <2>1, <2>2
<1>2. ASSUME NEW u \in Users, BringUp(u) PROVE IInv'
  BY <1>2 DEF BringUp, IInv, TypeOK, Counted, Moved
<1>3. ASSUME NEW u \in Users, Acquired(u) PROVE IInv'
  <2>1. u \notin holders /\ lock = u
    BY <1>3 DEF Acquired, IInv, TypeOK, Moved
  <2>2. Counted'
    <3>1. IsFiniteSet(holders \cup {u}) /\ Cardinality(holders \cup {u}) = refcount + 1
      BY <2>1, CountMore DEF IInv
    <3> QED
      BY <1>3, <3>1 DEF Acquired, Counted
  <2>3. TypeOK' /\ Moved'
    BY <1>0, <1>3, <2>1 DEF Acquired, Free, IInv, TypeOK, Moved
  <2> QED
    BY <2>2, <2>3 DEF IInv
<1>4. ASSUME NEW u \in Users, Fails(u) PROVE IInv'
  BY <1>4 DEF Fails, Free, IInv, TypeOK, Counted, Moved
<1>5. ASSUME NEW u \in Users, Release(u) PROVE IInv'
  BY <1>0, <1>5, CountLess DEF Release, IInv, TypeOK, Counted, Moved
<1>6. ASSUME NEW u \in Users, TakeDown(u) PROVE IInv'
  BY <1>6 DEF TakeDown, Free, IInv, TypeOK, Counted, Moved
<1>7. CASE UNCHANGED vars
  BY <1>7 DEF vars, IInv, TypeOK, Counted, Moved
<1> QED
  BY <1>1, <1>2, <1>3, <1>4, <1>5, <1>6, <1>7 DEF Next

LEMMA Invariance == Spec => []IInv
  BY InitInv, NextInv, PTL DEF Spec

(* The types of the guard's state. *)
THEOREM TypeCorrect == Spec => []TypeOK
<1>1. IInv => TypeOK
  BY DEF IInv
<1> QED
  BY <1>1, Invariance, PTL

(* The system is up, whole, for whoever holds a reference, and down at     *)
(* rest (rk_mpi_sys_acquire(), vs_sys_acquire() and their releases).       *)
THEOREM Up == Spec => []UpForItsUsers
<1>1. IInv => UpForItsUsers
  BY GuardAssumption DEF IInv, TypeOK, Moved, UpForItsUsers
<1> QED
  BY <1>1, Invariance, PTL

(* One user at a time moves the system, and nobody holds it meanwhile.     *)
THEOREM One == Spec => []OneAtIt
<1>1. IInv => OneAtIt
  BY GuardAssumption DEF IInv, TypeOK, Moved, OneAtIt
<1> QED
  BY <1>1, Invariance, PTL
==============================================================================
