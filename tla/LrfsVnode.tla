----------------------------- MODULE LrfsVnode -----------------------------
(***************************************************************************)
(* The vnode lock of the lrfs stacking layer (src/redirfs/rfs_path.c,     *)
(* lrfs_lock, lrfs_unlock, lrfs_reclaim, lrfs_getwritemount).              *)
(*                                                                         *)
(* An lrfs vnode vp stacks on a lower vnode lvp.  While vp is live         *)
(* (v_data points to its lrfs_node) its lock is lvp's lock: lrfs_lock and  *)
(* lrfs_unlock pass the request down, holding lvp (vholdl) across the      *)
(* call.  lrfs_reclaim, run by vgone with vp locked exclusively, takes     *)
(* vp's own v_lock, clears v_data, points v_vnlock at v_lock and vputs     *)
(* lvp, releasing the lower lock and the layer's reference.  A thread that *)
(* slept in lvp's lock meanwhile wakes holding the wrong lock and must     *)
(* switch to vp's own.                                                     *)
(*                                                                         *)
(* One vnode, lockers that lock and unlock it in either mode or ask for    *)
(* its write mount, and one thread that forcibly reclaims it.  The         *)
(* interlocks VI_LOCK(vp) and VI_LOCK(lvp) are modelled; lockmgr is a      *)
(* blocking shared/exclusive lock.                                         *)
(***************************************************************************)
EXTENDS Integers

CONSTANTS
  Lockers,     \* threads calling VOP_LOCK / VOP_UNLOCK / VOP_GETWRITEMOUNT
  Reclaimer,   \* the thread running vgone on vp
  NoThread     \* owner of a free lock or interlock

Threads == Lockers \cup {Reclaimer}
Modes   == {"excl", "shared"}

VARIABLES
  pc,       \* where each thread is
  mode,     \* the lock mode its lrfs_lock call asked for
  vdata,    \* vp->v_data # NULL (the lrfs_node is attached)
  vnlock,   \* vp->v_vnlock: "lower" (lvp's lock) or "own" (vp->v_lock)
  lk,       \* lockmgr state of "lower" and "own": [x: excl owner, s: sharers]
  ilk,      \* interlock owner of "vp" and "lvp"
  hold,     \* lvp's hold count taken by vholdl in this file
  use       \* lvp's use count: the reference the lrfs_node keeps

vars == <<pc, mode, vdata, vnlock, lk, ilk, hold, use>>

-----------------------------------------------------------------------------
(* lockmgr and the interlocks.                                             *)

FreeLock == [x |-> NoThread, s |-> {}]

\* The lock a thread sleeps on in lockmgr, if any.
WaitsOn(t) ==
  CASE pc[t] = "lock_lower_wait"             -> "lower"
    [] pc[t] \in {"relock_std", "std_lock"}  -> vnlock
    [] pc[t] = "reclaim"                     -> "own"
    [] OTHER                                 -> "none"

\* LK_CAN_SHARE: a shared request waits while an exclusive one is queued.
CanGet(l, m) ==
  /\ lk[l].x = NoThread
  /\ IF m = "excl" THEN lk[l].s = {}
     ELSE \A u \in Threads : ~(WaitsOn(u) = l /\ mode[u] = "excl")

Get(l, t, m) ==
  IF m = "excl" THEN [lk EXCEPT ![l].x = t] ELSE [lk EXCEPT ![l].s = @ \cup {t}]

Drop(l, t) ==
  [lk EXCEPT ![l] = [x |-> IF @.x = t THEN NoThread ELSE @.x, s |-> @.s \ {t}]]

Holds(t, l) == lk[l].x = t \/ t \in lk[l].s

Free(i) == ilk[i] = NoThread

\* Where a call returns to: a locker to its caller, the reclaimer, whose
\* VOP_LOCK was vgone's, into lrfs_reclaim and after its unlock out.
Locked(t) == IF t = Reclaimer THEN "reclaim" ELSE "locked"
Done(t)   == IF t = Reclaimer THEN "dead" ELSE "idle"

-----------------------------------------------------------------------------
Init ==
  /\ pc = [t \in Threads |-> "idle"]
  /\ mode = [t \in Threads |-> "excl"]
  /\ vdata = TRUE
  /\ vnlock = "lower"
  /\ lk = [l \in {"lower", "own"} |-> FreeLock]
  /\ ilk = [i \in {"vp", "lvp"} |-> NoThread]
  /\ hold = 0
  /\ use = 1

(* lrfs_lock.                                                              *)

\* VOP_LOCK(vp): lockers in either mode, vgone exclusively.
CallLock(t) ==
  /\ pc[t] = "idle"
  /\ \E m \in (IF t = Reclaimer THEN {"excl"} ELSE Modes) :
       /\ mode' = [mode EXCEPT ![t] = m]
       /\ pc' = [pc EXCEPT ![t] = "lock_ilk"]
  /\ UNCHANGED <<vdata, vnlock, lk, ilk, hold, use>>

\* VI_LOCK(vp) unless the caller passed LK_INTERLOCK.
LockInterlock(t) ==
  /\ pc[t] = "lock_ilk"
  /\ Free("vp")
  /\ ilk' = [ilk EXCEPT !["vp"] = t]
  /\ pc' = [pc EXCEPT ![t] = "lock_check"]
  /\ UNCHANGED <<mode, vdata, vnlock, lk, hold, use>>

\* Mutant: lvp not held across the call into its lock.
LockCheckNoHold(t) ==
  /\ pc[t] = "lock_check"
  /\ \/ /\ vdata
        /\ Free("lvp")
        /\ ilk' = [ilk EXCEPT !["vp"] = NoThread, !["lvp"] = t]
        /\ pc' = [pc EXCEPT ![t] = "lock_lower"]
     \/ /\ ~vdata
        /\ ilk' = [ilk EXCEPT !["vp"] = NoThread]
        /\ pc' = [pc EXCEPT ![t] = "std_lock"]
  /\ UNCHANGED <<mode, vdata, vnlock, lk, use, hold>>

\* nn = VTOLRFS(vp): if live, VI_LOCK(lvp), VI_UNLOCK(vp), vholdl(lvp);
\* else vop_stdlock, which drops the interlock before it sleeps.
LockCheck(t) ==
  /\ pc[t] = "lock_check"
  /\ \/ /\ vdata
        /\ Free("lvp")
        /\ ilk' = [ilk EXCEPT !["vp"] = NoThread, !["lvp"] = t]
        /\ hold' = hold + 1
        /\ pc' = [pc EXCEPT ![t] = "lock_lower"]
     \/ /\ ~vdata
        /\ ilk' = [ilk EXCEPT !["vp"] = NoThread]
        /\ pc' = [pc EXCEPT ![t] = "std_lock"]
        /\ UNCHANGED hold
  /\ UNCHANGED <<mode, vdata, vnlock, lk, use>>

\* VOP_LOCK(lvp, flags | LK_INTERLOCK): lockmgr releases lvp's interlock.
LockLower(t) ==
  /\ pc[t] = "lock_lower"
  /\ ilk' = [ilk EXCEPT !["lvp"] = NoThread]
  /\ pc' = [pc EXCEPT ![t] = "lock_lower_wait"]
  /\ UNCHANGED <<mode, vdata, vnlock, lk, hold, use>>

\* ... and sleeps until it grants lvp's lock.
LockLowerGrant(t) ==
  /\ pc[t] = "lock_lower_wait"
  /\ CanGet("lower", mode[t])
  /\ lk' = Get("lower", t, mode[t])
  /\ pc' = [pc EXCEPT ![t] = "lock_recheck"]
  /\ UNCHANGED <<mode, vdata, vnlock, ilk, hold, use>>

\* Mutant: the lock of lvp kept when the vnode was reclaimed meanwhile.
LockRecheckKeepsLower(t) ==
  /\ pc[t] = "lock_recheck"
  /\ pc' = [pc EXCEPT ![t] = IF vdata THEN "lock_vdrop" ELSE "relock_std"]
  /\ UNCHANGED <<mode, vdata, vnlock, lk, ilk, hold, use>>

\* Mutant: no check that the vnode was reclaimed while the thread slept.
LockRecheckSkipped(t) ==
  /\ pc[t] = "lock_recheck"
  /\ pc' = [pc EXCEPT ![t] = "lock_vdrop"]
  /\ UNCHANGED <<mode, vdata, vnlock, lk, ilk, hold, use>>

\* if (VTOLRFS(vp) == NULL && error == 0): VOP_UNLOCK(lvp) and relock.
LockRecheck(t) ==
  /\ pc[t] = "lock_recheck"
  /\ \/ /\ vdata
        /\ pc' = [pc EXCEPT ![t] = "lock_vdrop"]
        /\ UNCHANGED lk
     \/ /\ ~vdata
        /\ lk' = Drop("lower", t)
        /\ pc' = [pc EXCEPT ![t] = "relock_std"]
  /\ UNCHANGED <<mode, vdata, vnlock, ilk, hold, use>>

\* vop_stdlock(ap) on the lock v_vnlock now names (LK_UPGRADE as excl).
RelockStd(t) ==
  /\ pc[t] = "relock_std"
  /\ CanGet(vnlock, mode[t])
  /\ lk' = Get(vnlock, t, mode[t])
  /\ pc' = [pc EXCEPT ![t] = "lock_vdrop"]
  /\ UNCHANGED <<mode, vdata, vnlock, ilk, hold, use>>

LockVdrop(t) ==
  /\ pc[t] = "lock_vdrop"
  /\ hold' = hold - 1
  /\ pc' = [pc EXCEPT ![t] = Locked(t)]
  /\ UNCHANGED <<mode, vdata, vnlock, lk, ilk, use>>

\* vop_stdlock of a reclaimed vnode: its own lock.
StdLock(t) ==
  /\ pc[t] = "std_lock"
  /\ CanGet(vnlock, mode[t])
  /\ lk' = Get(vnlock, t, mode[t])
  /\ pc' = [pc EXCEPT ![t] = Locked(t)]
  /\ UNCHANGED <<mode, vdata, vnlock, ilk, hold, use>>

-----------------------------------------------------------------------------
(* lrfs_reclaim, called by vgone with vp locked exclusively.               *)

\* lrfs_hashrem(xp), then lockmgr(&vp->v_lock, LK_EXCLUSIVE).
ReclaimLockOwn(t) ==
  /\ pc[t] = "reclaim"
  /\ lk["own"].x = NoThread /\ lk["own"].s = {}
  /\ lk' = Get("own", t, "excl")
  /\ pc' = [pc EXCEPT ![t] = "rc_clear"]
  /\ UNCHANGED <<mode, vdata, vnlock, ilk, hold, use>>

\* Under VI_LOCK(vp): v_data = NULL, v_vnlock = &vp->v_lock.
ReclaimClear(t) ==
  /\ pc[t] = "rc_clear"
  /\ Free("vp")
  /\ vdata' = FALSE
  /\ vnlock' = "own"
  /\ pc' = [pc EXCEPT ![t] = "rc_vput"]
  /\ UNCHANGED <<mode, lk, ilk, hold, use>>

\* vput(lowervp): unlock lvp and drop the layer's reference; free(xp).
ReclaimVput(t) ==
  /\ pc[t] = "rc_vput"
  /\ lk' = Drop("lower", t)
  /\ use' = use - 1
  /\ pc' = [pc EXCEPT ![t] = "unlock_ilk"]   \* vgone's VOP_UNLOCK(vp)
  /\ UNCHANGED <<mode, vdata, vnlock, ilk, hold>>

-----------------------------------------------------------------------------
(* lrfs_unlock, called without LK_INTERLOCK and without the interlock.     *)

CallUnlock(t) ==
  /\ pc[t] = "locked"
  /\ pc' = [pc EXCEPT ![t] = "unlock_ilk"]
  /\ UNCHANGED <<mode, vdata, vnlock, lk, ilk, hold, use>>

\* mtx_owned(VI_MTX(vp)) == 0: VI_LOCK(vp), mtxlkflag = 2.
UnlockInterlock(t) ==
  /\ pc[t] = "unlock_ilk"
  /\ Free("vp")
  /\ ilk' = [ilk EXCEPT !["vp"] = t]
  /\ pc' = [pc EXCEPT ![t] = "unlock_check"]
  /\ UNCHANGED <<mode, vdata, vnlock, lk, hold, use>>

\* Live: VI_LOCK(lvp), vholdl(lvp), VI_UNLOCK(vp).  Reclaimed:
\* VI_UNLOCK(vp) and vop_stdunlock.
UnlockCheck(t) ==
  /\ pc[t] = "unlock_check"
  /\ \/ /\ vdata
        /\ Free("lvp")
        /\ ilk' = [ilk EXCEPT !["vp"] = NoThread, !["lvp"] = t]
        /\ hold' = hold + 1
        /\ pc' = [pc EXCEPT ![t] = "unlock_lower"]
     \/ /\ ~vdata
        /\ ilk' = [ilk EXCEPT !["vp"] = NoThread]
        /\ pc' = [pc EXCEPT ![t] = "unlock_std"]
        /\ UNCHANGED hold
  /\ UNCHANGED <<mode, vdata, vnlock, lk, use>>

\* VOP_UNLOCK(lvp, flags | LK_INTERLOCK).
UnlockLower(t) ==
  /\ pc[t] = "unlock_lower"
  /\ lk' = Drop("lower", t)
  /\ ilk' = [ilk EXCEPT !["lvp"] = NoThread]
  /\ pc' = [pc EXCEPT ![t] = "unlock_vdrop"]
  /\ UNCHANGED <<mode, vdata, vnlock, hold, use>>

\* vdrop(lvp); mtxlkflag is 2, so the interlock is not taken again.
UnlockVdrop(t) ==
  /\ pc[t] = "unlock_vdrop"
  /\ hold' = hold - 1
  /\ pc' = [pc EXCEPT ![t] = Done(t)]
  /\ UNCHANGED <<mode, vdata, vnlock, lk, ilk, use>>

UnlockStd(t) ==
  /\ pc[t] = "unlock_std"
  /\ lk' = Drop(vnlock, t)
  /\ pc' = [pc EXCEPT ![t] = Done(t)]
  /\ UNCHANGED <<mode, vdata, vnlock, ilk, hold, use>>

-----------------------------------------------------------------------------
(* lrfs_getwritemount, called without the vnode lock.                      *)

CallGetWriteMount(t) ==
  /\ pc[t] = "idle"
  /\ t \in Lockers
  /\ pc' = [pc EXCEPT ![t] = "gw_ilk"]
  /\ UNCHANGED <<mode, vdata, vnlock, lk, ilk, hold, use>>

GwInterlock(t) ==
  /\ pc[t] = "gw_ilk"
  /\ Free("vp")
  /\ ilk' = [ilk EXCEPT !["vp"] = t]
  /\ pc' = [pc EXCEPT ![t] = "gw_check"]
  /\ UNCHANGED <<mode, vdata, vnlock, lk, hold, use>>

\* Live: VI_LOCK(lvp), VI_UNLOCK(vp), vholdl(lvp), VI_UNLOCK(lvp).
\* Reclaimed: VI_UNLOCK(vp), *a_mpp = NULL.
GwCheck(t) ==
  /\ pc[t] = "gw_check"
  /\ ilk' = [ilk EXCEPT !["vp"] = NoThread]
  /\ \/ /\ vdata
        /\ Free("lvp")
        /\ hold' = hold + 1
        /\ pc' = [pc EXCEPT ![t] = "gw_call"]
     \/ /\ ~vdata
        /\ pc' = [pc EXCEPT ![t] = "idle"]
        /\ UNCHANGED hold
  /\ UNCHANGED <<mode, vdata, vnlock, lk, use>>

\* VOP_GETWRITEMOUNT(lowervp), then vdrop(lowervp).
GwCall(t) ==
  /\ pc[t] = "gw_call"
  /\ hold' = hold - 1
  /\ pc' = [pc EXCEPT ![t] = "idle"]
  /\ UNCHANGED <<mode, vdata, vnlock, lk, ilk, use>>

-----------------------------------------------------------------------------
Step(t) ==
  \/ LockInterlock(t) \/ LockCheck(t) \/ LockLower(t) \/ LockLowerGrant(t)
  \/ LockRecheck(t) \/ RelockStd(t) \/ LockVdrop(t) \/ StdLock(t)
  \/ ReclaimLockOwn(t) \/ ReclaimClear(t) \/ ReclaimVput(t)
  \/ UnlockInterlock(t) \/ UnlockCheck(t) \/ UnlockLower(t)
  \/ UnlockVdrop(t) \/ UnlockStd(t)
  \/ GwInterlock(t) \/ GwCheck(t) \/ GwCall(t)

Next ==
  \E t \in Threads :
    CallLock(t) \/ CallUnlock(t) \/ CallGetWriteMount(t) \/ Step(t)

Spec == Init /\ [][Next]_vars

(* Fairness.  A thread inside a call keeps running, and a thread waiting   *)
(* for a lock or an interlock that is free infinitely often gets it:       *)
(* lockmgr and the interlock mutex queue their waiters.  A caller holding  *)
(* the vnode lock eventually unlocks it.  No thread need call.             *)
FairSpec ==
  /\ Spec
  /\ \A t \in Threads : SF_vars(Step(t)) /\ WF_vars(CallUnlock(t))

-----------------------------------------------------------------------------
(* Properties.                                                             *)

\* The threads VnodeLock counts as holding vp's lock: from the return of
\* lrfs_lock until the release step of lrfs_unlock.
Holding == {"locked", "reclaim", "rc_clear", "rc_vput", "unlock_ilk",
            "unlock_check", "unlock_lower", "unlock_std"}

Abs == INSTANCE VnodeLock WITH
         Threads <- Threads,
         holder <- [t \in Threads |-> IF pc[t] \in Holding THEN mode[t] ELSE "none"]

(* The stacked lock is one shared/exclusive lock to its callers across a   *)
(* reclaim: lrfs_lock returns only when no other holder conflicts, also    *)
(* when the thread slept in lvp's lock while lrfs_reclaim moved v_vnlock   *)
(* to vp's own lock.                                                       *)
RefinesVnodeLock == Abs!Spec

\* Where a thread uses lvp: inside VOP_LOCK, VOP_UNLOCK or
\* VOP_GETWRITEMOUNT of lvp, or holding lvp's lock.
UsesLower(t) ==
  pc[t] \in {"lock_lower", "lock_lower_wait", "gw_call", "unlock_lower"}
  \/ (pc[t] = "lock_recheck" /\ Holds(t, "lower"))

(* lvp is not recycled while a thread uses it: the vholdl of lrfs_lock,    *)
(* lrfs_unlock and lrfs_getwritemount keeps a hold on lvp after            *)
(* lrfs_reclaim's vput has dropped the layer's last reference.             *)
LowerHeldWhileUsed ==
  (\E t \in Threads : UsesLower(t)) => hold > 0 \/ use > 0

(* Every lrfs_lock, lrfs_unlock and lrfs_getwritemount call returns, and   *)
(* vgone's reclaim completes: no thread is left waiting on a lock nobody   *)
(* will release.                                                           *)
CallsReturn ==
  \A t \in Threads : pc[t] \notin {"idle", "locked", "dead"} ~>
                     pc[t] \in {"idle", "locked", "dead"}

=============================================================================
