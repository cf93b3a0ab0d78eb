----------------------------- MODULE VnodeLock -----------------------------
(***************************************************************************)
(* What VOP_LOCK1 and VOP_UNLOCK promise a caller of an lrfs vnode: one    *)
(* shared/exclusive lock per vnode (lockmgr semantics), taken and dropped  *)
(* in single steps.  An exclusive holder excludes every other holder; any  *)
(* number of threads may hold it shared.  LrfsVnode, in which the lock is  *)
(* the lower vnode's lock until lrfs_reclaim switches to the vnode's own,  *)
(* is checked to implement it.                                             *)
(***************************************************************************)
CONSTANTS Threads

VARIABLES holder   \* holder[t]: "excl", "shared" or "none"

Modes == {"excl", "shared"}

Compatible(t, m) ==
  \A u \in Threads \ {t} :
    holder[u] = "none" \/ (m = "shared" /\ holder[u] = "shared")

Init == holder = [t \in Threads |-> "none"]

Acquire(t, m) ==
  /\ holder[t] = "none"
  /\ Compatible(t, m)
  /\ holder' = [holder EXCEPT ![t] = m]

Release(t) ==
  /\ holder[t] # "none"
  /\ holder' = [holder EXCEPT ![t] = "none"]

Next == \E t \in Threads : Release(t) \/ \E m \in Modes : Acquire(t, m)

Spec == Init /\ [][Next]_holder

=============================================================================
