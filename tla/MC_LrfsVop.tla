------------------------------ MODULE MC_LrfsVop ------------------------------
(* Instantiates LrfsVop for TLC: the root and one other lrfs vnode, their  *)
(* lower vnodes, and one vnode of another mount.                           *)
EXTENDS LrfsVop, TLC

CONSTANTS ur, u1, lr, l1, x

LowerMap == (ur :> lr) @@ (u1 :> l1)
=============================================================================
