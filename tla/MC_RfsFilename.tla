---------------------------- MODULE MC_RfsFilename ----------------------------
(* A namespace of two filesystems and three mounts:                        *)
(*   fs1: r1 (root) with x and w below it, y below x;                      *)
(*   fs2: r2 (root) with z below it;                                       *)
(*   m1 mounts fs1 as the root mount, m2 mounts fs2 on x of m1, and m3     *)
(*   bind-mounts x of fs1 on z of m2.                                      *)
(* Names: /x for x and r2, /x/yy for y through m1, /x/z for z and for x    *)
(* through m3, /x/z/yy for y through m3: every mount crossing, a mount     *)
(* root named through its parent, and a two-byte name.                     *)
EXTENDS RfsFilename

CONSTANTS r1, x, y, w, r2, z, m1, m2, m3

DentMC      == {r1, x, y, w, r2, z}
DParentMC   == (r1 :> r1) @@ (x :> r1) @@ (y :> x) @@ (w :> r1)
               @@ (r2 :> r2) @@ (z :> r2)
DLenMC      == [d \in DentMC |-> IF d = y THEN 2 ELSE 1]
MntsMC      == {m1, m2, m3}
MntRootMC   == (m1 :> r1) @@ (m2 :> r2) @@ (m3 :> x)
MntParentMC == (m1 :> m1) @@ (m2 :> m1) @@ (m3 :> m2)
MntPointMC  == (m1 :> r1) @@ (m2 :> x) @@ (m3 :> z)

\* Every pair a path can be registered on: a dentry each mount shows.
PairsShown ==
  {<<m1, r1>>, <<m1, x>>, <<m1, y>>, <<m1, w>>, <<m2, r2>>, <<m2, z>>,
   <<m3, x>>, <<m3, y>>}

\* Also w registered through m3 while it lay below x, then renamed through
\* m1 to r1: the path keeps <<m3, w>>, which m3 no longer shows.
PairsMoved == PairsShown \cup {<<m3, w>>}

\* rfs_path_list contents: up to three paths, one of them citing neither
\* chain of the filter, in every order.
Pool ==
  {[type |-> "i", id |-> 0, mnt |-> m1, dentry |-> y],
   [type |-> "e", id |-> 1, mnt |-> m3, dentry |-> x],
   [type |-> "-", id |-> 2, mnt |-> m2, dentry |-> z]}

ListingsMC == {l \in BoundedSeq(Pool, 3) : IsInjective(l)}
=============================================================================
