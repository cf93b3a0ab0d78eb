----------------------------- MODULE MC_RfsPath -----------------------------
(* Instantiates RfsPath for TLC.  Threads, filters, dentries and object    *)
(* slots are model values; the cfg files choose how many of each.          *)
EXTENDS RfsPath, TLC

CONSTANTS t1, t2, f1, f2

\* One thread per filter: each filter module removes only its own filter.
FltDistinct == (t1 :> f1) @@ (t2 :> f2)

\* Both threads act for the same filter (e.g. a module's unload path
\* racing its own control interface).
FltShared == (t1 :> f1) @@ (t2 :> f1)

\* A single filter thread.
FltOne == t1 :> f1

\* Every dentry is the root of its own rfs_root.
RootSelf == [d \in Dentries |-> d]

\* All registered pairs are bind mounts of one dentry, sharing its root.
RootShared == [d \in Dentries |-> "r"]

\* Slots and dentries are interchangeable: nothing orders them.
Symmetry == Permutations(Objs) \cup Permutations(Dentries)

\* With FltDistinct, exchanging the two threads together with their
\* filters is a symmetry too: nothing orders threads or filters.
SymmetryClients ==
  Symmetry \cup {(t1 :> t2) @@ (t2 :> t1) @@ (f1 :> f2) @@ (f2 :> f1)}
=============================================================================
