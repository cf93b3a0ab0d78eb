---------------------------- MODULE RfsRename ----------------------------
(***************************************************************************)
(* Rename propagation of src/redirfs/rfs_path.c (rfs_fsrename and the     *)
(* rfs_fsrename_{rem,set,add}* helpers, lines 758-1025).                   *)
(*                                                                         *)
(* A directory tree of dentries carries, per dentry, the cached resolved  *)
(* filter chain (rfs_dentry->rinfo: its root and chain).  A dentry that   *)
(* holds a registration (an rfs_path with include or exclude entries) is  *)
(* a root; every other dentry inherits the chain of its nearest root.  A  *)
(* rename moves a subtree and rfs_fsrename brings the cache up to date:   *)
(* remove phase, set phase, add phase, each applying one filter at a time *)
(* through the cache collaborators of rfs_info.c and rfs_root.c.         *)
(*                                                                         *)
(* rfs_info.c and rfs_root.c are not part of src/: their operations       *)
(* (rfs_info_add/rem/set/reset, rfs_root_add_flt/rem_flt, rfs_root_walk)  *)
(* are modelled from their interface in the specification: each walks    *)
(* the subtree below the entry and stops where a registered path names   *)
(* the filter itself.  Chains are sets listed in the priority order Prio. *)
(***************************************************************************)
EXTENDS FiniteSets, Sequences, SequencesExt

CONSTANTS
    Filters,      \* filter identities
    Prio,         \* the filters in chain order
    Dentries,     \* directory dentries of one file system
    Top,          \* its root dentry, never renamed
    Parent0,      \* the tree the file system starts with
    RegDentries,  \* dentries at which a registration may exist
    None,         \* NULL root / NULL parent
    AllocFails,   \* whether an allocation or collaborator call may fail
    MaxSteps      \* bound on the fallible calls a rename may count

ASSUME /\ Top \in Dentries /\ None \notin Dentries
       /\ Range(Prio) = Filters /\ IsInjective(Prio)
       /\ MaxSteps \in Nat

VARIABLES
    parent,   \* d_parent of every dentry
    inc,      \* inc[d]: filters with an include path at d (rpath->rinch)
    exc,      \* exc[d]: filters with an exclude path at d (rpath->rexch)
    info,     \* info[d]: the cached rfs_info of d, [root, chain]
    rv        \* return value of the last rfs_fsrename

vars == <<parent, inc, exc, info, rv>>

-----------------------------------------------------------------------------
(* The tree. *)

RECURSIVE AncOrSelf(_, _)
AncOrSelf(d, p) == IF d = Top THEN {d} ELSE {d} \cup AncOrSelf(p[d], p)

Subtree(e) == {y \in Dentries : e \in AncOrSelf(y, parent)}

\* The dentries from x down to y, both included.
Between(x, y) == AncOrSelf(y, parent) \ (AncOrSelf(x, parent) \ {x})

Names(z, f) == f \in inc[z] \cup exc[z]

Registered(z) == inc[z] \cup exc[z] # {}

-----------------------------------------------------------------------------
(* Chains.  A NULL chain is the empty set. *)

Chain(S) == SelectSeq(Prio, LAMBDA f : f \in S)

Info(r, c) == [root |-> r, chain |-> c]          \* rfs_info_alloc

-----------------------------------------------------------------------------
(* Cache collaborators (spec_modelled).  I is the cache before the call.  *)
(* A walk from e hands every dentry it reaches a new rinfo.  It stops at  *)
(* a sub-root, a dentry whose cached rinfo is its own root's: that root   *)
(* takes or drops the filter itself (rfs_root_add_flt / rfs_root_rem_flt) *)
(* unless a path at or above it, below e, names the filter, and installs  *)
(* its new rinfo on the dentries below it up to the next sub-root.        *)

Reach(e, f) == {y \in Subtree(e) : \A z \in Between(e, y) : ~Names(z, f)}

\* The sub-root nearest above y on the walk from e (y \in Subtree(e)).
SubRootOf(I, e, y) ==
    LET S == {z \in Between(e, y) : I[z].root = z}
    IN IF S = {} THEN None ELSE CHOOSE s \in S : \A z \in S : s \in Between(z, y)

\* A sub-root's chain with f added ("add"), removed ("rem") or kept.
Edit(c, f, how) ==
    CASE how = "add" -> c \cup {f}
      [] how = "rem" -> c \ {f}
      [] OTHER       -> c

\* y below a sub-root s: s's chain edited, if s is reached for f.
UnderRoot(I, e, y, f, how) ==
    LET s == SubRootOf(I, e, y)
    IN IF s # None /\ s \in Reach(e, f) THEN Info(s, Edit(I[s].chain, f, how))
       ELSE I[y]

\* The walk from e: dentries outside sub-roots get ri, sub-roots are edited.
Walk(I, e, ri, f, how) ==
    [y \in Dentries |->
        IF y \notin Subtree(e) THEN I[y]
        ELSE IF SubRootOf(I, e, y) = None THEN ri
        ELSE UnderRoot(I, e, y, f, how)]

rfs_info_rem(I, e, ri, f) == Walk(I, e, ri, f, "rem")

rfs_info_add(I, e, ri, f) == Walk(I, e, ri, f, "add")

\* f is on both chains: sub-roots keep it, only the rinfo of the rest changes.
rfs_info_set(I, e, ri, f) == Walk(I, e, ri, f, "keep")

rfs_info_reset(I, e, ri) == Walk(I, e, ri, CHOOSE f \in Filters : TRUE, "keep")

\* The part of the walk from root r that r itself owns (own = TRUE), or the
\* part below the other sub-roots (own = FALSE).  The two parts are
\* disjoint and neither changes a root, so applying both is Walk from r.
RootPart(I, r, f, how, own) ==
    [y \in Dentries |->
        IF y \in Subtree(r) /\ (SubRootOf(I, r, y) = r) = own
        THEN UnderRoot(I, r, y, f, how) ELSE I[y]]

\* rfs_root_rem_flt / rfs_root_add_flt on root r: the filter leaves (joins)
\* r's chain and the dentries that share r's rinfo.
rfs_root_rem_flt(I, r, f) == RootPart(I, r, f, "rem", TRUE)

rfs_root_add_flt(I, r, f) == RootPart(I, r, f, "add", TRUE)

\* rfs_root_walk(rfs_root_rem_flt / rfs_root_add_flt, f): the same for every
\* sub-root under r that no path naming f shields.
rfs_root_walk(I, r, f, how) == RootPart(I, r, f, how, FALSE)

-----------------------------------------------------------------------------
(* What the cache should hold: a dentry runs the filters that the nearest *)
(* path naming them includes (an exclude there wins, rfs_path_add_exclude).*)

RECURSIVE Effective(_, _)
Effective(d, f) ==
    \/ f \in inc[d]
    \/ /\ f \notin exc[d]
       /\ d # Top
       /\ Effective(parent[d], f)

Resolved(d) == {f \in Filters : Effective(d, f)}

\* The root whose rinfo d shares: its nearest registered ancestor-or-self.
OwnerRoot(d) ==
    LET Cand == {z \in AncOrSelf(d, parent) : Registered(z)}
    IN IF Cand = {} THEN None
       ELSE CHOOSE z \in Cand : \A w \in Between(z, d) \ {z} : ~Registered(w)

-----------------------------------------------------------------------------
(* rfs_fsrename.  A rename threads R = [i: cache, rv, k: calls left before *)
(* the next allocation fails, c: the chain the loop accumulates].         *)

Ok(R) == R.rv = "OK"

\* One allocation or collaborator call: ENOMEM once the budget is spent.
Call(R, I) ==
    IF R.k = 0 THEN [R EXCEPT !.rv = "ENOMEM"]
    ELSE [R EXCEPT !.i = I, !.k = @ - 1]

\* Per filter two fallible calls: rfs_root_rem_flt, then rfs_root_walk.
rfs_fsrename_rem_rroot(R, r, ch) ==
    FoldLeft(LAMBDA S, f :
                IF ~Ok(S) THEN S
                ELSE LET S1 == Call(S, rfs_root_rem_flt(S.i, r, f))
                     IN IF ~Ok(S1) THEN S1 ELSE Call(S1, rfs_root_walk(S1.i, r, f, "rem")),
             R, Chain(ch))

rfs_fsrename_rem_dentry(R, r, ch, e) ==
    FoldLeft(LAMBDA S, f :
                IF ~Ok(S) THEN S
                ELSE LET cn == S.c \ {f}
                     IN Call([S EXCEPT !.c = cn], rfs_info_rem(S.i, e, Info(r, cn), f)),
             [R EXCEPT !.c = R.i[r].chain], Chain(ch))

\* Mutant: the remove phase diffs the chains the wrong way round.
rfs_fsrename_rem_swapped(R, src, dst, e) ==
    IF src = None THEN R
    ELSE LET ch == IF dst = None THEN R.i[src].chain
                   ELSE R.i[dst].chain \ R.i[src].chain
             R1 == IF dst = None THEN R ELSE Call(R, R.i)
         IN IF ~Ok(R1) THEN R1
            ELSE IF src = e THEN rfs_fsrename_rem_rroot(R1, src, ch)
            ELSE rfs_fsrename_rem_dentry(R1, src, ch, e)

rfs_fsrename_rem(R, src, dst, e) ==
    IF src = None THEN R
    ELSE LET ch == IF dst = None THEN R.i[src].chain
                   ELSE R.i[src].chain \ R.i[dst].chain
             R1 == IF dst = None THEN R ELSE Call(R, R.i)   \* rfs_chain_diff
         IN IF ~Ok(R1) THEN R1
            ELSE IF src = e THEN rfs_fsrename_rem_rroot(R1, src, ch)
            ELSE rfs_fsrename_rem_dentry(R1, src, ch, e)

\* Per filter two fallible calls: rfs_root_add_flt, then rfs_root_walk.
rfs_fsrename_add_rroot(R, r, ch) ==
    FoldLeft(LAMBDA S, f :
                IF ~Ok(S) THEN S
                ELSE LET S1 == Call(S, rfs_root_add_flt(S.i, r, f))
                     IN IF ~Ok(S1) THEN S1 ELSE Call(S1, rfs_root_walk(S1.i, r, f, "add")),
             R, Chain(ch))

\* Mutant: no reset to the destination root's rinfo after the adds.
rfs_fsrename_add_dentry_no_reset(R, r, ch, e) ==
    IF ch = {} THEN Call(R, rfs_info_reset(R.i, e, R.i[r]))
    ELSE FoldLeft(LAMBDA S, f :
                     IF ~Ok(S) THEN S
                     ELSE LET cn == S.c \cup {f}
                          IN Call([S EXCEPT !.c = cn],
                                  rfs_info_add(S.i, e, Info(r, cn), f)),
                  [R EXCEPT !.c = R.i[e].chain], Chain(ch))

rfs_fsrename_add_dentry(R, r, ch, e) ==
    IF ch = {} THEN Call(R, rfs_info_reset(R.i, e, R.i[r]))
    ELSE LET R1 == FoldLeft(LAMBDA S, f :
                      IF ~Ok(S) THEN S
                      ELSE LET cn == S.c \cup {f}
                           IN Call([S EXCEPT !.c = cn],
                                   rfs_info_add(S.i, e, Info(r, cn), f)),
                      [R EXCEPT !.c = R.i[e].chain], Chain(ch))
         IN IF ~Ok(R1) THEN R1 ELSE Call(R1, rfs_info_reset(R1.i, e, R1.i[r]))

rfs_fsrename_add(R, src, dst, e) ==
    IF dst = None THEN R
    ELSE LET ch == IF src = None THEN R.i[dst].chain
                   ELSE R.i[dst].chain \ R.i[src].chain
             R1 == IF src = None THEN R ELSE Call(R, R.i)   \* rfs_chain_diff
         IN IF ~Ok(R1) THEN R1
            ELSE IF src = e THEN rfs_fsrename_add_rroot(R1, src, ch)
            ELSE rfs_fsrename_add_dentry(R1, dst, ch, e)

\* Line 963 reads rchain_src->rflts_nr unchecked; an empty chain is taken
\* as a loop over nothing, i.e. rfs_info_rem (not in src/) is assumed to
\* drop the rfs_dentry whose chain it empties (rfs_dentry_find gives NULL).
rfs_fsrename_set(R, src, dst, e) ==
    IF src = None \/ dst = None \/ src = e THEN R
    ELSE LET cs == R.i[e].chain
             cd == R.i[dst].chain
         IN FoldLeft(LAMBDA S, f :
                        IF ~Ok(S) \/ f \notin cd THEN S
                        ELSE Call(S, rfs_info_set(S.i, e, Info(dst, cs), f)),
                     R, Chain(cs))

\* rroot_dst: the root of new_dir's rinfo if it carries a chain.
RenameDst(np) == IF info[np].chain # {} THEN info[np].root ELSE None

\* rroot_src: the root of old_dentry's own rinfo if it carries a chain.
RenameSrc(e) == IF info[e].chain # {} THEN info[e].root ELSE None

\* -1: no call fails; k >= 0: the call after k successful ones fails.
Budgets == IF AllocFails THEN {-1} \cup 0 .. MaxSteps ELSE {-1}

\* The VFS moves directory e under np and then calls rfs_fsrename; the
\* walks only go down from e, so the order of the two does not matter.
rfs_fsrename(e, np) ==
    /\ e # Top
    /\ np \notin Subtree(e)
    /\ parent[e] # np            \* old_dir == new_dir: returns at once
    /\ \E k \in Budgets :
        LET dst == RenameDst(np)
            src == RenameSrc(e)
            R0 == [i |-> info, rv |-> "OK", k |-> k, c |-> {}]
            R1 == rfs_fsrename_rem(R0, src, dst, e)
            R2 == IF Ok(R1) THEN rfs_fsrename_set(R1, src, dst, e) ELSE R1
            R3 == IF Ok(R2) THEN rfs_fsrename_add(R2, src, dst, e) ELSE R2
            Rf == IF src = dst THEN R0 ELSE R3
        IN /\ info' = Rf.i
           /\ rv' = Rf.rv
    /\ parent' = [parent EXCEPT ![e] = np]
    /\ UNCHANGED <<inc, exc>>

-----------------------------------------------------------------------------

\* Registrations the registry can hold: a filter is on at most one chain
\* of a path (rfs_path_add_include/exclude answer EEXIST otherwise).
Registrations ==
    {r \in [Dentries -> [inch : SUBSET Filters, exch : SUBSET Filters]] :
        \A d \in Dentries :
            /\ r[d].inch \cap r[d].exch = {}
            /\ d \notin RegDentries => r[d].inch \cup r[d].exch = {}}

Init ==
    /\ parent = Parent0
    /\ \E r \in Registrations :
        /\ inc = [d \in Dentries |-> r[d].inch]
        /\ exc = [d \in Dentries |-> r[d].exch]
    /\ info = [d \in Dentries |-> Info(OwnerRoot(d), Resolved(d))]
    /\ rv = "OK"

Next == \E e, np \in Dentries : rfs_fsrename(e, np)

Spec == Init /\ [][Next]_vars

-----------------------------------------------------------------------------

\* After renames that all succeeded, every dentry's cached chain is the
\* chain its registrations resolve to in the new tree: rfs_fsrename's diff
\* of the source and destination chains is exactly what changed.
CacheConsistent == \A d \in Dentries : info[d].chain = Resolved(d)

\* A rename, even one an allocation failure cuts short, only changes a
\* filter's membership in a dentry's cached chain towards what the new tree
\* resolves to: the remove phase never drops a filter the new location
\* runs and the add phase never attaches one it does not.
RenameMovesTowardsResolved ==
    [][\A d \in Dentries, f \in Filters :
          (f \in info'[d].chain) # (f \in info[d].chain) =>
              ((f \in info'[d].chain) <=> Effective(d, f)')]_vars

=============================================================================
