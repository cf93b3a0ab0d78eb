------------------------------- MODULE RfsPath -------------------------------
(***************************************************************************)
(* The path registry of RedirFS (src/redirfs/rfs_path.c): rfs_path objects *)
(* on rfs_path_list, their include and exclude filter chains, their ids    *)
(* and reference counts, and the per-filter counter paths_nr, driven by    *)
(* filter threads calling the exported redirfs_*path* functions.           *)
(*                                                                         *)
(* Every exported call except redirfs_rem_paths holds rfs_path_mutex (and  *)
(* the superblock rename mutex) for its whole body, or touches only an     *)
(* atomic counter, so it is one action.  redirfs_rem_paths takes the mutex *)
(* once for its snapshot and once per path it removes: its snapshot, each  *)
(* removal and the final redirfs_put_paths are separate steps between      *)
(* which other threads run.                                                *)
(*                                                                         *)
(* The chain algebra (rfs_chain.c) and the root aggregate (rfs_root.c) are *)
(* not part of src/; chains are modelled from the spec as duplicate-free   *)
(* sequences, and every allocation or root update that can fail is a       *)
(* nondeterministic failure when AllocFails is TRUE.                       *)
(***************************************************************************)
EXTENDS Integers, Sequences, FiniteSets, SequencesExt, BagsExt

CONSTANTS
  Threads,       \* threads of filter modules calling the API
  Flt,           \* Flt[t]: the filter on whose behalf thread t calls
  Filters,       \* filter handles (struct rfs_flt)
  Dentries,      \* (vfsmount, dentry) pairs a path can be registered on
  NoDentry,      \* the dentry field of a freed object
  Objs,          \* memory slots an rfs_path object can be allocated in
  MaxHandles,    \* bound on the references all threads keep at once
  AllocFails,    \* TRUE: kzalloc, chain and root allocations may fail
  StrictClients, \* TRUE: redirfs_rem_path is called only on a listed path
  RootOf         \* RootOf[d]: the rfs_root of d's dentry (bind mounts share)

ASSUME Flt \in [Threads -> Filters]
ASSUME NoDentry \notin Dentries
ASSUME MaxHandles \in Nat \ {0}
ASSUME AllocFails \in BOOLEAN /\ StrictClients \in BOOLEAN
ASSUME DOMAIN RootOf = Dentries

Roots == {RootOf[d] : d \in Dentries}

VARIABLES
  plist,     \* rfs_path_list, in list order
  obj,       \* obj[o]: the struct rfs_path in slot o
  paths_nr,  \* rflt->paths_nr of every filter
  held,      \* held[t]: bag of path references thread t owns
  pc,        \* "idle", "rem_paths" (inside redirfs_rem_paths) or
             \* "root_paths" (holding what redirfs_get_paths_root returned)
  snap,      \* the array redirfs_get_paths(_root) returned to the thread
  idx,       \* the loop index i of redirfs_rem_paths
  rv,        \* the local rv of redirfs_rem_paths ("unset" before the loop)
  ret        \* what the call completed by the last step returned
             \* ("none": the step completed no call returning a status)

vars == <<plist, obj, paths_nr, held, pc, snap, idx, rv, ret>>

Modes   == {"include", "exclude", "bad"}  \* info->flags; "bad": another non-zero value
Errors  == {"EINVAL", "ENOMEM", "EEXIST"}
RetVals == {"none", "OK", "Garbage"} \cup Errors

FailChoice == IF AllocFails THEN BOOLEAN ELSE {FALSE}

-----------------------------------------------------------------------------
(* rfs_chain.c (not in src/): a chain is a duplicate-free sequence, the    *)
(* empty sequence is the NULL chain; add appends at the tail.              *)

rfs_chain_find(ch, f) == f \in Range(ch)
rfs_chain_add(ch, f)  == Append(ch, f)
rfs_chain_rem(ch, f)  == SelectSeq(ch, LAMBDA g : g # f)

-----------------------------------------------------------------------------
(* The rfs_path object.                                                    *)

FreeObj == [dentry |-> NoDentry, id |-> -1, rinch |-> <<>>, rexch |-> <<>>,
            count |-> 0, rroot |-> FALSE]

rfs_path_alloc(d) == [FreeObj EXCEPT !.dentry = d, !.count = 1]

\* Mutant: a reference taken without counting it.
rfs_path_get_uncounted(p) == p

rfs_path_get(p) == [p EXCEPT !.count = @ + 1]

rfs_path_put(p) == IF p.count = 1 THEN FreeObj ELSE [p EXCEPT !.count = @ - 1]

Cites(p, f) == rfs_chain_find(p.rinch, f) \/ rfs_chain_find(p.rexch, f)

Unused(p) == p.rinch = <<>> /\ p.rexch = <<>>

-----------------------------------------------------------------------------
(* The rfs_root aggregate (rfs_root.c, not in src/): rroot->rpaths holds   *)
(* the paths attached to the root of their dentry, and the root's merged   *)
(* rinch/rexch chains hold every filter one of them cites.                 *)

RootPaths(r) ==
  SelectSeq(plist, LAMBDA o : obj[o].rroot /\ RootOf[obj[o].dentry] = r)

RootCites(r, f) == \E o \in Range(RootPaths(r)) : Cites(obj[o], f)

\* The index in rfs_path_list of the path registered on d, 0 if none.
rfs_path_find(d) == SelectInSeq(plist, LAMBDA o : obj[o].dentry = d)

rfs_path_find_id(id) == SelectInSeq(plist, LAMBDA o : obj[o].id = id)

\* One pass over the list, i advancing when the current entry holds i.
rfs_path_get_id == FoldLeft(LAMBDA i, o : IF obj[o].id = i THEN i + 1 ELSE i,
                            0, plist)

\* rfs_path_add for a path not yet listed: a new object with the next id,
\* attached to its root and holding the list's reference.
rfs_path_add_new(d) ==
  [rfs_path_alloc(d) EXCEPT !.id = rfs_path_get_id, !.rroot = TRUE,
                            !.count = @ + 1]

\* Mutant: the list's reference dropped twice.
rfs_path_rem_double_put(o, p, l) ==
  IF Unused(p)
  THEN [p |-> rfs_path_put(rfs_path_put([p EXCEPT !.rroot = FALSE])),
        l |-> Remove(l, o)]
  ELSE [p |-> p, l |-> l]

\* Mutant: unused paths stay on the list.
rfs_path_rem_skipped(o, p, l) == [p |-> p, l |-> l]

\* rfs_path_rem of object o, p, on list l: an unused path leaves its root
\* and the list, which drops its reference.  Returns the object and list.
rfs_path_rem(o, p, l) ==
  IF Unused(p)
  THEN [p |-> rfs_path_put([p EXCEPT !.rroot = FALSE]), l |-> Remove(l, o)]
  ELSE [p |-> p, l |-> l]

-----------------------------------------------------------------------------
(* Adding and removing a filter on one path.  Each returns the return     *)
(* value, the new object and the change to paths_nr; fail stands for any  *)
(* of the allocations or root updates of the function failing.            *)

Result(r, p, n) == [rv |-> r, p |-> p, nr |-> n]

\* Mutant: paths_nr raised before the root update that may still fail.
rfs_path_add_include_early_count(p, f, fail) ==
  CASE rfs_chain_find(p.rinch, f) -> Result("OK", p, 0)
    [] rfs_chain_find(p.rexch, f) -> Result("EEXIST", p, 0)
    [] fail                       -> Result("ENOMEM", p, 1)
    [] OTHER -> Result("OK", [p EXCEPT !.rinch = rfs_chain_add(@, f)], 1)

rfs_path_add_include(p, f, fail) ==
  CASE rfs_chain_find(p.rinch, f) -> Result("OK", p, 0)
    [] rfs_chain_find(p.rexch, f) -> Result("EEXIST", p, 0)
    [] fail                       -> Result("ENOMEM", p, 0)
    [] OTHER -> Result("OK", [p EXCEPT !.rinch = rfs_chain_add(@, f)], 1)

\* Mutant: the new chain published before the root update is checked.
rfs_path_add_exclude_early_publish(p, f, fail) ==
  CASE rfs_chain_find(p.rexch, f) -> Result("OK", p, 0)
    [] rfs_chain_find(p.rinch, f) -> Result("EEXIST", p, 0)
    [] fail -> Result("ENOMEM", [p EXCEPT !.rexch = rfs_chain_add(@, f)], 0)
    [] OTHER -> Result("OK", [p EXCEPT !.rexch = rfs_chain_add(@, f)], 1)

\* Mutant: no check of the include chain before excluding.
rfs_path_add_exclude_no_eexist(p, f, fail) ==
  CASE rfs_chain_find(p.rexch, f) -> Result("OK", p, 0)
    [] fail                       -> Result("ENOMEM", p, 0)
    [] OTHER -> Result("OK", [p EXCEPT !.rexch = rfs_chain_add(@, f)], 1)

rfs_path_add_exclude(p, f, fail) ==
  CASE rfs_chain_find(p.rexch, f) -> Result("OK", p, 0)
    [] rfs_chain_find(p.rinch, f) -> Result("EEXIST", p, 0)
    [] fail                       -> Result("ENOMEM", p, 0)
    [] OTHER -> Result("OK", [p EXCEPT !.rexch = rfs_chain_add(@, f)], 1)

rfs_path_rem_include(p, f, fail) ==
  CASE ~rfs_chain_find(p.rinch, f) -> Result("OK", p, 0)
    [] fail                        -> Result("ENOMEM", p, 0)
    [] OTHER -> Result("OK", [p EXCEPT !.rinch = rfs_chain_rem(@, f)], -1)

rfs_path_rem_exclude(p, f, fail) ==
  CASE ~rfs_chain_find(p.rexch, f) -> Result("OK", p, 0)
    [] fail                        -> Result("ENOMEM", p, 0)
    [] OTHER -> Result("OK", [p EXCEPT !.rexch = rfs_chain_rem(@, f)], -1)

AddToPath(p, f, mode, fail) ==
  CASE mode = "include" -> rfs_path_add_include(p, f, fail)
    [] mode = "exclude" -> rfs_path_add_exclude(p, f, fail)
    [] OTHER            -> Result("EINVAL", p, 0)

RemFromPath(p, f, fail) ==
  CASE rfs_chain_find(p.rinch, f) -> rfs_path_rem_include(p, f, fail)
    [] rfs_chain_find(p.rexch, f) -> rfs_path_rem_exclude(p, f, fail)
    [] OTHER                      -> Result("EINVAL", p, 0)

\* The state change of redirfs_rem_path(Flt, o) once r is known, including
\* its trailing rfs_path_rem.
ApplyRem(o, f, r) ==
  LET q == rfs_path_rem(o, r.p, plist)
  IN
  /\ obj' = [obj EXCEPT ![o] = q.p]
  /\ plist' = q.l
  /\ paths_nr' = [paths_nr EXCEPT ![f] = @ + r.nr]

-----------------------------------------------------------------------------
(* The exported calls.                                                     *)

Init ==
  /\ plist = <<>>
  /\ obj = [o \in Objs |-> FreeObj]
  /\ paths_nr = [f \in Filters |-> 0]
  /\ held = [t \in Threads |-> EmptyBag]
  /\ pc = [t \in Threads |-> "idle"]
  /\ snap = [t \in Threads |-> <<>>]
  /\ idx = [t \in Threads |-> 1]
  /\ rv = [t \in Threads |-> "unset"]
  /\ ret = "none"

\* The caller is not inside a call.
Idle(t) == pc[t] = "idle"

\* The bound on kept references leaves room for one more.
Room == MapThenSumSet(LAMBDA u : BagCardinality(held[u]), Threads) < MaxHandles

\* redirfs_add_path(Flt[t], {d, mode}): find or create the path, add the
\* filter to the chain of the mode, drop the path again if it is unused,
\* and on error drop the reference rfs_path_add took.
redirfs_add_path(t, d, mode) ==
  LET f == Flt[t]
      i == rfs_path_find(d)
  IN
  /\ Idle(t)
  /\ Room
  /\ \/ /\ i = 0
        /\ AllocFails   \* rfs_path_alloc or rfs_root_add fails
        /\ ret' = "ENOMEM"
        /\ UNCHANGED <<plist, obj, paths_nr, held>>
     \/ \E o \in Objs, fail \in FailChoice :
          /\ IF i = 0 THEN obj[o].count = 0 ELSE o = plist[i]
          /\ LET p0 == IF i = 0 THEN rfs_path_add_new(d)
                                ELSE rfs_path_get(obj[o])
                 l0 == IF i = 0 THEN Append(plist, o) ELSE plist
                 r  == AddToPath(p0, f, mode, fail)
                 q  == rfs_path_rem(o, r.p, l0)
             IN /\ obj' = [obj EXCEPT ![o] = IF r.rv = "OK" THEN q.p
                                                 ELSE rfs_path_put(q.p)]
                /\ plist' = q.l
                /\ paths_nr' = [paths_nr EXCEPT ![f] = @ + r.nr]
                /\ held' = IF r.rv = "OK"
                           THEN [held EXCEPT ![t] = BagAdd(@, o)] ELSE held
                /\ ret' = r.rv
  /\ UNCHANGED <<pc, snap, idx, rv>>

\* redirfs_rem_path(Flt[t], o) on a path reference t owns.
redirfs_rem_path(t, o) ==
  /\ Idle(t)
  /\ BagIn(o, held[t])
  /\ StrictClients => o \in Range(plist)
  /\ \E fail \in FailChoice :
       LET r == RemFromPath(obj[o], Flt[t], fail)
       IN /\ ApplyRem(o, Flt[t], r)
          /\ ret' = r.rv
  /\ UNCHANGED <<held, pc, snap, idx, rv>>

\* redirfs_rem_paths, first step: redirfs_get_paths takes a reference to
\* every listed path citing the filter, in list order.
rem_paths_get(t) ==
  LET S == SelectSeq(plist, LAMBDA o : Cites(obj[o], Flt[t]))
  IN
  /\ Idle(t)
  /\ \/ /\ AllocFails   \* kzalloc of the array fails
        /\ ret' = "ENOMEM"
        /\ UNCHANGED <<obj, pc, snap, idx, rv>>
     \/ /\ obj' = [o \in Objs |-> IF o \in Range(S) THEN rfs_path_get(obj[o])
                                                    ELSE obj[o]]
        /\ snap' = [snap EXCEPT ![t] = S]
        /\ idx' = [idx EXCEPT ![t] = 1]
        /\ rv' = [rv EXCEPT ![t] = "unset"]
        /\ pc' = [pc EXCEPT ![t] = "rem_paths"]
        /\ ret' = "none"
  /\ UNCHANGED <<plist, paths_nr, held>>

\* The loop of redirfs_rem_paths goes on while paths[i] is not NULL and
\* the last redirfs_rem_path succeeded.
\* Mutant: the loop stops before the last path.
RemPathsMoreShort(t) == idx[t] < Len(snap[t]) /\ rv[t] \in {"unset", "OK"}

RemPathsMore(t) == idx[t] <= Len(snap[t]) /\ rv[t] \in {"unset", "OK"}

\* redirfs_put_paths: drop the reference held for each path of the array.
redirfs_put_paths(S) ==
  [o \in Objs |-> IF o \in Range(S) THEN rfs_path_put(obj[o]) ELSE obj[o]]

\* One iteration: rv = redirfs_rem_path(filter, paths[i]).
rem_paths_step(t) ==
  LET o == snap[t][idx[t]]
  IN
  /\ pc[t] = "rem_paths"
  /\ RemPathsMore(t)
  /\ \E fail \in FailChoice :
       LET r == RemFromPath(obj[o], Flt[t], fail)
       IN /\ ApplyRem(o, Flt[t], r)
          /\ rv' = [rv EXCEPT ![t] = r.rv]
          /\ idx' = [idx EXCEPT ![t] = IF r.rv = "OK" THEN @ + 1 ELSE @]
  /\ ret' = "none"
  /\ UNCHANGED <<held, pc, snap>>

\* redirfs_put_paths(paths) and return rv; rv was never assigned when the
\* array was empty, so the caller gets whatever the stack slot held.
rem_paths_put(t) ==
  /\ pc[t] = "rem_paths"
  /\ ~RemPathsMore(t)
  /\ obj' = redirfs_put_paths(snap[t])
  /\ ret' \in IF rv[t] = "unset" THEN {"OK", "Garbage"} ELSE {rv[t]}
  /\ pc' = [pc EXCEPT ![t] = "idle"]
  /\ snap' = [snap EXCEPT ![t] = <<>>]
  /\ idx' = [idx EXCEPT ![t] = 1]       \* the locals die with the call
  /\ rv' = [rv EXCEPT ![t] = "unset"]
  /\ UNCHANGED <<plist, paths_nr, held>>

\* redirfs_get_path: another reference to a path t owns.
redirfs_get_path(t, o) ==
  /\ Idle(t)
  /\ Room
  /\ BagIn(o, held[t])
  /\ obj' = [obj EXCEPT ![o] = rfs_path_get(@)]
  /\ held' = [held EXCEPT ![t] = BagAdd(@, o)]
  /\ UNCHANGED <<plist, paths_nr, pc, snap, idx, rv>>
  /\ ret' = "none"

\* redirfs_put_path: drop a reference t owns.
redirfs_put_path(t, o) ==
  /\ pc[t] = "idle"
  /\ BagIn(o, held[t])
  /\ obj' = [obj EXCEPT ![o] = rfs_path_put(@)]
  /\ held' = [held EXCEPT ![t] = BagRemove(@, o)]
  /\ UNCHANGED <<plist, paths_nr, pc, snap, idx, rv>>
  /\ ret' = "none"

\* redirfs_get_path_id: the first listed path with the id, referenced.
\* The three reference calls return a pointer or nothing, no status.
redirfs_get_path_id(t, id) ==
  LET i == rfs_path_find_id(id)
  IN
  /\ Idle(t)
  /\ Room
  /\ i # 0   \* otherwise NULL is returned and nothing changes
  /\ obj' = [obj EXCEPT ![plist[i]] = rfs_path_get(@)]
  /\ held' = [held EXCEPT ![t] = BagAdd(@, plist[i])]
  /\ UNCHANGED <<plist, paths_nr, pc, snap, idx, rv>>
  /\ ret' = "none"

\* redirfs_get_paths_root(Flt[t], r) under the root's spinlock: walks the
\* root's paths and takes a reference to each one for which the ROOT's
\* merged chains cite the filter.  The caller keeps the array until it
\* hands it to redirfs_put_paths.
redirfs_get_paths_root(t, r) ==
  LET S == SelectSeq(RootPaths(r), LAMBDA o : RootCites(r, Flt[t]))
  IN
  /\ Idle(t)
  /\ RootPaths(r) # <<>>   \* the caller holds a live root
  /\ \/ /\ AllocFails   \* kzalloc(GFP_ATOMIC) of the array fails
        /\ ret' = "ENOMEM"
        /\ UNCHANGED <<obj, pc, snap>>
     \/ /\ obj' = [o \in Objs |-> IF o \in Range(S) THEN rfs_path_get(obj[o])
                                                    ELSE obj[o]]
        /\ snap' = [snap EXCEPT ![t] = S]
        /\ pc' = [pc EXCEPT ![t] = "root_paths"]
        /\ ret' = "none"
  /\ UNCHANGED <<plist, paths_nr, held, idx, rv>>

\* The caller of redirfs_get_paths_root is done with the array.
root_paths_put(t) ==
  /\ pc[t] = "root_paths"
  /\ obj' = redirfs_put_paths(snap[t])
  /\ pc' = [pc EXCEPT ![t] = "idle"]
  /\ snap' = [snap EXCEPT ![t] = <<>>]
  /\ ret' = "none"
  /\ UNCHANGED <<plist, paths_nr, held, idx, rv>>

Ids == 0 .. Cardinality(Objs) - 1

Next ==
  \E t \in Threads :
    \/ \E d \in Dentries, mode \in Modes : redirfs_add_path(t, d, mode)
    \/ \E o \in Objs : redirfs_rem_path(t, o)
    \/ rem_paths_get(t)
    \/ rem_paths_step(t)
    \/ rem_paths_put(t)
    \/ \E o \in Objs : redirfs_get_path(t, o)
    \/ \E o \in Objs : redirfs_put_path(t, o)
    \/ \E id \in Ids : redirfs_get_path_id(t, id)
    \/ \E r \in Roots : redirfs_get_paths_root(t, r)
    \/ root_paths_put(t)

Spec == Init /\ [][Next]_vars

-----------------------------------------------------------------------------
(* Properties.                                                             *)

TypeOK ==
  /\ plist \in Seq(Objs)
  /\ obj \in [Objs -> [dentry : Dentries \cup {NoDentry}, id : {-1} \cup Ids,
                       rinch : Seq(Filters), rexch : Seq(Filters),
                       count : Nat, rroot : BOOLEAN]]
  /\ paths_nr \in [Filters -> Int]
  /\ \A t \in Threads : IsABag(held[t]) /\ BagToSet(held[t]) \subseteq Objs
  /\ pc \in [Threads -> {"idle", "rem_paths", "root_paths"}]
  /\ snap \in [Threads -> Seq(Objs)]
  /\ idx \in [Threads -> Nat]
  /\ rv \in [Threads -> RetVals \cup {"unset"}]
  /\ ret \in RetVals

Listed == Range(plist)

(* The list holds each object once, holds exactly the live objects with a  *)
(* filter on one of their chains (rfs_path_rem runs after every add and    *)
(* remove, whatever its outcome), every listed object is attached to its   *)
(* root, and no dentry is registered twice.  A failed add on a fresh path, *)
(* or an invalid mode, must not leave an empty path behind.                *)
RegistryWellFormed ==
  /\ IsInjective(plist)
  /\ \A o \in Objs : o \in Listed <=> (obj[o].count > 0 /\ ~Unused(obj[o]))
  /\ \A o \in Listed : obj[o].rroot
  /\ \A o1, o2 \in Listed : obj[o1].dentry = obj[o2].dentry => o1 = o2

(* rflt->paths_nr counts the listed paths citing the filter: it sizes the  *)
(* array redirfs_get_paths fills with every such path, so a count below    *)
(* the real number overruns that array.  Every failure path of the add and *)
(* remove functions must leave it in step with the chains.                 *)
PathsNrCount ==
  \A f \in Filters :
    paths_nr[f] = Cardinality({o \in Listed : Cites(obj[o], f)})

(* Every reference an rfs_path object counts has an owner: the list, a     *)
(* handle a thread keeps, or an array of redirfs_get_paths(_root) a thread *)
(* still holds.  A count above its owners leaks the object; one below them *)
(* frees it while a thread still uses it.                                  *)
Owners(o) ==
  (IF o \in Listed THEN 1 ELSE 0)
  + MapThenSumSet(LAMBDA t : CopiesIn(o, held[t]), Threads)
  + Cardinality({t \in Threads : pc[t] # "idle" /\ o \in Range(snap[t])})

RefCountSound == \A o \in Objs : obj[o].count = Owners(o)

(* What each dentry has registered: the chains of its listed path.         *)
NoChains == [inch |-> <<>>, exch |-> <<>>]
RegView ==
  [d \in Dentries |->
     LET i == rfs_path_find(d)
     IN IF i = 0 THEN NoChains
        ELSE [inch |-> obj[plist[i]].rinch, exch |-> obj[plist[i]].rexch]]

ErrorStep ==
  \/ ret' \in Errors
  \/ \E t \in Threads : rv'[t] \in Errors /\ rv[t] \notin Errors

(* A call (or one removal inside redirfs_rem_paths) that returns an error  *)
(* leaves the registered chains and paths_nr as they were: no chain is     *)
(* published before the root update that may still fail.                   *)
AtomicFailure ==
  [][ErrorStep => UNCHANGED <<RegView, paths_nr>>]_vars

(* When redirfs_rem_paths returns 0, no listed path cites the filter any   *)
(* more (each thread here is the only caller for its filter).              *)
RemPathsClearsFilter ==
  [][\A t \in Threads :
       (pc[t] = "rem_paths" /\ pc'[t] = "idle" /\ ret' = "OK")
         => \A o \in Listed' : ~Cites(obj'[o], Flt[t])]_vars

(* The registry refines PathRegistry: every step changes the chains of at  *)
(* most one dentry by appending a filter absent from both of its chains or *)
(* by taking a present filter off; failed, repeated and reference calls    *)
(* change nothing.  This is the "no lost update, no filter on both sides,  *)
(* registration order kept" contract of spec 4.2 and 8.                    *)
Abstract == INSTANCE PathRegistry WITH reg <- RegView

RefinesPathRegistry == Abstract!Spec

(* The spec: a path's id is the smallest integer not used by another path; *)
(* in particular no two listed paths share an id (redirfs_get_path_id      *)
(* returns one object per id).                                             *)
IdsUnique == \A o1, o2 \in Listed : obj[o1].id = obj[o2].id => o1 = o2

(* redirfs_get_paths_root returns the paths of one root that cite the     *)
(* filter (spec 6: list_paths_for_root is list_paths_for_filter restricted *)
(* to one root): the array it hands over is exactly that set, taken in the *)
(* state the call ran in.                                                  *)
RootPathsCiteFilter ==
  [][\A t \in Threads :
       (pc[t] = "idle" /\ pc'[t] = "root_paths")
         => \E r \in Roots :
              Range(snap'[t]) = {o \in Listed : RootOf[obj[o].dentry] = r
                                               /\ Cites(obj[o], Flt[t])}]_vars

=============================================================================
